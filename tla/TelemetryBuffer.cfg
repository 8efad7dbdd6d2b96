\* Two publishing threads; one outage, refused message and failure each.
CONSTANTS
    c1 = c1  c2 = c2
    Callers = {c1, c2}
    MaxQueue = 1
    PackSize = 2
    BatchSize = 2
    MaxEvents = 3
    MaxOutages = 1
    MaxRefusals = 1
    MaxFailures = 1
SYMMETRY Symmetry
SPECIFICATION Spec
INVARIANTS
    TypeOK
    DeletedWereOffered
    AcceptedUnlessLate
    NothingVanishes
