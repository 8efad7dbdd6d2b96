\* Packs of one row and a refused message: the late batch.
CONSTANTS
    c1 = c1  c2 = c2
    Callers = {c1}
    MaxQueue = 1
    PackSize = 1
    BatchSize = 2
    MaxEvents = 3
    MaxOutages = 1
    MaxRefusals = 1
    MaxFailures = 0
SPECIFICATION Spec
INVARIANTS
    AcceptedBeforeDeleted
