\* Two signed updates, one disturbance, one restart RPC, a journal of one.
CONSTANTS
    a1 = a1  a2 = a2  b1 = b1  r1 = r1  r2 = r2
    Definitions = {a1, b1}
    Requests = {r1, r2}
    None = None
    Required = {b1}
    JournalLimit = 1
    MaxDisturbances = 1
    MaxRestarts = 1
    Name <- MCName
    Revision <- MCRevision
    Valid <- MCValid
    InitialLists <- MCInitial
    Change <- AddAndRemove
SPECIFICATION Spec
INVARIANTS
    TypeOK
    AppliedOnce
    OlderReplacesOnlyUnrecorded
    SuccessSurvives
    OneOutcome
    Settled
