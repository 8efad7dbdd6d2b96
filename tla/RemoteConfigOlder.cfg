\* The process ends between an update's file and its journal record.
CONSTANTS
    a1 = a1  a2 = a2  b1 = b1  r1 = r1  r2 = r2
    Definitions = {a1, a2, b1}
    Requests = {r1, r2}
    None = None
    Required = {b1}
    JournalLimit = 1
    MaxDisturbances = 1
    MaxRestarts = 0
    Name <- MCName
    Revision <- MCRevision
    Valid <- MCValid
    InitialLists <- MCInitial
    Change <- FullAndUpdate
SPECIFICATION Spec
INVARIANT OlderNeverReplacesNewer
