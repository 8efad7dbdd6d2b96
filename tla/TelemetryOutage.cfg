\* The broker comes back for good; no message is refused.
CONSTANTS
    c1 = c1  c2 = c2
    Callers = {c1}
    MaxQueue = 1
    PackSize = 2
    BatchSize = 1
    MaxEvents = 2
    MaxOutages = 1
    MaxRefusals = 0
    MaxFailures = 0
SPECIFICATION FairSpec
PROPERTIES
    ReplaysAfterOutage
