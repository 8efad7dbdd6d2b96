\* One gateway service per behaviour; the bounds of each, in the order of MCServices.
CONSTANTS
    MaxClaim = 2
    MaxRequest = 2
    MaxQueue = 1
    ClaimFaults = 1
    MaxDb = 3
    SizeLimit = 1
    MaxPuts = 5
    StorageRestarts = 1
    MaxUnread = 1
    Preference <- InterfaceOrder
    Metrics <- ProfileMetrics
    FieldInterfaces = {"eth1"}
    HelperFaults = 2
    Signatures = {"a", "b", "x"}
    Exempt = {"x"}
    DuplicateWindow = 2
    DuplicateCache = 1
    LogBuffer = 2
    MaxEmits = 4
    MaxLogClock = 3
    HeartbeatInterval = 2
    WatchdogPeriod = 3
    ScanIds = {"s1"}
    Background = {"periodic"}
    Guided = {"g1", "g2"}
    SerialTargets = 1
    TcpTargets = 1
    ReportCache = 1
    Versions = {"v1", "v2"}
    Factory = "v0"
    MaxUpdates = 2
    PowerCuts = 1
SPECIFICATION ServicesSpec
INVARIANTS
    TypesOK
    ResetCompleteMeansEmpty
    NoInheritedPolicy
    OnlyStragglersCross
    LostOnlyUnseen
    OneWriterUntilFull
    MetricsRestorable
    EveryRecordAccounted
    CompleteMeansCovered
    CurrentIsWhole
PROPERTIES
    HubIsAnswered
    AcceptsAgain
    StallIsNoticed
    ScanConcludes
CHECK_DEADLOCK FALSE
