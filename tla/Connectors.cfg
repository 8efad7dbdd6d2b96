\* One field connector per behaviour; the bounds of each, in the order of MCConnectors.
CONSTANTS
    MbSlaves = {"s1", "s2"}
    MbSerial = {"s2"}
    MbMasterOf <- ModbusMasters
    ConnectAttempts = 2
    MbReadings = {"r1", "r2"}
    MbCalls = {"q1"}
    MbQueueBound = 1
    UaOrder <- OpcuaOrder
    UaDeviceOf <- OpcuaDevices
    UaByPath = {"n1"}
    UaWorkers = {"w1"}
    MaxNodesPerRead = 2
    UaReadings = {"r1", "r2"}
    UaCalls = {"q1"}
    MqTopics <- MqttTopics
    MqBroken = {"broken"}
    MqWildcard = {"t1"}
    MqUnmatched = {"system"}
    MqInvalid = {"broken"}
    MqRequests = {"connect", "disconnect", "attributes"}
    MqWorkers = {"w1", "w2"}
    MqPerWorker = 1
    MqQueueBound = 2
    MqReadings = {"r1", "r2"}
    MqCalls = {"q1"}
    BnDevices = {"d1", "d2", "d3"}
    BnMatches <- BacnetMatches
    BnObjectsOf <- BacnetObjects
    BnPolls = {"p1"}
    BnRescans = {"x1"}
    BnQueueBound = 1
    BnReadings = {"r1"}
    BnCalls = {"q1"}
    RqEndpoints = {"e1", "e2"}
    RqNoConverter = {"e2"}
    RqThreads = {"t1", "t2"}
    RqQueueBound = 1
    RqMatches = 2
    RqReadings = {"r1", "r2"}
    RqCalls = {"q1"}
    RsReadings = {"r1", "r2", "r3"}
    RsExpecting = {"r2", "r3"}
    RsAnonymous = {"r1"}
    RsMatches = 2
    RsReplyBound = 1
    RsCalls = {"q1"}
SPECIFICATION ConnectorsSpec
INVARIANTS
    TypesOK
    AcceptedMeansWritten
    ValuesKeepTheirKey
    CurrentTopicsAreMapped
PROPERTIES
    ConnectorsImplementContract
    RequestsConclude
CHECK_DEADLOCK FALSE
