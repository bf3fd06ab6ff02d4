CONSTANTS
    Self = self
    Address = {self, p4, p6}
    PeersIPv4 = {p4}
    PeersIPv6 = {p6}
    FamilyOf <- Families
    Port = {1, 2}
    Payload = {}
    PayloadSize <- NoSizes
    NoData = NoData
    TimeStampModulus = 1
    Timeouts = {10}
    BufferSize = 16
    MaxEndPointId = 1
    MaxSockets = 2
    SocketErrorSize = 1000
    StartTime = 10
    MaxTime = 11
    MaySetBack = FALSE
    MaxWaiting = 1
    ArrivesMidScan = TRUE
SPECIFICATION MCMuxSpec
INVARIANTS OneSourcePerFamily
PROPERTIES NullptrMeansAllHeard EveryCallReturns SocketsDrain
