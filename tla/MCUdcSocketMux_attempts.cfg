CONSTANTS
    Self = self
    Address = {self, p4, p6}
    PeersIPv4 = {p4}
    PeersIPv6 = {p6}
    FamilyOf <- Families
    Port = {1}
    Payload = {}
    PayloadSize <- NoSizes
    NoData = NoData
    TimeStampModulus = 1
    Timeouts = {10}
    BufferSize = 16
    MaxEndPointId = 2
    MaxSockets = 1
    SocketErrorSize = 1000
    StartTime = 10
    MaxTime = 12
    MaySetBack = TRUE
    MaxWaiting = 1
    ArrivesMidScan = FALSE
SPECIFICATION MCMuxSpec
PROPERTIES EveryAttemptEnds SilenceIsNoticed
