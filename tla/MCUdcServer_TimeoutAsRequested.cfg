CONSTANTS
    Self = self
    Address = {self, p1}
    Peers = {p1}
    Payload = {m}
    PayloadSize <- Sizes
    NoData = NoData
    TimeStampModulus = 1
    Timeouts = {10}
    BufferSize = 16
    MaxEndPointId = 1
    MaxSockets = 1
    SocketErrorSize = 1000
    StartTime = 10
    Ticks = {1}
    MaxTime = 12
    MaxInbox = 1
    MaxQueue = 1
    StraySizes = {}
SPECIFICATION MCSpec
PROPERTY TimeoutAsRequested
