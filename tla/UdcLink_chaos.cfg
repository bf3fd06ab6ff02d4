CONSTANTS
    MaxConnects = 2
    MaxSends = 1
    MayDisconnect = TRUE
    MayLose = TRUE
    MayDuplicate = TRUE
    MayReorder = TRUE
    MayFail = FALSE
    MayDelay = TRUE
    MaxRestarts = 0
    TickSize = 1
    Endless = FALSE
    TimeStampModulus = 8
    Timeout = 10
    MessageSize = 3
    BufferSize = 16
    Capacity = 2
    StartTime = 10
    MaxTime = 11
SPECIFICATION Spec
INVARIANTS AddressMapMatches PingPlausible
PROPERTIES DisconnectIsFinal
