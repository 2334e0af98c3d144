SPECIFICATION FairSpec
CONSTANTS
    a = a
    b = b
    Peers <- MCPeers
    SeqMod = 3
    MaxPackets <- MCWrap
    NextMayThrow = TRUE
    OwnerTransmits = TRUE
    MaxConfirms = 5
INVARIANTS
    TypeOK
    DeliveredInOrder
    ConfirmedDelivered
    WindowOfOne
    OnlyStartedOnWire
    KeepsRetrying
PROPERTIES
    ImplementsPromise
    EventuallyConfirmed
CHECK_DEADLOCK FALSE
