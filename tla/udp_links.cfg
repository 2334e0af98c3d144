SPECIFICATION Spec
CONSTANTS
    p1 = p1
    p2 = p2
    p3 = p3
    p4 = p4
    Peers <- MCPeers
    MaxLinks = 5
    MaxFiles = 3
    Unreachable <- MCUnreachable
INVARIANTS
    TypeOK
    HandedToSender
    HeldIsLive
    HeldHears
    SendsByStray
CHECK_DEADLOCK FALSE
