SPECIFICATION Spec
CONSTANTS
    p1 = p1
    p2 = p2
    p3 = p3
    p4 = p4
    Peers <- MCPeers
    MaxLinks = 3
    MaxFiles = 2
    Unreachable <- MCUnreachable
INVARIANTS
    KeysAreFound
CHECK_DEADLOCK FALSE
