SPECIFICATION Spec
CONSTANTS
    a = a
    b = b
    Hosts <- MCHosts
    Payloads <- MCPayloads
    SizeMod = 4
    Ordered = TRUE
    Repairs <- MCAllRepairs
    ReadMayFail = TRUE
    MaxReads = 2
INVARIANTS
    DeviceGetsPayload
    NeverRejects
    TerminatedByPeer
    CrashedByRead
CHECK_DEADLOCK FALSE
