SPECIFICATION Spec
CONSTANTS
    client = client
    server = server
    Client = client
    Server = server
    Datagrams = TRUE
    Renegotiators <- MCNobody
    Closers <- MCNobody
    Permits <- MCAny
    Revocable = FALSE
    Builds <- MCRepaired
    RecordSize = 3
    MaxGen = 1
    MaxData = 1
INVARIANTS
    AgainIsNonFatal
CHECK_DEADLOCK FALSE
