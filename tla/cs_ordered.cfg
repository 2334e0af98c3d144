SPECIFICATION FairSpec
CONSTANTS
    client = client
    server = server
    Client = client
    Server = server
    Datagrams = FALSE
    Renegotiators <- MCBoth
    Closers <- MCBoth
    Permits <- MCAny
    Revocable = TRUE
    Builds <- MCRepaired
    RecordSize = 3
    MaxGen = 3
    MaxData = 2
INVARIANTS
    AgainIsNonFatal
PROPERTIES
    ImplementsStream
    OpeningCompletes
    ClientRecovers
    DataArrives
    CloseReachesPeer
CHECK_DEADLOCK FALSE
