SPECIFICATION Spec
CONSTANTS
    client = client
    server = server
    Client = client
    Server = server
    Datagrams = TRUE
    Renegotiators <- MCBoth
    Closers <- MCBoth
    Permits <- MCAny
    Revocable = TRUE
    Builds <- MCBuilds
    RecordSize = 3
    MaxGen = 2
    MaxData = 1
INVARIANTS
    TypeOK
    OpenIsAdmitted
    EpochsAgree
    OpensOnlyRepaired
PROPERTIES
    EndsForGood
    ImplementsStream
CHECK_DEADLOCK FALSE
