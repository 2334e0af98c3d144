SPECIFICATION Spec
CONSTANTS
    Words <- MCWords
    Addresses4 <- MCAddresses4
    Addresses6 <- MCAddresses6
    Fds <- MCFds
    MaxLeaves = 3
    StackValues = {0, 1}
INVARIANTS
    ArchiveFilled
    ReadBack
CHECK_DEADLOCK FALSE
