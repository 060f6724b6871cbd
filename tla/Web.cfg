CONSTANTS
    MaxContexts = 4
    SilentFailure = TRUE
    SocketBlocks = FALSE
    MaxClients = 5
    MaxConnections = 3
SPECIFICATION WebSpec
\* When all browsers and the host have come and gone nothing more happens.
CHECK_DEADLOCK FALSE
INVARIANTS OneConnection Consistent TableAccounts
INVARIANTS ListIsSound EmitsToConnected ControlsReachHost
PROPERTIES Reconnects TrueMeansOffered
