CONSTANTS
    MaxDsn <- MCMaxDsn
    BackendMaxDsn <- MCBackendMaxDsn
    RelayBudget <- MCRelayBudget
    WriteErrors = FALSE
    Lossy = FALSE
    AckNumbers <- MCAckNumbers
    MaxAcks <- MCMaxAcks
    SessionMtu <- MCSessionMtu
    GrantedMtus <- MCGrantedMtus
    Int64Values <- MCInt64Values
    MtuValues <- MCMtuValues
    PeerAddrs <- MCPeerAddrs
SPECIFICATION Spec
PROPERTY BackendEventuallyAcked
CHECK_DEADLOCK FALSE
