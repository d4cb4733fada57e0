CONSTANTS
    MaxDsn <- MCMaxDsn
    BackendMaxDsn <- MCBackendMaxDsn
    RelayBudget <- MCRelayBudget
    WriteErrors = TRUE
    Lossy = TRUE
    AckNumbers <- MCAckNumbers
    MaxAcks <- MCMaxAcks
    SessionMtu <- MCSessionMtu
    GrantedMtus <- MCGrantedMtus
    Int64Values <- MCInt64Values
    MtuValues <- MCMtuValues
    PeerAddrs <- MCPeerAddrs
SPECIFICATION Spec
INVARIANT TypeOK StartGameFirst AckRangeCodec HandshakeFieldsRead
PROPERTY LoginLeadsToPlay
CHECK_DEADLOCK FALSE
