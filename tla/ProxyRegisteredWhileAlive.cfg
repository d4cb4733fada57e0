CONSTANTS
    MaxSessions <- MCMaxSessions2
    MaxConnectors <- MCMaxConnectors2
    QueueCap <- MCQueueCap
    ClientBudget <- MCClientBudget2
    RelayBudget <- MCRelayBudget
    Reconnect = TRUE
    Retransmit = TRUE
    SendErrors = TRUE
    None = None
SPECIFICATION Spec
INVARIANT RegisteredWhileAlive
CHECK_DEADLOCK FALSE
