CONSTANTS
    MaxSessions <- MCMaxSessions
    MaxConnectors <- MCMaxConnectors2
    QueueCap <- MCQueueCap
    ClientBudget <- MCClientBudget
    RelayBudget <- MCRelayBudget
    Reconnect = FALSE
    Retransmit = TRUE
    SendErrors = TRUE
    None = None
SPECIFICATION Spec
INVARIANT NoPanic
CHECK_DEADLOCK FALSE
