CONSTANTS
    MaxSessions <- MCMaxSessions
    MaxConnectors <- MCMaxConnectors2
    QueueCap <- MCQueueCap
    ClientBudget <- MCClientBudget
    RelayBudget <- MCRelayBudget
    Reconnect = FALSE
    Retransmit = TRUE
    SendErrors = TRUE
    None = None
SPECIFICATION Spec
PROPERTY AbandonedSessionsExit
CHECK_DEADLOCK FALSE
