------------------------------ MODULE MCProxy ------------------------------
EXTENDS Proxy

\* One connection that logs in once: enough for a login, a ping, a game
\* packet and a disconnect racing the backend's answer.
MCMaxSessions == 1
MCMaxConnectors == 1
MCClientBudget == 6

\* A client that reconnects and resends: two sessions and two connectors.
MCMaxSessions2 == 2
MCMaxConnectors2 == 2
MCClientBudget2 == 8

MCQueueCap == 2
MCRelayBudget == 1
=============================================================================
