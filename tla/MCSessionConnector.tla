------------------------- MODULE MCSessionConnector -------------------------
EXTENDS SessionConnector

MCMaxDsn == 4
MCBackendMaxDsn == 3
MCRelayBudget == 1
\* Small numbers with runs and gaps, and both ends of the signed 24-bit
\* range a decoded sequence number lies in.
MCAckNumbers == {-8388608, 0, 1, 2, 4, 8388606, 8388607}
MCMaxAcks == 3
\* The client asked for 1492; the backend grants less, as a RakNet server
\* does when the client's MTU exceeds its own.
MCSessionMtu == 1492
MCGrantedMtus == {1400}
\* int64 values at the edges of both int32 halves, and int16 MTUs at theirs.
MCInt64Values == {[hi |-> -2147483647 - 1, lo |-> 0], [hi |-> -1, lo |-> -1],
                  [hi |-> 0, lo |-> 0], [hi |-> 0, lo |-> 1], [hi |-> 2147483647, lo |-> -1]}
MCMtuValues == {-32768, -1, 0, 576, 1400, 32767}
MCPeerAddrs == [ip : {<<127, 0, 0, 1>>, <<255, 255, 255, 255>>}, port : {0, 19132, 65535}]
=============================================================================
