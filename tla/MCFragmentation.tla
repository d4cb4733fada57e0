--------------------------- MODULE MCFragmentation ---------------------------
EXTENDS Fragmentation

\* An MTU of 80 leaves 20 bytes of data per datagram.
MCMtu == 80
\* A package that fits with its header, and one that must be split.
MCPkgLens == {4, 30}
MCMaxSends == 1
MCPeerPkgs == {"a", "b"}
MCPartCountOf == [p \in MCPeerPkgs |-> 2]
MCSplitIdOf == [p \in MCPeerPkgs |-> IF p = "a" THEN 7 ELSE 8]
\* One package sent Reliable, the other ReliableOrdered.
MCPeerRelOf == [p \in MCPeerPkgs |-> IF p = "a" THEN 2 ELSE 3]
\* Both packages whole, one part again and one malformed part.
MCPeerBudget == 6
=============================================================================
