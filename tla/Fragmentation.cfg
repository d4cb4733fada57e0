CONSTANTS
    Mtu <- MCMtu
    PkgLens <- MCPkgLens
    MaxSends <- MCMaxSends
    PeerPkgs <- MCPeerPkgs
    PartCountOf <- MCPartCountOf
    SplitIdOf <- MCSplitIdOf
    PeerRelOf <- MCPeerRelOf
    PeerBudget <- MCPeerBudget
    None = None
SPECIFICATION Spec
INVARIANT TypeOK ReassembledIntact
PROPERTY WrittenDecodes PackageDelivered
CHECK_DEADLOCK FALSE
