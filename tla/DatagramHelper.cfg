CONSTANTS
    MaxSeq <- MCMaxSeq
    TickMs <- MCTickMs
SPECIFICATION Spec
INVARIANT TypeOK
PROPERTY TrackerImplementsPending
PROPERTY EveryDatagramResolved
