CONSTANTS
    MaxSeq <- MCMaxSeq
    TickMs <- MCTickMs
SPECIFICATION Spec
PROPERTY NoResendAfterAck
