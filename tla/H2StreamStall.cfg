SPECIFICATION Spec
CONSTANTS
    DefaultWindow = 3
    MaxWindow = 20
    Frame = 2
    ClientStreams = 2
    ServerStreams = 2
    ServerWindow = 3
    CfgOut = 3
    CfgDebt = 1
    GrowStream = 0
    GrowConn = 0
    MaxId = 3
    Plans <- LoweredOnce
CHECK_DEADLOCK FALSE
INVARIANT StreamNeverStalls
