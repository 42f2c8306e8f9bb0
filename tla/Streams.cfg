SPECIFICATION StreamsSpec
CONSTANTS
    DefaultWindow = 3
    MaxWindow = 20
    Frame = 2
    ClientStreams = 2
    ServerStreams = 2
    ServerWindow = 3
    CfgOut = 3
    CfgDebt = 1
    GrowStream = 6
    GrowConn = 6
    MaxId = 3
    Plans <- EveryPlan
    QuicWindow = 2
    ConnWindow = 3
    StreamWindowMax = 3
    ConnWindowMax = 4
    StreamBuffer = 2
    ConnBuffer = 3
    Streams = 2
    StreamsNow = 1
    Path = 2
    MaxNet = 2
    TableCap = 132
    TableMax = 164
    MayWait = 1
    Sending = {1, 2, 3}
CHECK_DEADLOCK FALSE
INVARIANTS NoPeerFault RefusalsAreRight WindowsAgree NothingStalls
           Intact NothingForgotten AccountsAgree NoStall TablesAgree
