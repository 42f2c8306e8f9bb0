SPECIFICATION Spec
CONSTANTS
    StreamWindow = 2
    ConnWindow = 3
    StreamWindowMax = 3
    ConnWindowMax = 4
    StreamBuffer = 2
    ConnBuffer = 3
    Streams = 2
    StreamsNow = 1
    Path = 2
    MaxNet = 2
    Plans <- OneStop
CHECK_DEADLOCK FALSE
INVARIANT StopGivesBack
