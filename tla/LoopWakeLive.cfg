CONSTANTS
    Threads = {t1}
    Main = main
    Cells = {c1}
    Null = null
    Afters = {a1}
    Backends = {TRUE, FALSE}
    PostFails = TRUE
    WaitFails = TRUE
    DonePasses = 2
    PipeSize = 1
    MaxPosts = 1
    MaxQueued = 1
SPECIFICATION FairSpec
PROPERTIES PostedIsCalled RoundsGoOn
CHECK_DEADLOCK FALSE
