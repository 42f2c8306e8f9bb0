SPECIFICATION PartsSpec
CONSTANTS
    q1 = q1
    q2 = q2
    q3 = q3
    n1 = n1
    n2 = n2
    Requests = {q1, q2, q3}
    Clients = {n1, n2}
    MaxOut = 1
    Room = 2
    Full = 2
    Pending = 2
    MaxPn = 8
    MaxWire = 2
    KeyPackets = 1
    MaxSent = 6
    MaxNet = 2
    EarlyMax = 3
    EarlySkip = 12
    Overhead = 4
    MaxUnsent = 45
    MaxSeq = 3
    Threads = {t1}
    Main = main
    Cells = {c1, c2}
    Null = null
    Afters = {after1}
    Backends = {TRUE, FALSE}
    PostFails = FALSE
    WaitFails = FALSE
    DonePasses = 2
    PipeSize = 1
    MaxQueued = 0
    MaxPosts = 2
CHECK_DEADLOCK FALSE
INVARIANTS AnsweredInOrder NobodyStranded NeverSleepsUnconfirmed EndsAgree KeysMeet
           NoHonestAlert SecretsAgree DataIsWhole
           PostsAreServed
