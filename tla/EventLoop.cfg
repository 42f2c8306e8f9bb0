SPECIFICATION PartsSpec
CONSTANTS
    Timers = {t1, t2}
    Slots = 2
    Tick = 2
    Look = 1
    Delays = {0, 1, 3, 5}
    LastSet = 3
    LastNow = 9
    Socks = {s1}
    Accs = {}
    Udps = {u1}
    Limit = 1
    DonePasses = 2
    WatchFails = TRUE
    Rearm = FALSE
    Calls = {"attach", "connect", "recv"}
    r1 = r1
    r2 = r2
    r3 = r3
    Conns = {k1, k2, k3, k4}
    MaxKept = 1
    MaxWaiting = 2
    RetryUnsent = 1
    MaxMessage = 5
    MaxBuffered = 2
    ZipMin = 2
    Piece = 1
    WireRoom = 3
CHECK_DEADLOCK FALSE
INVARIANTS FiresOnTime SleepIsRight OneAnswerEach NoWaiterStranded
           MessagesArrive NothingLeftBehind
PROPERTIES DueFires KeepsPromise CloseEnds
