SPECIFICATION Spec
CONSTANTS
    Socks = {s1}
    Accs = {a1}
    Udps = {}
    Limit = 2
    DonePasses = 2
    WatchFails = FALSE
    Rearm = FALSE
    Calls = {"attach", "connect", "recv", "send", "commit", "wait"}
CHECK_DEADLOCK FALSE
INVARIANTS SelectorInv AnsweredExactlyOnce NothingPointsAtFreed NothingStranded
