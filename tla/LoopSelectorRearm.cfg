SPECIFICATION Spec
CONSTANTS
    Socks = {s1}
    Accs = {}
    Udps = {}
    Limit = 1
    DonePasses = 2
    WatchFails = FALSE
    Rearm = TRUE
    Calls = {"attach", "recv"}
CHECK_DEADLOCK FALSE
INVARIANT AnsweredExactlyOnce
