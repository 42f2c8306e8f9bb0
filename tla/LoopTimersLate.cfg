SPECIFICATION TimersSpec
CONSTANTS
    Timers = {t1, t2}
    Slots = 2
    Tick = 2
    Look = 1
    Delays = {0, 1, 3, 5}
    LastSet = 3
    LastNow = 9
CHECK_DEADLOCK FALSE
INVARIANT NeverLate
