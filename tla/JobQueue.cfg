SPECIFICATION Spec
CONSTANTS
    Workers = {w1}
    Clients = {c1, c2}
    Owner = owner
    Jobs = {j1, j2, j3}
    Groups = {g1}
    NoGroup = none
    NoJob = nojob
    Capacity = 2
    MaxCapacity = 2
    ActiveMask = 15
    StartPos = 6
    Calls <- Alike
    Closer = c1
SYMMETRY Symmetry
INVARIANTS NoDataRace SchedulerInv RunsOnce NoUseAfterFree GroupZeroMeansDone
