SPECIFICATION FairClockSpec
CONSTANTS
    Parts = {"jobs"}
    Workers = {w1, w2}
    Jobs = {j1, j2}
    Broken = {}
    Gone = {j2}
    MaxAttempts = 2
    Batch = 1
    MaxMishaps = 2
    Ids = {n1, n2}
    t1 = t1
    t2 = t2
    t3 = t3
    d1 = d1
    d2 = d2
    None = None
    Dues <- AnyDay
    RunEvery = 1
    PurgeBatch = 2
    MaxBatches = 2
    MaxNow = 4
    MaxOld = 4
    Days = {d1, d2}
    Teachers = {t1, t2, t3}
    Weeks <- TwoWeeks
    Leaves <- TwoLeaves
    MaxOpen = 2
CHECK_DEADLOCK FALSE
INVARIANTS
    GivesUpLate
PROPERTIES
    EveryJobEnds
