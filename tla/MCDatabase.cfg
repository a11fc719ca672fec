SPECIFICATION DatabaseSpec
CONSTANTS
    Threads = {t1, t2, t3}
    PoolSize = 1
    Overflow = 1
    Statements = {s1, s2, s3}
    MaxLosses = 3
    Requests = {r1, r2}
    Files = {f1, f2, f3}
    NoFile = NoFile
    LocksToRemove = TRUE
CHECK_DEADLOCK FALSE
INVARIANTS
    IInv
    LimitIsKept
    TypesOK
    AllOrNothing
    FilesAgree
PROPERTIES
    EveryRequestEnds
