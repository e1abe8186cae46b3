SPECIFICATION FairSpec
CONSTANTS
    r1 = r1
    r2 = r2
    r3 = r3
    w1 = w1
    Records = {r1, r2}
    Kinds <- TwoKinds
    Terms <- TermsDef
    Located <- LocatedDef
    Stored <- StoredDef
    Workers = {w1}
    Pools = 2
    Enabled <- SecondOff
    Queue = 1
    Size <- SizeDef
    Timed <- TimedDef
    MaxItems = 1
    MaxPending = 1
CHECK_DEADLOCK FALSE
INVARIANTS
    EmittedOnce
    StoreFreedLast
PROPERTIES
    EveryRecordSettles
