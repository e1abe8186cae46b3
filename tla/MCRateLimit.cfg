SPECIFICATION Spec
CONSTANTS
    a = a
    b = b
    c = c
    Keys = {a, b, c}
    Waves = {c}
    Rate <- Rates
    Burst <- Bursts
    Charge <- Charges
    RateMax = 2
    Evict = 1
    Cost = 2
    Second = 2
    SkewMax = 5
    Lag = 1
    MaxTime = 3
    MaxCount = 3
CHECK_DEADLOCK FALSE
INVARIANTS
    RateBound
    DebtBound
    RoomExact
