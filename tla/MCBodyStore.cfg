SPECIFICATION Spec
CONSTANTS
    Conns = {1}
    OutMax = 2
    Hello = TRUE
    Requests = {1, 2}
    MaxHolds = 2
    MaxFrames = 2
    MaxDrops = 1
    Routes <- MCRoutes
INVARIANTS HoldsExact  
CHECK_DEADLOCK FALSE
