SPECIFICATION Spec
CONSTANTS
    Sets <- MCSets
    Pages <- MCPages
    Lower <- MCLower
    ForbidSet <- MCForbidSet
    ForbidUnset <- MCForbidUnset
    ArgsCap = 3
    Confs <- MCConfs
    Arrivals <- MCArrivals
    Edits <- MCEdits
    MaxFrames = 2
INVARIANTS RulesExact  EditsExact
CHECK_DEADLOCK FALSE
