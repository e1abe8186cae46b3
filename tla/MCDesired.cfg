SPECIFICATION FairSpec
CONSTANTS
    MaxGen = 2
    MaxCrash = 1
    MaxDelay = 2
    CrashAt <- BetweenAttempts
    Faults <- EveryFault
    Prompt = TRUE
CHECK_DEADLOCK FALSE

    
    
PROPERTIES
    LatestApplied
