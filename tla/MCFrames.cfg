SPECIFICATION FairSpec
CONSTANTS
    Room = 2
    BufMin = 4
    Scripts <- MCScripts
INVARIANTS OnlyCleared 
 
CHECK_DEADLOCK FALSE
