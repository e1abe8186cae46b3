SPECIFICATION FairSpec
CONSTANTS
    Bytes = 4
    Routes <- MCRoutes
INVARIANTS GateHolds DeliveredWhole Recorded
PROPERTIES RequestEnds
CHECK_DEADLOCK FALSE
