SPECIFICATION FairSpec
CONSTANTS
    Routes <- AllRoutes
    ScoreMax = 4
    ActionsMax = 2
    MaxDepth = 2
    Lag = 1
INVARIANTS
    PassJustified
    ScoreIsSum
    WavesInOrder
    RewriteChain
    DenyStandsUncontrolled
PROPERTIES
    AnswersStand
    PhaseEnds
