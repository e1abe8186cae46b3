CONSTANTS
    Workers = {w1, w2}
    Keys <- MCKeys
    Order <- MCOrder
    Width = 2
    Contents <- MCContents
    Banned <- MCBanned
    Ttl = 1
    LiveMax = 3
    KilledLoading = FALSE
    MaxEpoch = 2
    MaxUpsets = 1
SPECIFICATION FairSpec
INVARIANT ProbeExact
PROPERTIES  NoHoles Converges
CHECK_DEADLOCK FALSE
