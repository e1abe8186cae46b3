CONSTANTS
    Crc <- MCCrc
    MaxDatasets = 3
    PerEntry = 1
    Reserve = 1
    ZoneSize = 20
    Slots = {1, 2}
    Confs <- MCConfs
    Retired = 1
    Queries <- MCQueries
    Linger = FALSE
    MaxGen = 3
    MaxDeaths = 1
SPECIFICATION Spec
INVARIANTS  HeapSound 
CHECK_DEADLOCK FALSE
