SPECIFICATION Spec
CONSTANTS
    w1 = w1
    w2 = w2
    Workers = {w1, w2}
    Tag <- SameTag
    FirstTag = 0
    MinSamples = 2
    Threshold = 5000
    Window = 2
    Probe = 2
    Lag = 1
    MaxTime = 6
    MaxFlight = 1
    MaxAttempts = 3
SYMMETRY Symmetric
CHECK_DEADLOCK FALSE
PROPERTIES
    ProbesSpaced
    RefusalsEnd
