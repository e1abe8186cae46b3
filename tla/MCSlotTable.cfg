CONSTANTS
    c1 = c1
    c2 = c2
    c3 = c3
    NoCtx = NoCtx
    Ctxs <- MCCtxs
    NSlots = 2
    GenMask = 3
    MaxAcquired = 5
SPECIFICATION Spec
SYMMETRY Symmetry
INVARIANTS
    FreeListExact
    ReplyToAsker
