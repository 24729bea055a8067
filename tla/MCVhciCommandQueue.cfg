CONSTANTS
    c1 = c1
    c2 = c2
    Callers <- MCCallers
    Ops <- MCOps
    MaxExec = 2
    RingSlots = 2
    EvSlots = 2
    EvPending = 2
    None = None
    Uninit = Uninit
SPECIFICATION Spec
INVARIANT TypeOK
INVARIANT SlotOwnedByWaiter
INVARIANT EventDepthConstant
INVARIANT QueueResourcesBalanced
PROPERTY ExecuteReturns
