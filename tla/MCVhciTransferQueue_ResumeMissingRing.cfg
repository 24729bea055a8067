CONSTANTS
    u1 = u1
    u2 = u2
    Urbs <- MCUrbs
    Kind = "out"
    Lens = {1}
    ReqSizes = {1}
    ClientOps = {"pause"}
    TrWindow = 1
    MaxPauses = 1
    NoUrb = NoUrb
SPECIFICATION Spec
INVARIANT NoMissingRing
CHECK_DEADLOCK FALSE
