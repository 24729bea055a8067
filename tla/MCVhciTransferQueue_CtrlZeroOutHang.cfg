CONSTANTS
    u1 = u1
    u2 = u2
    Urbs <- MCUrbs
    Kind = "control"
    Lens = {0}
    ReqSizes = {1}
    ClientOps = {}
    TrWindow = 1
    MaxPauses = 0
    NoUrb = NoUrb
SPECIFICATION Spec
PROPERTY EveryUrbGivenBack
CHECK_DEADLOCK FALSE
