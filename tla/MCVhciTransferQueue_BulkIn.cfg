CONSTANTS
    u1 = u1
    u2 = u2
    Urbs <- MCUrbs
    Kind = "in"
    Lens = {0, 2}
    ReqSizes = {1}
    ClientOps = {"pause", "pausefail", "resumefail"}
    TrWindow = 1
    MaxPauses = 1
    NoUrb = NoUrb
SPECIFICATION Spec
PROPERTY EveryUrbGivenBackOnceActive
