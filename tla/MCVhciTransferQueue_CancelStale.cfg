CONSTANTS
    u1 = u1
    u2 = u2
    Urbs <- MCUrbs
    Kind = "in"
    Lens = {0, 2}
    ReqSizes = {1}
    ClientOps = {"cancel"}
    TrWindow = 1
    MaxPauses = 0
    NoUrb = NoUrb
SPECIFICATION Spec
INVARIANT CompletionsToOwner
