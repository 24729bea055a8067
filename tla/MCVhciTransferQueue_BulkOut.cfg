CONSTANTS
    u1 = u1
    u2 = u2
    Urbs <- MCUrbs
    Kind = "out"
    Lens = {0, 1, 2}
    ReqSizes = {1, 2}
    ClientOps = {}
    TrWindow = 2
    MaxPauses = 0
    NoUrb = NoUrb
SPECIFICATION Spec
INVARIANTS TypeOK TransferRequestsInOrder
PROPERTY ImplementsUsbEndpointSafety
CHECK_DEADLOCK FALSE
