CONSTANTS
    Subs = {0}
    NsPerSec = 10
    BufferSize = 4
    Rate = 2
    Latencies = {0, 1}
    MaxTime = 12
    DescFlags = {}
    DescBits = {16}
    None = None
SPECIFICATION Spec
INVARIANT PointerMatchesReference
CHECK_DEADLOCK FALSE
