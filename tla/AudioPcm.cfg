CONSTANTS
    Subs = {0}
    NsPerSec = 10
    BufferSize = 4
    Rate = 2
    Latencies = {0}
    MaxTime = 2
    DescFlags = {"FLOAT", "BIG_ENDIAN", "SIGNED", "PACKED", "ALIGNED_HIGH", "NON_INTERLEAVED"}
    DescBits = {8, 16, 20, 24, 32, 64}
    None = None
SPECIFICATION Spec
INVARIANT FormatMatchesDescription
