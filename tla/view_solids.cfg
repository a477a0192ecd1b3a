SPECIFICATION Spec
CONSTANTS
    WordSize = 65536
    NoBound = NoBound
    Shapes <- Solids
    Requests <- SolidRequests
    Keys <- SolidKeys
    RankBound = 3
    MaxStride = 4
    MaxDrift = 1
    MaxCopied = 1
INVARIANTS
    BroadcastReads
    AxisReduceReads
    MatmulReads
