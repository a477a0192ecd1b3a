SPECIFICATION CSpec
CONSTANTS
    WordSize = 65536
    NoBound = NoBound
    Shapes <- Planes
    Requests <- PlaneRequests
    Keys <- PlaneKeys
    RankBound = 2
    MaxStride = 3
    MaxDrift = 1
    MaxCopied = 6
INVARIANTS
    LayoutOK
    InBounds
    NoSelfAlias
    ContiguousMeansFlat
PROPERTIES
    NumpySpec
