CONSTANTS
    Keys = {k1, k2}
    NoKey = NoKey
    Capacity = 2
    TTL = 2
    MaxTime = 5
    MaxSerial = 3
SPECIFICATION Spec
SYMMETRY Symmetry
CONSTRAINT HistoryBound
INVARIANTS
    ExactIsUnique
    KnownCountCovers
PROPERTIES
    DoubtNeverHeals
