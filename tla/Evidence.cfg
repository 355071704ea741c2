SPECIFICATION Spec
CONSTANTS
    Slots = {s1}
    Keys = {k1, k2, k3}
    NoKey = NoKey
    Snapshots = 1
    Workers = 1
    MaxGenerations = 2
    MaxRevision = 2
    MaxRows = 3
    Events <- Arriving
SYMMETRY Symmetry
INVARIANTS ToolResultOnce RegistryIsOwned
PROPERTIES NewerWordRevokes AdviceIsAboutLastTurn
CONSTRAINT Bounded
