SPECIFICATION Spec
CONSTANTS
    Slots = {s1, s2}
    RegisteredCap = 1
    Idents = {i1, i2}
    NoIdent = noident
    LabelCap = 1
    Candidates = {base, rec, priv}
    PrivateModel = priv
    Public = {base, rec}
    Baseline = base
    Recovery = {rec, priv}
    Declaring = {}
    Housekeeping = rec
    Capped = {rec}
    MaxInflight = 1
    Requests = {r1, r2}
    MaxRetries = 1
    MaxGenerations = 2
    Queries <- AllQueries
    Outcomes <- AllOutcomes
    None = none
SYMMETRY Symmetry
INVARIANTS LabelsBind SensitiveStaysPrivate OneExchange LoadIsExact
PROPERTIES NeverPublicOnceRestricted AuthoritySurvives PinnedMovesOnlyOffFailure ToolsNeverStranded
CONSTRAINT Bounded
