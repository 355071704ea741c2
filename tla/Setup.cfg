SPECIFICATION Spec
CONSTANTS
    Operators = {o1}
    None = none
    Auto = "auto"
    Catalog <- Gateways
    Shell <- NoShell
    Documents <- Starting
    Starter <- Fresh
    Edits <- Entries
    MaxEdits = 2
    Seconds = 2
INVARIANTS NamesResolveOnce ConversionKeepsMeaning
PROPERTIES PreviousIsKept
CHECK_DEADLOCK FALSE
