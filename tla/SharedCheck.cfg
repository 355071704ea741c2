SPECIFICATION Spec
CONSTANTS
    Operators = {o1, o2}
    None = none
    Auto = "auto"
    Catalog <- Gateways
    Shell <- NoShell
    Documents <- Starting
    Starter <- Fresh
    Edits <- Entries
    MaxEdits = 2
    Seconds = 2
PROPERTIES InvalidNeverWritten
CHECK_DEADLOCK FALSE
