SPECIFICATION Spec
CONSTANTS
    MaxCalls = 2
    MaxHistory = 3
    MaxMessages = 6
    TextLimit = 2
    ToolLimit = 190
    ThinkingLimit = 2
    ThinkingBytes = 2
    Escaped = {"w"}
    Turns <- SomeTurns
    Events <- Sent
    MaxBody = 4
    MaxEvents = 7
    Nexts <- Continuations
CHECK_DEADLOCK FALSE
INVARIANTS MessageIsWhole DocumentedIsHeard ContinuesExactly
CONSTRAINT Bounded
