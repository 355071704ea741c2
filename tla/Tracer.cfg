SPECIFICATION FairSpec
CONSTANTS
    None = None
    Malformed = {"bad name"}
    DefaultBody = 2
    DefaultInflight = 1
    BodyLimit = 4
    InflightLimit = 2
    Conns = {c1, c2}
    MaxConnections = 2
    Documents <- MCDocuments
    Environments <- MCEnvironments
    Arguments <- MCArguments
    Requests <- MCRequests
    Answers <- MCAnswers
    Sizes <- MCSizes
    MaxChunks = 2
INVARIANTS CheckedStarts AdmittedWithinLimit WholeAnswerRelayed
PROPERTIES GoneClientFreesSlot
CHECK_DEADLOCK FALSE
