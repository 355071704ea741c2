SPECIFICATION Spec
CONSTANTS
    Reads = {"read_file"}
    Window = 3
    MaxRejections = 2
    RepeatWindow = 6
    RepeatMin = 3
    MaxMessages = 4096
    MaxWord = 1000
    DefaultOutput = 512
    Threads = {t1, t2}
    Sessions = {s1}
    Baseline = 1
    Shadow = 3
    JudgeOn = TRUE
    BreakerFailures = 2
    BreakerMs = 1
    SessionCap = 3
    NearCap = 2
    Rpm = 3
    Minute = 2
    SampleEvery = 2
    ShadowCap = 1
    ShadowInflight = 1
    Loads <- AllLoads
    MaxCost = 2
    MaxRetries = 1
SYMMETRY Same
CHECK_DEADLOCK FALSE
INVARIANTS ClassIsContract ChoiceIsContract ShadowWithinCap LabelledStaysHome
PROPERTIES OverrunOnlyByFailover
