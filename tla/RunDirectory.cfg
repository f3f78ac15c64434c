SPECIFICATION LiveSpec
CHECK_DEADLOCK FALSE
VIEW View
CONSTANTS
    Questions = {q1}
    BriefQuestion = brief
    Steers = {s1}
    MaxRounds = 2
    MaxCrashes = 1
    StabilityWindow = 1
    HardCap = 2
    MaxTurns = 2
    MaxVersions = 3
    MaxContents = 3
INVARIANTS
    TypeOK
    AnswersDurable
    SnapshotAtMostOneAhead
    AtRestMirrored
    OnlyLatestInForce
    MirrorsLatest
PROPERTIES
    RunFinishes
