SPECIFICATION Spec
CHECK_DEADLOCK FALSE
CONSTANTS
    Questions = {q1}
    BriefQuestion = brief
    Steers = {s1}
    MaxRounds = 2
    MaxCrashes = 1
    StabilityWindow = 2
    HardCap = 2
    MaxTurns = 0
    MaxVersions = 0
    MaxContents = 0
PROPERTIES
    SteerReachesPlan
