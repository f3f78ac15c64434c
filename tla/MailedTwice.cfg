SPECIFICATION Spec
CONSTANTS
    NumSeeds = 2
    SeedImpact <- MCImpact
    Titles <- MCTitles
    Title <- MCTitle
    IntentIssues <- MCFirst
    GatedIssues = {}
    SeedHasCompetitor = FALSE
    HasPriority = FALSE
    HasFallback = TRUE
    Cells = {}
    HighCells = {}
    Audits <- MCSteady
    Challenges <- MCNoIssue
    Drivers = {"cos_run"}
    AssumeBriefs = {TRUE}
    PinnedAtStart = {FALSE}
    Steers <- MCNoIssue
    MaxPulls = 0
    MaxIterations = 1
    CheckpointedLimit = 200
    TopK = 1
    Window = 2
INVARIANT EmailAtMostOnce
