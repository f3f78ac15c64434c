SPECIFICATION Spec
CONSTANTS
    NumSeeds = 1
    SeedImpact <- MCImpact
    Titles <- MCTitles
    Title <- MCTitle
    IntentIssues <- MCFirst
    GatedIssues = {}
    SeedHasCompetitor = FALSE
    HasPriority = FALSE
    HasFallback = TRUE
    Cells = {}
    HighCells = {}
    Audits <- MCSilent
    Challenges <- MCNoIssue
    Drivers = {"run_auto"}
    AssumeBriefs = {TRUE}
    PinnedAtStart = {FALSE}
    Steers <- MCNoIssue
    MaxPulls = 0
    MaxIterations = 20
    CheckpointedLimit = 200
    TopK = 1
    Window = 2
INVARIANT CeilingAlwaysWrapsUp
