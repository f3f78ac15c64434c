SPECIFICATION Spec
CONSTANTS
    NumSeeds = 2
    SeedImpact <- MCImpact
    Titles <- MCTitles
    Title <- MCTitle
    IntentIssues <- MCFirst
    GatedIssues = {}
    SeedHasCompetitor = FALSE
    HasPriority = FALSE
    HasFallback = TRUE
    Cells = {}
    HighCells = {}
    Audits <- MCSteady
    Challenges <- MCNoIssue
    Drivers = {"run_loop"}
    AssumeBriefs = {TRUE}
    PinnedAtStart = {FALSE}
    Steers <- MCNoIssue
    MaxPulls = 0
    MaxIterations = 2
    CheckpointedLimit = 200
    TopK = 1
    Window = 2
INVARIANT BundleFoldedOnce
