SPECIFICATION AnsweredSpec
CONSTANTS
    NumSeeds = 1
    SeedImpact <- MCImpact
    Titles <- MCTitles
    Title <- MCTitle
    IntentIssues <- MCFirst
    GatedIssues = {}
    SeedHasCompetitor = FALSE
    HasPriority = FALSE
    HasFallback = TRUE
    Cells = {}
    HighCells = {}
    Audits <- MCSteady
    Challenges <- MCNoIssue
    Drivers = {"cos_run"}
    AssumeBriefs = {FALSE}
    PinnedAtStart = {FALSE}
    Steers <- MCNoIssue
    MaxPulls = 0
    MaxIterations = 1
    CheckpointedLimit = 200
    TopK = 1
    Window = 2
PROPERTY ClarifyConverges
