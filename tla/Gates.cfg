SPECIFICATION LiveSpec
CONSTANTS
    NumSeeds = 1
    SeedImpact <- MCLowImpact
    Titles <- MCTitles
    Title <- MCTitle
    IntentIssues <- MCFirst
    GatedIssues = {1}
    SeedHasCompetitor = FALSE
    HasPriority = FALSE
    HasFallback = TRUE
    Cells = {"c1", "c2"}
    HighCells = {"c1"}
    Audits <- MCGates
    Challenges <- MCNoIssue
    Drivers = {"run_loop", "run_auto", "cos_run"}
    AssumeBriefs = {TRUE, FALSE}
    PinnedAtStart = {TRUE, FALSE}
    Steers <- MCSteerFirst
    MaxPulls = 1
    MaxIterations = 2
    CheckpointedLimit = 30
    TopK = 1
    Window = 2
INVARIANT TypeOK
INVARIANT IterationCeiling
INVARIANT UnseenCellsBounded
INVARIANT CapEndsResearch
PROPERTY KeepsLifecycle
PROPERTY RunSettles
