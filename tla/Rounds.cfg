SPECIFICATION Spec
CONSTANTS
    NumSeeds = 4
    SeedImpact <- MCImpact
    Titles <- MCTitles
    Title <- MCTitle
    IntentIssues <- MCFirst
    GatedIssues = {}
    SeedHasCompetitor = FALSE
    HasPriority = FALSE
    HasFallback = TRUE
    Cells = {"c1"}
    HighCells = {"c1"}
    Audits <- MCClosing
    Challenges <- MCNoIssue
    Drivers = {"run_loop"}
    AssumeBriefs = {TRUE}
    PinnedAtStart = {FALSE}
    Steers <- MCSecond
    MaxPulls = 0
    MaxIterations = 5
    CheckpointedLimit = 200
    TopK = 2
    Window = 4
INVARIANT NeverCutOff
INVARIANT IssueResearchedOnce
INVARIANT AnsweredByEvidence
INVARIANT WindowNotClogged
PROPERTY SoftStopEarned
