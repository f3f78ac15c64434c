SPECIFICATION Spec
CHECK_DEADLOCK FALSE
CONSTANTS
    Issues = {"i1"}
    Slots = {}
    Sayings = {"s1"}
    Files = {"a.md", "c.docx"}
    Kind <- MCKind
    Position <- MCPosition
    MaxClaims = 0
    MaxDrops = 1
    MaxFaults = 0
    Texts <- MCTexts
    Ratio <- MCRatio
    MergeThreshold = 85
    HighImpactConf = 4
    EvidenceRefs = {"e1", "e2"}
    Raw <- MCRaw
    MaxEntries = 0
    HighImpact = {}
    MaxRounds = 2
INVARIANT
    ProcessedReachesEvidence
