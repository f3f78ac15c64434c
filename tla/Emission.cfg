SPECIFICATION Spec
CONSTRAINT FewTroubles
VIEW View
CHECK_DEADLOCK FALSE
CONSTANTS
    Issues = {"i1"}
    Slots = {"0"}
    Sayings = {"s1"}
    Files = {"b.rar", "c.docx"}
    Kind <- MCKind
    Position <- MCPosition
    MaxClaims = 1
    MaxDrops = 1
    MaxFaults = 1
    Texts <- MCTexts
    Ratio <- MCRatio
    MergeThreshold = 85
    HighImpactConf = 4
    EvidenceRefs = {"e1"}
    Raw <- MCRaw
    MaxEntries = 1
    HighImpact = {"i1"}
    MaxRounds = 2
INVARIANTS
    TypeOK
    DistinctLive
    ResolvedBacked
    NotesStayWeb
    IngestedOnce
    OwnSourcesDecide
    EmittedIsHonest
    SupplementAskedOnce
PROPERTIES
    NothingForgotten
