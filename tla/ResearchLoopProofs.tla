------------------------- MODULE ResearchLoopProofs -------------------------
(***************************************************************************)
(* Theorems about ResearchLoop, for every value of its constants.          *)
(***************************************************************************)
EXTENDS ResearchLoop, FiniteSetTheorems, TLAPS

-----------------------------------------------------------------------------
(* Type correctness.                                                        *)

LEMMA Constants ==
    /\ NumSeeds + 1 \in Nat
    /\ Issue = 1..(NumSeeds + 1)
    /\ Competitor \in Issue
BY LoopAssumption DEF Issue, Competitor

LEMMA GridCardinality == grid \in SUBSET Cells => Cardinality(grid) \in Nat
BY LoopAssumption, FS_CardinalityType, FS_Subset

\* What an action leaves unchanged keeps its type.
LEMMA ChannelsKept == ChannelsType /\ UNCHANGED channels => ChannelsType'
BY DEF ChannelsType, channels

LEMMA BriefKept == BriefType /\ UNCHANGED brief => BriefType'
BY DEF BriefType, brief

LEMMA IssuesKept == IssuesType /\ UNCHANGED issues => IssuesType'
BY DEF IssuesType, issues

LEMMA AuditedKept == AuditedType /\ UNCHANGED audited => AuditedType'
BY DEF AuditedType, audited

LEMMA ScoredKept == ScoredType /\ UNCHANGED scored => ScoredType'
BY DEF ScoredType, scored

LEMMA HumanKept == HumanType /\ UNCHANGED human => HumanType'
BY DEF HumanType, human

LEMMA OutputKept == OutputType /\ UNCHANGED output => OutputType'
BY DEF OutputType, output

LEMMA HistoryKept == HistoryType /\ UNCHANGED history => HistoryType'
BY DEF HistoryType, history

LEMMA ControlKept ==
    ASSUME ControlType, UNCHANGED process, pc' \in Nodes \cup {"end", "aborted"},
           paused' \in BOOLEAN, steps' \in Nat, cap' \in {"off", "armed", "hit"}
    PROVE  ControlType'
BY DEF ControlType, process

\* A super-step, an interrupt and a resumption keep the types of the process.
LEMMA GotoType ==
    ASSUME ControlType, UNCHANGED <<cap, process>>,
           NEW n \in Nodes \cup {"end", "aborted"}, Goto(n)
    PROVE  ControlType'
<1>1. steps' \in Nat
  BY DEF Goto, ControlType
<1>2. paused' \in BOOLEAN /\ pc' \in Nodes \cup {"end", "aborted"}
  BY DEF Goto
<1>3. cap' \in {"off", "armed", "hit"} /\ UNCHANGED process
  BY DEF ControlType
<1> QED
  BY <1>1, <1>2, <1>3, ControlKept

LEMMA InterruptType ==
    ControlType /\ UNCHANGED process /\ Interrupt => ControlType'
BY DEF ControlType, process, Interrupt

LEMMA ResumeType ==
    ASSUME ControlType, UNCHANGED process,
           NEW n \in Nodes \cup {"end", "aborted"}, Resume(n)
    PROVE  ControlType'
BY DEF ControlType, process, Resume

LEMMA ExpandedType == IssuesType => Expanded \in [Issue -> Status]
BY DEF IssuesType, Expanded, Seeded, Status

LEMMA ConsumeSteerType ==
    IssuesType /\ ConsumeSteer =>
        impact' \in [Issue -> 0..5] /\ steer' \in SUBSET Issue
BY DEF IssuesType, ConsumeSteer

LEMMA TypeInit == Init => TypeOK
<1> SUFFICES ASSUME Init PROVE TypeOK
  OBVIOUS
<1>1. ControlType
  BY LoopAssumption DEF Init, ControlType, Nodes, Drv
<1>2. ChannelsType
  BY LoopAssumption DEF Init, NewRun, PreparedRun, ResumedState, ChannelsType,
     Prereqs, Decisions, NotApproved
<1>3. BriefType
  BY LoopAssumption DEF Init, BriefType
<1>4. IssuesType
  <2>1. status \in [Issue -> Status]
    BY DEF Init, NewRun, PreparedRun, ResumedState, Seeded, Status
  <2>2. impact \in [Issue -> 0..5]
    BY LoopAssumption, Constants DEF Init, Issue, Competitor
  <2>3. steer \in SUBSET Issue
    BY LoopAssumption DEF Init
  <2>4. researched \in SUBSET Titles /\ evidence \in [Issue -> Nat]
    BY DEF Init
  <2> QED
    BY <2>1, <2>2, <2>3, <2>4 DEF IssuesType
<1>5. grid \in SUBSET Cells
  BY DEF Init, NewRun, PreparedRun, ResumedState
<1>6. AuditedType
  <2>1. NoAudit \in Audit
    BY DEF NoAudit, Audit, Verdicts, Actions
  <2> QED
    BY <2>1, LoopAssumption DEF Init, NewRun, PreparedRun, ResumedState,
       AuditedType
<1>7. ScoredType /\ HumanType
  <2>1. MaxPulls \in Nat
    BY LoopAssumption
  <2>2. pulls \in 0..MaxPulls /\ tasks = 0
    BY DEF Init
  <2>3. targetsMet = FALSE /\ stalls = 0 /\ iter = 0
    BY DEF Init
  <2>4. HumanType
    BY <2>1, <2>2 DEF HumanType
  <2>5. targetsMet \in BOOLEAN
    BY <2>3
  <2>6. stalls \in 0..PlateauWindow /\ iter \in Nat
    BY <2>3 DEF PlateauWindow
  <2> QED
    BY <2>4, <2>5, <2>6 DEF ScoredType
<1>8. OutputType /\ HistoryType
  BY DEF Init, OutputType, HistoryType
<1> QED
  BY <1>1, <1>2, <1>3, <1>4, <1>5, <1>6, <1>7, <1>8 DEF TypeOK

\* The groups an action changes nothing of.
LEMMA Untouched ==
    /\ ChannelsType /\ UNCHANGED channels => ChannelsType'
    /\ BriefType /\ UNCHANGED brief => BriefType'
    /\ IssuesType /\ UNCHANGED issues => IssuesType'
    /\ grid \in SUBSET Cells /\ UNCHANGED grid => (grid \in SUBSET Cells)'
    /\ AuditedType /\ UNCHANGED audited => AuditedType'
    /\ ScoredType /\ UNCHANGED scored => ScoredType'
    /\ HumanType /\ UNCHANGED human => HumanType'
    /\ OutputType /\ UNCHANGED output => OutputType'
    /\ HistoryType /\ UNCHANGED history => HistoryType'
BY ChannelsKept, BriefKept, IssuesKept, AuditedKept, ScoredKept, HumanKept,
   OutputKept, HistoryKept

LEMMA AuditsType == Audits \subseteq Audit /\ Challenges \subseteq SUBSET Issue
BY LoopAssumption

LEMMA CapReadingsType ==
    ControlType => CapReadings \subseteq {"off", "armed", "hit"}
BY DEF ControlType, CapReadings

\* Every prerequisite an action may record is one of the seven.
LEMMA PrereqsType ==
    ASSUME ChannelsType, prereqs' \in SUBSET Prereqs,
           UNCHANGED <<decision, budget, buffer, sig, approvedN>>
    PROVE  ChannelsType'
BY DEF ChannelsType

LEMMA ApprovedType ==
    ASSUME ChannelsType, approvedN' \in Int,
           UNCHANGED <<prereqs, decision, budget, buffer, sig>>
    PROVE  ChannelsType'
BY DEF ChannelsType

LEMMA DecideType == Decide \in Decisions
BY DEF Decide, Gated, Decisions

LEMMA RouteType ==
    ASSUME NEW d \in Decisions, NEW hit \in BOOLEAN
    PROVE  Route(d, hit) \in Nodes
BY DEF Route, Nodes

LEMMA AfterPullType ==
    ASSUME NEW hit \in BOOLEAN
    PROVE  AfterPull(hit) \in Nodes
BY DEF AfterPull, Nodes

LEMMA AdvanceType ==
    ASSUME NEW st \in Status, NEW n \in Nat
    PROVE  Advance(st, n) \in Status
BY DEF Advance, Status

LEMMA PushedType == Cardinality(PushTarget) \in Nat
<1>1. IsFiniteSet(Issue)
  BY Constants, FS_Interval DEF Issue
<1>2. PushTarget \subseteq Issue
  BY DEF PushTarget, AddressableIssues
<1> QED
  BY <1>1, <1>2, FS_Subset, FS_CardinalityType

LEMMA BuildMemoType ==
    ASSUME OutputType, BuildMemo
    PROVE  /\ memo' \in {"none", "emitted", "refused"}
           /\ notified' \in BOOLEAN
           /\ emails' \in Nat
<1>1. memo' \in {"none", "emitted", "refused"}
  BY DEF BuildMemo
<1>2. emails' \in Nat
  BY DEF BuildMemo, OutputType
<1>3. notified' \in BOOLEAN
  BY Zenon DEF BuildMemo, OutputType, Notifies
<1> QED
  BY <1>1, <1>2, <1>3

LEMMA TypeStep == TypeOK /\ [Next]_vars => TypeOK'
<1> SUFFICES ASSUME TypeOK, [Next]_vars PROVE TypeOK'
  OBVIOUS
<1>0. /\ ControlType /\ ChannelsType /\ BriefType /\ IssuesType
      /\ grid \in SUBSET Cells
      /\ AuditedType /\ ScoredType /\ HumanType /\ OutputType /\ HistoryType
  BY DEF TypeOK
<1>1. CASE Intake
  <2>1. ControlType'
    BY <1>0, <1>1, GotoType DEF Intake, Nodes
  <2>2. ChannelsType'
    BY <1>0, <1>1 DEF Intake, ChannelsType
  <2> QED
    BY <1>0, <1>1, <2>1, <2>2, Untouched DEF Intake, TypeOK
<1>2. CASE Scope
  <2>1. ControlType'
    BY <1>0, <1>2, GotoType DEF Scope, Nodes
  <2> QED
    BY <1>0, <1>2, <2>1, Untouched DEF Scope, TypeOK
<1>3. CASE ClarifyPass
  <2>1. ControlType'
    BY <1>0, <1>3, GotoType DEF ClarifyPass, Nodes
  <2>2. BriefType'
    BY <1>0, <1>3 DEF ClarifyPass, BriefType
  <2> QED
    BY <1>0, <1>3, <2>1, <2>2, Untouched DEF ClarifyPass, TypeOK
<1>4. CASE ClarifyAsk
  <2>1. ControlType'
    BY <1>0, <1>4, InterruptType DEF ClarifyAsk
  <2> QED
    BY <1>0, <1>4, <2>1, Untouched DEF ClarifyAsk, TypeOK
<1>5. CASE ClarifyAnswered
  <2>1. ControlType'
    BY <1>0, <1>5, ResumeType DEF ClarifyAnswered, Nodes
  <2> QED
    BY <1>0, <1>5, <2>1, Untouched DEF ClarifyAnswered, TypeOK
<1>6. CASE WriteBrief
  <2>1. ControlType'
    BY <1>0, <1>6, GotoType DEF WriteBrief, Nodes
  <2> QED
    BY <1>0, <1>6, <2>1, Untouched DEF WriteBrief, TypeOK
<1>7. CASE OrchestratorPlan
  <2>1. ControlType'
    BY <1>0, <1>7, GotoType DEF OrchestratorPlan, Nodes
  <2>2. IssuesType'
    <3>1. status' \in [Issue -> Status]
      BY <1>0, <1>7, ExpandedType DEF OrchestratorPlan
    <3>2. impact' \in [Issue -> 0..5] /\ steer' \in SUBSET Issue
      BY <1>0, <1>7, ConsumeSteerType DEF OrchestratorPlan
    <3>3. researched' \in SUBSET Titles /\ evidence' \in [Issue -> Nat]
      BY <1>0, <1>7 DEF OrchestratorPlan, IssuesType
    <3> QED
      BY <3>1, <3>2, <3>3 DEF IssuesType
  <2>3. (grid \in SUBSET Cells)'
    BY <1>0, <1>7 DEF OrchestratorPlan
  <2> QED
    BY <1>0, <1>7, <2>1, <2>2, <2>3, Untouched DEF OrchestratorPlan, TypeOK
<1>8. CASE PlanAuditSkip
  <2>1. ControlType'
    BY <1>0, <1>8, GotoType DEF PlanAuditSkip, Nodes
  <2> QED
    BY <1>0, <1>8, <2>1, Untouched DEF PlanAuditSkip, TypeOK
<1>9. CASE PlanAudit
  <2>1. ControlType'
    BY <1>0, <1>9, GotoType DEF PlanAudit, Nodes
  <2>2. ChannelsType'
    BY <1>0, <1>9 DEF PlanAudit, ChannelsType
  <2>3. AuditedType'
    BY <1>0, <1>9, AuditsType DEF PlanAudit, AuditedType
  <2> QED
    BY <1>0, <1>9, <2>1, <2>2, <2>3, Untouched DEF PlanAudit, TypeOK
<1>10. CASE PlanApprovalPass
  <2>1. ControlType'
    BY <1>0, <1>10, GotoType DEF PlanApprovalPass, Nodes
  <2>2. ChannelsType'
    <3>1. approvedN' \in Int
      BY <1>0, <1>10, GridCardinality DEF PlanApprovalPass, ChannelsType
    <3> QED
      BY <1>0, <1>10, <3>1, ApprovedType DEF PlanApprovalPass
  <2> QED
    BY <1>0, <1>10, <2>1, <2>2, Untouched DEF PlanApprovalPass, TypeOK
<1>11. CASE PlanApprovalAsk
  <2>1. ControlType'
    BY <1>0, <1>11, InterruptType DEF PlanApprovalAsk
  <2> QED
    BY <1>0, <1>11, <2>1, Untouched DEF PlanApprovalAsk, TypeOK
<1>12. CASE PlanApprovalAnswered
  <2>1. ControlType'
    BY <1>0, <1>12, ResumeType DEF PlanApprovalAnswered, Nodes
  <2>2. ChannelsType'
    <3>1. approvedN' \in Int
      BY <1>0, <1>12, GridCardinality DEF PlanApprovalAnswered
    <3> QED
      BY <1>0, <1>12, <3>1, ApprovedType DEF PlanApprovalAnswered
  <2>3. HistoryType'
    BY <1>0, <1>12 DEF PlanApprovalAnswered, HistoryType
  <2> QED
    BY <1>0, <1>12, <2>1, <2>2, <2>3, Untouched DEF PlanApprovalAnswered,
       TypeOK
<1>13. CASE IssueExpansion
  <2>1. ControlType'
    BY <1>0, <1>13, GotoType DEF IssueExpansion, Nodes
  <2>2. ChannelsType'
    <3>1. prereqs' \in SUBSET Prereqs
      BY <1>0, <1>13 DEF IssueExpansion, ChannelsType, Prereqs
    <3> QED
      BY <1>0, <1>13, <3>1, PrereqsType DEF IssueExpansion
  <2>3. IssuesType'
    BY <1>0, <1>13, ExpandedType DEF IssueExpansion, IssuesType
  <2> QED
    BY <1>0, <1>13, <2>1, <2>2, <2>3, Untouched DEF IssueExpansion, TypeOK
<1>14. CASE Supervisor
  <2>1. ControlType'
    BY <1>0, <1>14, GotoType DEF Supervisor, Nodes
  <2>2. IssuesType'
    BY <1>0, <1>14, ConsumeSteerType DEF Supervisor, IssuesType
  <2> QED
    BY <1>0, <1>14, <2>1, <2>2, Untouched DEF Supervisor, TypeOK
<1>15. CASE ResearchFanout
  <2>1. ControlType'
    BY <1>0, <1>15, GotoType DEF ResearchFanout, Nodes
  <2>2. ChannelsType'
    <3>1. buffer' \in [Issue -> Nat]
      BY <1>0, <1>15 DEF ResearchFanout, ChannelsType
    <3> QED
      BY <1>0, <1>15, <3>1 DEF ResearchFanout, ChannelsType
  <2>3. IssuesType'
    <3>1. Title \in [Issue -> Titles] /\ Selected \subseteq Issue
      BY LoopAssumption DEF Selected, Candidates, RawIds, AddressableIssues
    <3>2. researched' \in SUBSET Titles
      BY <1>0, <1>15, <3>1 DEF ResearchFanout, IssuesType
    <3> QED
      BY <1>0, <1>15, <3>2 DEF ResearchFanout, IssuesType
  <2>4. HistoryType'
    <3>1. dispatched' \in [Issue -> Nat]
      BY <1>0, <1>15 DEF ResearchFanout, HistoryType
    <3> QED
      BY <1>0, <1>15, <3>1 DEF ResearchFanout, HistoryType
  <2> QED
    BY <1>0, <1>15, <2>1, <2>2, <2>3, <2>4, Untouched DEF ResearchFanout,
       TypeOK
<1>16. CASE Collect
  <2>1. ControlType'
    BY <1>0, <1>16, GotoType DEF Collect, Nodes
  <2>2. ChannelsType'
    <3>1. prereqs' \in SUBSET Prereqs
      BY <1>0, <1>16 DEF Collect, ChannelsType, Prereqs
    <3> QED
      BY <1>0, <1>16, <3>1, PrereqsType DEF Collect
  <2>3. IssuesType'
    <3>1. evidence' \in [Issue -> Nat]
      BY <1>0, <1>16 DEF Collect, IssuesType, ChannelsType
    <3>2. status' \in [Issue -> Status]
      BY <1>0, <1>16, AdvanceType DEF Collect, IssuesType, ChannelsType
    <3> QED
      BY <1>0, <1>16, <3>1, <3>2 DEF Collect, IssuesType
  <2> QED
    BY <1>0, <1>16, <2>1, <2>2, <2>3, Untouched DEF Collect, TypeOK
<1>17. CASE Skeptic
  <2>1. ControlType'
    BY <1>0, <1>17, GotoType DEF Skeptic, Nodes
  <2>2. ChannelsType'
    <3>1. prereqs' \in SUBSET Prereqs
      BY <1>0, <1>17 DEF Skeptic, ChannelsType, Prereqs
    <3> QED
      BY <1>0, <1>17, <3>1, PrereqsType DEF Skeptic
  <2> QED
    BY <1>0, <1>17, <2>1, <2>2, Untouched DEF Skeptic, TypeOK
<1>18. CASE AlbertAudit
  <2>1. ControlType'
    BY <1>0, <1>18, GotoType DEF AlbertAudit, Nodes
  <2>2. ChannelsType'
    <3>1. prereqs' \in SUBSET Prereqs
      BY <1>0, <1>18 DEF AlbertAudit, ChannelsType, Prereqs
    <3> QED
      BY <1>0, <1>18, <3>1, PrereqsType DEF AlbertAudit
  <2>3. AuditedType'
    <3>1. audit' \in Audit /\ challenged' \in SUBSET Issue
      BY <1>0, <1>18, AuditsType DEF AlbertAudit, AuditedType
    <3>2. blocking' \in BOOLEAN
      BY <1>18 DEF AlbertAudit
    <3> QED
      BY <3>1, <3>2 DEF AuditedType
  <2> QED
    BY <1>0, <1>18, <2>1, <2>2, <2>3, Untouched DEF AlbertAudit, TypeOK
<1>19. CASE ArtifactUpdate
  <2>1. ControlType'
    BY <1>0, <1>19, GotoType DEF ArtifactUpdate, Nodes
  <2>2. ChannelsType'
    <3>1. prereqs' \in SUBSET Prereqs
      BY <1>0, <1>19 DEF ArtifactUpdate, ChannelsType, Prereqs
    <3> QED
      BY <1>0, <1>19, <3>1, PrereqsType DEF ArtifactUpdate
  <2> QED
    BY <1>0, <1>19, <2>1, <2>2, Untouched DEF ArtifactUpdate, TypeOK
<1>20. CASE ReadinessScoring
  <2>1. ControlType'
    BY <1>0, <1>20, GotoType DEF ReadinessScoring, Nodes
  <2>2. ScoredType'
    <3>1. targetsMet' \in BOOLEAN
      BY <1>20 DEF ReadinessScoring
    <3>2. stalls' \in 0..PlateauWindow /\ iter' \in Nat
      BY <1>0, <1>20 DEF ReadinessScoring, ScoredType, PlateauWindow
    <3> QED
      BY <3>1, <3>2 DEF ScoredType
  <2> QED
    BY <1>0, <1>20, <2>1, <2>2, Untouched DEF ReadinessScoring, TypeOK
<1>21. CASE AntiPremature
  <2>1. ControlType'
    BY <1>0, <1>21, GotoType DEF AntiPremature, Nodes
  <2>2. ChannelsType'
    <3>1. prereqs' \in SUBSET Prereqs
      BY <1>0, <1>21 DEF AntiPremature, ChannelsType, Prereqs
    <3> QED
      BY <1>0, <1>21, <3>1, PrereqsType DEF AntiPremature
  <2> QED
    BY <1>0, <1>21, <2>1, <2>2, Untouched DEF AntiPremature, TypeOK
<1>22. CASE CosDecision
  <2>1. ControlType'
    <3>1. cap' \in {"off", "armed", "hit"}
      BY <1>0, <1>22, CapReadingsType DEF CosDecision
    <3>2. pc' \in Nodes
      BY <1>22, DecideType, RouteType DEF CosDecision, Goto
    <3>3. steps' \in Nat /\ paused' = FALSE
      BY <1>0, <1>22 DEF CosDecision, Goto, ControlType
    <3> QED
      BY <1>0, <1>22, <3>1, <3>2, <3>3, ControlKept DEF CosDecision
  <2>2. ChannelsType'
    <3>1. decision' \in Decisions
      BY <1>22, DecideType DEF CosDecision
    <3>2. budget' \in [breadth : Int, depth : Int]
      BY <1>0, <1>22 DEF CosDecision, ChannelsType, Halved
    <3> QED
      BY <1>0, <1>22, <3>1, <3>2 DEF CosDecision, ChannelsType
  <2>3. IssuesType'
    <3>1. status' \in [Issue -> Status]
      BY <1>0, <1>22 DEF CosDecision, IssuesType, Status
    <3> QED
      BY <1>0, <1>22, <3>1 DEF CosDecision, IssuesType
  <2>4. OutputType'
    <3>1. stopReason' \in BOOLEAN
      BY <1>0, <1>22, Zenon DEF CosDecision, OutputType
    <3> QED
      BY <1>0, <1>22, <3>1 DEF CosDecision, OutputType
  <2>5. HistoryType'
    <3>1. reworked' \in BOOLEAN
      BY <1>0, <1>22, Zenon DEF CosDecision, HistoryType
    <3> QED
      BY <1>0, <1>22, <3>1 DEF CosDecision, HistoryType
  <2> QED
    BY <1>0, <1>22, <2>1, <2>2, <2>3, <2>4, <2>5, Untouched DEF CosDecision,
       TypeOK
<1>23. CASE DeepAudit
  <2>1. ControlType'
    BY <1>0, <1>23, GotoType DEF DeepAudit, Nodes
  <2>2. AuditedType'
    BY <1>0, <1>23, AuditsType DEF DeepAudit, AuditedType
  <2> QED
    BY <1>0, <1>23, <2>1, <2>2, Untouched DEF DeepAudit, TypeOK
<1>24. CASE HumanPullDefault
  <2>1. ControlType'
    <3>1. cap' \in {"off", "armed", "hit"}
      BY <1>0, <1>24, CapReadingsType DEF HumanPullDefault
    <3>2. pc' \in Nodes
      BY <1>24, AfterPullType DEF HumanPullDefault, Goto
    <3>3. steps' \in Nat /\ paused' = FALSE
      BY <1>0, <1>24 DEF HumanPullDefault, Goto, ControlType
    <3> QED
      BY <1>0, <1>24, <3>1, <3>2, <3>3, ControlKept DEF HumanPullDefault
  <2>2. HumanType'
    BY <1>0, <1>24 DEF HumanPullDefault, ConsumePull, HumanType
  <2>3. OutputType'
    <3>1. stopReason' \in BOOLEAN
      BY <1>0, <1>24, Zenon DEF HumanPullDefault, OutputType
    <3> QED
      BY <1>0, <1>24, <3>1 DEF HumanPullDefault, OutputType
  <2> QED
    BY <1>0, <1>24, <2>1, <2>2, <2>3, Untouched DEF HumanPullDefault, TypeOK
<1>25. CASE HumanPullAsk
  <2>1. ControlType'
    BY <1>0, <1>25, InterruptType DEF HumanPullAsk
  <2> QED
    BY <1>0, <1>25, <2>1, Untouched DEF HumanPullAsk, TypeOK
<1>26. CASE HumanPullAnswered
  <2>1. ControlType'
    BY <1>0, <1>26, ResumeType, AfterPullType DEF HumanPullAnswered
  <2>2. HumanType'
    BY <1>0, <1>26 DEF HumanPullAnswered, ConsumePull, HumanType
  <2> QED
    BY <1>0, <1>26, <2>1, <2>2, Untouched DEF HumanPullAnswered, TypeOK
<1>27. CASE HumanPush
  <2>1. ControlType'
    BY <1>0, <1>27, GotoType DEF HumanPush, Nodes
  <2>2. IssuesType'
    <3>1. status' \in [Issue -> Status]
      BY <1>0, <1>27 DEF HumanPush, IssuesType, Status
    <3> QED
      BY <1>0, <1>27, <3>1 DEF HumanPush, IssuesType
  <2>3. HumanType'
    BY <1>0, <1>27, PushedType DEF HumanPush, HumanType
  <2> QED
    BY <1>0, <1>27, <2>1, <2>2, <2>3, Untouched DEF HumanPush, TypeOK
<1>28. CASE HumanReviewPass
  <2>1. ControlType'
    BY <1>0, <1>28, GotoType DEF HumanReviewPass, Nodes
  <2>2. OutputType'
    BY <1>0, <1>28, BuildMemoType DEF HumanReviewPass, OutputType
  <2> QED
    BY <1>0, <1>28, <2>1, <2>2, Untouched DEF HumanReviewPass, TypeOK
<1>29. CASE HumanReviewAsk
  <2>1. ControlType'
    BY <1>0, <1>29, InterruptType DEF HumanReviewAsk
  <2>2. OutputType'
    <3>1. emails' \in Nat
      BY <1>0, <1>29 DEF HumanReviewAsk, OutputType
    <3> QED
      BY <1>0, <1>29, <3>1 DEF HumanReviewAsk, OutputType
  <2> QED
    BY <1>0, <1>29, <2>1, <2>2, Untouched DEF HumanReviewAsk, TypeOK
<1>30. CASE HumanReviewAnswered
  <2>1. ControlType'
    BY <1>0, <1>30, ResumeType DEF HumanReviewAnswered, Nodes
  <2>2. OutputType'
    BY <1>0, <1>30, BuildMemoType DEF HumanReviewAnswered, OutputType
  <2> QED
    BY <1>0, <1>30, <2>1, <2>2, Untouched DEF HumanReviewAnswered, TypeOK
<1>31. CASE Abort
  <2>1. ControlType'
    BY <1>0, <1>31, ControlKept DEF Abort, ControlType
  <2> QED
    BY <1>0, <1>31, <2>1, Untouched DEF Abort, TypeOK
<1>32. CASE UNCHANGED vars
  BY <1>0, <1>32, ControlKept, Untouched DEF vars, ControlType, TypeOK
<1> QED
  BY <1>1, <1>2, <1>3, <1>4, <1>5, <1>6, <1>7, <1>8, <1>9, <1>10, <1>11,
     <1>12, <1>13, <1>14, <1>15, <1>16, <1>17, <1>18, <1>19, <1>20, <1>21,
     <1>22, <1>23, <1>24, <1>25, <1>26, <1>27, <1>28, <1>29, <1>30, <1>31,
     <1>32 DEF Next, System, Human, Finished, Research

\* In every run, whatever the models and the human answer, every variable of
\* the loop has its type.
THEOREM TypeCorrect == Spec => []TypeOK
BY TypeInit, TypeStep, PTL DEF Spec
=============================================================================
