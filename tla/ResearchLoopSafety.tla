------------------------- MODULE ResearchLoopSafety -------------------------
(***************************************************************************)
(* The safety properties of ResearchLoop, for every value of its           *)
(* constants.  Each follows from an inductive invariant; types come from   *)
(* ResearchLoopProofs.                                                     *)
(***************************************************************************)
EXTENDS ResearchLoopProofs

-----------------------------------------------------------------------------
(* The iteration ceiling.                                                   *)

\* nodes that a round still being scored goes through
RoundNodes == Nodes \ {"anti_premature", "cos_decision", "deep_audit",
                       "human_pull", "human_review"}

\* The bound alone is not inductive: scoring adds one to iter wherever the
\* round came from, so every way into a round must have left room for it.
RoundInv ==
    /\ iter <= RoundLimit
    /\ pc \in RoundNodes => iter < RoundLimit

LEMMA RoundLimitType ==
    /\ RoundLimit \in Nat \ {0} /\ MaxIterations \in Nat
    /\ MaxIterations <= RoundLimit
<1>1. MaxIterations \in Nat
  BY LoopAssumption
<1> QED
  BY <1>1 DEF RoundLimit, AtLeastOne

LEMMA RoundInit == Init => RoundInv
BY RoundLimitType DEF Init, RoundInv

\* A route into a round is taken below the ceiling only.
LEMMA RouteRound ==
    ASSUME NEW d \in Decisions, NEW hit \in BOOLEAN,
           Route(d, hit) \in RoundNodes
    PROVE  ~hit /\ ~(iter >= MaxIterations)
BY DEF Route, RoundNodes

LEMMA AfterPullRound ==
    ASSUME NEW hit \in BOOLEAN, AfterPull(hit) \in RoundNodes
    PROVE  ~hit /\ ~(iter >= MaxIterations)
BY DEF AfterPull, RoundNodes

LEMMA RoundStep == TypeOK /\ RoundInv /\ [Next]_vars => RoundInv'
<1> SUFFICES ASSUME TypeOK, RoundInv, [Next]_vars PROVE RoundInv'
  OBVIOUS
<1>0. iter \in Nat /\ RoundInv /\ RoundLimit' = RoundLimit
  BY DEF TypeOK, ScoredType, RoundLimit, AtLeastOne
<1>1. CASE Intake
  BY <1>0, <1>1 DEF Intake, Ready, Goto, RoundInv, RoundNodes, Nodes, scored
<1>2. CASE Scope
  BY <1>0, <1>2 DEF Scope, Ready, Goto, RoundInv, RoundNodes, Nodes, scored
<1>3. CASE ClarifyPass
  BY <1>0, <1>3 DEF ClarifyPass, Ready, Goto, RoundInv, RoundNodes, Nodes,
     scored
<1>4. CASE ClarifyAsk
  BY <1>0, <1>4 DEF ClarifyAsk, Ready, Interrupt, RoundInv, RoundNodes,
     Nodes, scored
<1>5. CASE ClarifyAnswered
  BY <1>0, <1>5 DEF ClarifyAnswered, Answering, Resume, RoundInv, RoundNodes,
     Nodes, scored
<1>6. CASE WriteBrief
  BY <1>0, <1>6 DEF WriteBrief, Ready, Goto, RoundInv, RoundNodes, Nodes,
     scored
<1>7. CASE OrchestratorPlan
  BY <1>0, <1>7 DEF OrchestratorPlan, Ready, Goto, RoundInv, RoundNodes,
     Nodes, scored
<1>8. CASE PlanAuditSkip
  BY <1>0, <1>8 DEF PlanAuditSkip, Ready, Goto, RoundInv, RoundNodes, Nodes,
     scored
<1>9. CASE PlanAudit
  BY <1>0, <1>9 DEF PlanAudit, Ready, Goto, RoundInv, RoundNodes, Nodes,
     scored
<1>10. CASE PlanApprovalPass
  BY <1>0, <1>10 DEF PlanApprovalPass, Ready, Goto, RoundInv, RoundNodes,
     Nodes, scored
<1>11. CASE PlanApprovalAsk
  BY <1>0, <1>11 DEF PlanApprovalAsk, Ready, Interrupt, RoundInv, RoundNodes,
     Nodes, scored
<1>12. CASE PlanApprovalAnswered
  BY <1>0, <1>12 DEF PlanApprovalAnswered, Answering, Resume, RoundInv,
     RoundNodes, Nodes, scored
<1>13. CASE IssueExpansion
  BY <1>0, <1>13 DEF IssueExpansion, Ready, Goto, RoundInv, RoundNodes,
     Nodes, scored
<1>14. CASE Supervisor
  BY <1>0, <1>14 DEF Supervisor, Ready, Goto, RoundInv, RoundNodes, Nodes,
     scored
<1>15. CASE ResearchFanout
  BY <1>0, <1>15 DEF ResearchFanout, Ready, Goto, RoundInv, RoundNodes,
     Nodes, scored
<1>16. CASE Collect
  BY <1>0, <1>16 DEF Collect, Ready, Goto, RoundInv, RoundNodes, Nodes,
     scored
<1>17. CASE Skeptic
  BY <1>0, <1>17 DEF Skeptic, Ready, Goto, RoundInv, RoundNodes, Nodes,
     scored
<1>18. CASE AlbertAudit
  BY <1>0, <1>18 DEF AlbertAudit, Ready, Goto, RoundInv, RoundNodes, Nodes,
     scored
<1>19. CASE ArtifactUpdate
  BY <1>0, <1>19 DEF ArtifactUpdate, Ready, Goto, RoundInv, RoundNodes,
     Nodes, scored
<1>20. CASE ReadinessScoring
  BY <1>0, <1>20, RoundLimitType DEF ReadinessScoring, Ready, Goto, RoundInv, RoundNodes,
     Nodes, scored
<1>21. CASE AntiPremature
  BY <1>0, <1>21 DEF AntiPremature, Ready, Goto, RoundInv, RoundNodes, Nodes,
     scored
<1>22. CASE CosDecision
  <2>1. Decide \in Decisions /\ (cap' = "hit") \in BOOLEAN
    BY DecideType
  <2>2. pc' \in RoundNodes => ~(iter >= MaxIterations)
    BY <1>22, <2>1, RouteRound DEF CosDecision, Goto
  <2>3. iter' = iter
    BY <1>22 DEF CosDecision, scored
  <2> QED
    BY <1>0, <2>2, <2>3, RoundLimitType DEF RoundInv
<1>23. CASE DeepAudit
  BY <1>0, <1>23 DEF DeepAudit, Ready, Goto, RoundInv, RoundNodes, Nodes,
     scored
<1>24. CASE HumanPullDefault
  <2>1. pc' \in RoundNodes => ~(iter >= MaxIterations)
    BY <1>24, AfterPullRound DEF HumanPullDefault, Goto
  <2>2. iter' = iter
    BY <1>24 DEF HumanPullDefault, scored
  <2> QED
    BY <1>0, <2>1, <2>2, RoundLimitType DEF RoundInv
<1>25. CASE HumanPullAsk
  BY <1>0, <1>25 DEF HumanPullAsk, Ready, Interrupt, RoundInv, RoundNodes,
     Nodes, scored
<1>26. CASE HumanPullAnswered
  <2>1. pc' \in RoundNodes => ~(iter >= MaxIterations)
    BY <1>26, AfterPullRound DEF HumanPullAnswered, Resume
  <2>2. iter' = iter
    BY <1>26 DEF HumanPullAnswered, scored
  <2> QED
    BY <1>0, <2>1, <2>2, RoundLimitType DEF RoundInv
<1>27. CASE HumanPush
  BY <1>0, <1>27 DEF HumanPush, Ready, Goto, RoundInv, RoundNodes, Nodes,
     scored
<1>28. CASE HumanReviewPass
  BY <1>0, <1>28 DEF HumanReviewPass, Ready, Goto, RoundInv, RoundNodes,
     Nodes, scored
<1>29. CASE HumanReviewAsk
  BY <1>0, <1>29 DEF HumanReviewAsk, Ready, Interrupt, RoundInv, RoundNodes,
     Nodes, scored
<1>30. CASE HumanReviewAnswered
  BY <1>0, <1>30 DEF HumanReviewAnswered, Answering, Resume, RoundInv,
     RoundNodes, Nodes, scored
<1>31. CASE Abort
  BY <1>0, <1>31 DEF Abort, RoundInv, RoundNodes, Nodes, scored
<1>32. CASE UNCHANGED vars
  BY <1>0, <1>32 DEF vars, RoundInv, RoundNodes, Nodes, scored
<1> QED
  BY <1>1, <1>2, <1>3, <1>4, <1>5, <1>6, <1>7, <1>8, <1>9, <1>10, <1>11,
     <1>12, <1>13, <1>14, <1>15, <1>16, <1>17, <1>18, <1>19, <1>20, <1>21,
     <1>22, <1>23, <1>24, <1>25, <1>26, <1>27, <1>28, <1>29, <1>30, <1>31,
     <1>32 DEF Next, System, Human, Finished, Research

\* Whatever the auditor, the scorer and the human answer, no more than
\* max_iterations rounds are scored (one, if it is zero).
THEOREM Ceiling == Spec => []IterationCeiling
<1>1. Spec => []RoundInv
  BY TypeCorrect, RoundInit, RoundStep, PTL DEF Spec
<1>2. RoundInv => IterationCeiling
  BY DEF RoundInv, IterationCeiling
<1> QED
  BY <1>1, <1>2, PTL
-----------------------------------------------------------------------------
(* The cap.                                                                 *)

\* Where the process can be once the cap was hit: on its way out.
CapInv ==
    cap = "hit" => pc \in {"deep_audit", "human_pull", "human_review", "end",
                           "aborted"}

LEMMA CapInit == Init => CapInv
BY DEF Init, CapInv

LEMMA CapStep == CapInv /\ [Next]_vars => CapInv'
<1> SUFFICES ASSUME CapInv, [Next]_vars PROVE CapInv'
  OBVIOUS
<1>0. CapInv
  OBVIOUS
<1>1. CASE Intake
  BY <1>0, <1>1 DEF Intake, Ready, Goto, CapInv
<1>2. CASE Scope
  BY <1>0, <1>2 DEF Scope, Ready, Goto, CapInv
<1>3. CASE ClarifyPass
  BY <1>0, <1>3 DEF ClarifyPass, Ready, Goto, CapInv
<1>4. CASE ClarifyAsk
  BY <1>0, <1>4 DEF ClarifyAsk, Ready, Interrupt, CapInv
<1>5. CASE ClarifyAnswered
  BY <1>0, <1>5 DEF ClarifyAnswered, Answering, Resume, CapInv
<1>6. CASE WriteBrief
  BY <1>0, <1>6 DEF WriteBrief, Ready, Goto, CapInv
<1>7. CASE OrchestratorPlan
  BY <1>0, <1>7 DEF OrchestratorPlan, Ready, Goto, CapInv
<1>8. CASE PlanAuditSkip
  BY <1>0, <1>8 DEF PlanAuditSkip, Ready, Goto, CapInv
<1>9. CASE PlanAudit
  BY <1>0, <1>9 DEF PlanAudit, Ready, Goto, CapInv
<1>10. CASE PlanApprovalPass
  BY <1>0, <1>10 DEF PlanApprovalPass, Ready, Goto, CapInv
<1>11. CASE PlanApprovalAsk
  BY <1>0, <1>11 DEF PlanApprovalAsk, Ready, Interrupt, CapInv
<1>12. CASE PlanApprovalAnswered
  BY <1>0, <1>12 DEF PlanApprovalAnswered, Answering, Resume, CapInv
<1>13. CASE IssueExpansion
  BY <1>0, <1>13 DEF IssueExpansion, Ready, Goto, CapInv
<1>14. CASE Supervisor
  BY <1>0, <1>14 DEF Supervisor, Ready, Goto, CapInv
<1>15. CASE ResearchFanout
  BY <1>0, <1>15 DEF ResearchFanout, Ready, Goto, CapInv
<1>16. CASE Collect
  BY <1>0, <1>16 DEF Collect, Ready, Goto, CapInv
<1>17. CASE Skeptic
  BY <1>0, <1>17 DEF Skeptic, Ready, Goto, CapInv
<1>18. CASE AlbertAudit
  BY <1>0, <1>18 DEF AlbertAudit, Ready, Goto, CapInv
<1>19. CASE ArtifactUpdate
  BY <1>0, <1>19 DEF ArtifactUpdate, Ready, Goto, CapInv
<1>20. CASE ReadinessScoring
  BY <1>0, <1>20 DEF ReadinessScoring, Ready, Goto, CapInv
<1>21. CASE AntiPremature
  BY <1>0, <1>21 DEF AntiPremature, Ready, Goto, CapInv
<1>22. CASE CosDecision
  BY <1>0, <1>22 DEF CosDecision, Ready, Goto, Route, CapInv
<1>23. CASE DeepAudit
  BY <1>0, <1>23 DEF DeepAudit, Ready, Goto, CapInv
<1>24. CASE HumanPullDefault
  BY <1>0, <1>24 DEF HumanPullDefault, Ready, Goto, AfterPull, CapInv
<1>25. CASE HumanPullAsk
  BY <1>0, <1>25 DEF HumanPullAsk, Ready, Interrupt, CapInv
<1>26. CASE HumanPullAnswered
  BY <1>0, <1>26 DEF HumanPullAnswered, Answering, Resume, CapInv
<1>27. CASE HumanPush
  BY <1>0, <1>27 DEF HumanPush, Ready, Goto, CapInv
<1>28. CASE HumanReviewPass
  BY <1>0, <1>28 DEF HumanReviewPass, Ready, Goto, CapInv
<1>29. CASE HumanReviewAsk
  BY <1>0, <1>29 DEF HumanReviewAsk, Ready, Interrupt, CapInv
<1>30. CASE HumanReviewAnswered
  BY <1>0, <1>30 DEF HumanReviewAnswered, Answering, Resume, CapInv
<1>31. CASE Abort
  BY <1>0, <1>31 DEF Abort, CapInv
<1>32. CASE UNCHANGED vars
  BY <1>0, <1>32 DEF vars, CapInv
<1> QED
  BY <1>1, <1>2, <1>3, <1>4, <1>5, <1>6, <1>7, <1>8, <1>9, <1>10, <1>11,
     <1>12, <1>13, <1>14, <1>15, <1>16, <1>17, <1>18, <1>19, <1>20, <1>21,
     <1>22, <1>23, <1>24, <1>25, <1>26, <1>27, <1>28, <1>29, <1>30, <1>31,
     <1>32 DEF Next, System, Human, Finished, Research

\* Once the router or the pull gate has seen the cap hit, the process starts no
\* further round.
THEOREM CapHolds == Spec => []CapEndsResearch
<1>1. Spec => []CapInv
  BY CapInit, CapStep, PTL DEF Spec
<1>2. CapInv => CapEndsResearch
  BY DEF CapInv, CapEndsResearch, ResearchNodes
<1> QED
  BY <1>1, <1>2, PTL
-----------------------------------------------------------------------------
(* Issues and their researchers.                                            *)

\* An issue is sent out only while its title is not among the researched ones,
\* and sending it puts the title there for good.
DispatchInv ==
    \A i \in Issue :
        /\ dispatched[i] <= 1
        /\ dispatched[i] > 0 => Title[i] \in researched

LEMMA DispatchInit == Init => DispatchInv
BY DEF Init, DispatchInv

LEMMA DispatchKept ==
    ASSUME DispatchInv, UNCHANGED <<dispatched, researched>>
    PROVE  DispatchInv'
BY DEF DispatchInv

LEMMA DispatchStep == TypeOK /\ DispatchInv /\ [Next]_vars => DispatchInv'
<1> SUFFICES ASSUME TypeOK, DispatchInv, [Next]_vars PROVE DispatchInv'
  OBVIOUS
<1>0. DispatchInv /\ dispatched \in [Issue -> Nat]
  BY DEF TypeOK, HistoryType
<1>1. CASE Intake
  BY <1>0, <1>1, DispatchKept DEF Intake, issues, history
<1>2. CASE Scope
  BY <1>0, <1>2, DispatchKept DEF Scope, issues, history
<1>3. CASE ClarifyPass
  BY <1>0, <1>3, DispatchKept DEF ClarifyPass, issues, history
<1>4. CASE ClarifyAsk
  BY <1>0, <1>4, DispatchKept DEF ClarifyAsk, issues, history
<1>5. CASE ClarifyAnswered
  BY <1>0, <1>5, DispatchKept DEF ClarifyAnswered, issues, history
<1>6. CASE WriteBrief
  BY <1>0, <1>6, DispatchKept DEF WriteBrief, issues, history
<1>7. CASE OrchestratorPlan
  BY <1>0, <1>7, DispatchKept DEF OrchestratorPlan, issues, history
<1>8. CASE PlanAuditSkip
  BY <1>0, <1>8, DispatchKept DEF PlanAuditSkip, issues, history
<1>9. CASE PlanAudit
  BY <1>0, <1>9, DispatchKept DEF PlanAudit, issues, history
<1>10. CASE PlanApprovalPass
  BY <1>0, <1>10, DispatchKept DEF PlanApprovalPass, issues, history
<1>11. CASE PlanApprovalAsk
  BY <1>0, <1>11, DispatchKept DEF PlanApprovalAsk, issues, history
<1>12. CASE PlanApprovalAnswered
  BY <1>0, <1>12, DispatchKept DEF PlanApprovalAnswered, issues, history
<1>13. CASE IssueExpansion
  BY <1>0, <1>13, DispatchKept DEF IssueExpansion, issues, history
<1>14. CASE Supervisor
  BY <1>0, <1>14, DispatchKept DEF Supervisor, issues, history
<1>15. CASE ResearchFanout
  <2>1. ASSUME NEW i \in Issue
        PROVE  dispatched'[i] <= 1 /\ (dispatched'[i] > 0 => Title[i] \in researched')
    <3>1. CASE i \in Selected
      <4>1. Title[i] \notin researched
        BY <3>1 DEF Selected, Candidates
      <4>2. dispatched[i] = 0
        BY <1>0, <4>1 DEF DispatchInv
      <4>3. Title[i] \in researched'
        BY <1>15, <3>1 DEF ResearchFanout
      <4>4. dispatched'[i] = dispatched[i] + 1
        BY <1>15, <3>1 DEF ResearchFanout
      <4> QED
        BY <4>2, <4>3, <4>4
    <3>2. CASE i \notin Selected
      <4>1. dispatched'[i] = dispatched[i]
        BY <1>15, <3>2 DEF ResearchFanout
      <4>2. Title[i] \in researched => Title[i] \in researched'
        BY <1>15 DEF ResearchFanout
      <4> QED
        BY <1>0, <4>1, <4>2 DEF DispatchInv
    <3> QED
      BY <3>1, <3>2
  <2> QED
    BY <2>1 DEF DispatchInv
<1>16. CASE Collect
  BY <1>0, <1>16, DispatchKept DEF Collect, issues, history
<1>17. CASE Skeptic
  BY <1>0, <1>17, DispatchKept DEF Skeptic, issues, history
<1>18. CASE AlbertAudit
  BY <1>0, <1>18, DispatchKept DEF AlbertAudit, issues, history
<1>19. CASE ArtifactUpdate
  BY <1>0, <1>19, DispatchKept DEF ArtifactUpdate, issues, history
<1>20. CASE ReadinessScoring
  BY <1>0, <1>20, DispatchKept DEF ReadinessScoring, issues, history
<1>21. CASE AntiPremature
  BY <1>0, <1>21, DispatchKept DEF AntiPremature, issues, history
<1>22. CASE CosDecision
  BY <1>0, <1>22, DispatchKept DEF CosDecision, issues, history
<1>23. CASE DeepAudit
  BY <1>0, <1>23, DispatchKept DEF DeepAudit, issues, history
<1>24. CASE HumanPullDefault
  BY <1>0, <1>24, DispatchKept DEF HumanPullDefault, issues, history
<1>25. CASE HumanPullAsk
  BY <1>0, <1>25, DispatchKept DEF HumanPullAsk, issues, history
<1>26. CASE HumanPullAnswered
  BY <1>0, <1>26, DispatchKept DEF HumanPullAnswered, issues, history
<1>27. CASE HumanPush
  BY <1>0, <1>27, DispatchKept DEF HumanPush, issues, history
<1>28. CASE HumanReviewPass
  BY <1>0, <1>28, DispatchKept DEF HumanReviewPass, issues, history
<1>29. CASE HumanReviewAsk
  BY <1>0, <1>29, DispatchKept DEF HumanReviewAsk, issues, history
<1>30. CASE HumanReviewAnswered
  BY <1>0, <1>30, DispatchKept DEF HumanReviewAnswered, issues, history
<1>31. CASE Abort
  BY <1>0, <1>31, DispatchKept DEF Abort, issues, history
<1>32. CASE UNCHANGED vars
  BY <1>0, <1>32, DispatchKept DEF vars, issues, history
<1> QED
  BY <1>1, <1>2, <1>3, <1>4, <1>5, <1>6, <1>7, <1>8, <1>9, <1>10, <1>11,
     <1>12, <1>13, <1>14, <1>15, <1>16, <1>17, <1>18, <1>19, <1>20, <1>21,
     <1>22, <1>23, <1>24, <1>25, <1>26, <1>27, <1>28, <1>29, <1>30, <1>31,
     <1>32 DEF Next, System, Human, Finished, Research

\* No issue goes to a researcher twice in a run, in whatever rounds it stays
\* addressable.
THEOREM ResearchedOnce == Spec => []IssueResearchedOnce
<1>1. Spec => []DispatchInv
  BY TypeCorrect, DispatchInit, DispatchStep, PTL DEF Spec
<1>2. DispatchInv => IssueResearchedOnce
  BY DEF DispatchInv, IssueResearchedOnce
<1> QED
  BY <1>1, <1>2, PTL
-----------------------------------------------------------------------------
(* Answers and their evidence.                                              *)

\* A bundle comes from a researcher, evidence from a bundle, and a status from
\* the evidence folded before it.
EvidenceInv ==
    \A i \in Issue :
        /\ buffer[i] > 0 => dispatched[i] >= 1
        /\ evidence[i] > 0 => dispatched[i] >= 1
        /\ status[i] = "partially_answered" => evidence[i] >= 1
        /\ status[i] = "answered" => evidence[i] >= 2

LEMMA EvidenceInit == Init => EvidenceInv
<1> SUFFICES ASSUME Init, NEW i \in Issue
             PROVE  /\ buffer[i] = 0 /\ evidence[i] = 0
                    /\ status[i] \in {"absent", "open"}
  BY DEF EvidenceInv
<1> QED
  BY DEF Init, NewRun, PreparedRun, ResumedState, Seeded

\* A step that folds nothing and calls no further issue answered.
LEMMA EvidenceKept ==
    ASSUME EvidenceInv, UNCHANGED <<buffer, evidence, dispatched>>,
           \A i \in Issue : \/ status'[i] = status[i]
                            \/ status'[i] \notin {"partially_answered", "answered"}
    PROVE  EvidenceInv'
BY DEF EvidenceInv

LEMMA ExpandedNew ==
    \A i \in Issue : Expanded[i] = status[i] \/ Expanded[i] \in {"absent", "open"}
BY DEF Expanded, Seeded

LEMMA EvidenceStep == TypeOK /\ EvidenceInv /\ [Next]_vars => EvidenceInv'
<1> SUFFICES ASSUME TypeOK, EvidenceInv, [Next]_vars PROVE EvidenceInv'
  OBVIOUS
<1>0. /\ EvidenceInv
      /\ buffer \in [Issue -> Nat] /\ evidence \in [Issue -> Nat]
      /\ status \in [Issue -> Status] /\ dispatched \in [Issue -> Nat]
  BY DEF TypeOK, ChannelsType, IssuesType, HistoryType
<1>1. CASE Intake
  BY <1>0, <1>1, EvidenceKept DEF Intake, channels, issues, history
<1>2. CASE Scope
  BY <1>0, <1>2, EvidenceKept DEF Scope, channels, issues, history
<1>3. CASE ClarifyPass
  BY <1>0, <1>3, EvidenceKept DEF ClarifyPass, channels, issues, history
<1>4. CASE ClarifyAsk
  BY <1>0, <1>4, EvidenceKept DEF ClarifyAsk, channels, issues, history
<1>5. CASE ClarifyAnswered
  BY <1>0, <1>5, EvidenceKept DEF ClarifyAnswered, channels, issues, history
<1>6. CASE WriteBrief
  BY <1>0, <1>6, EvidenceKept DEF WriteBrief, channels, issues, history
<1>7. CASE OrchestratorPlan
  <2>1. \A i \in Issue :
           \/ status'[i] = status[i]
           \/ status'[i] \notin {"partially_answered", "answered"}
    BY <1>0, <1>7, ExpandedNew DEF OrchestratorPlan
  <2> QED
    BY <1>0, <1>7, <2>1, EvidenceKept DEF OrchestratorPlan, channels, issues, history
<1>8. CASE PlanAuditSkip
  BY <1>0, <1>8, EvidenceKept DEF PlanAuditSkip, channels, issues, history
<1>9. CASE PlanAudit
  BY <1>0, <1>9, EvidenceKept DEF PlanAudit, channels, issues, history
<1>10. CASE PlanApprovalPass
  BY <1>0, <1>10, EvidenceKept DEF PlanApprovalPass, channels, issues,
     history
<1>11. CASE PlanApprovalAsk
  BY <1>0, <1>11, EvidenceKept DEF PlanApprovalAsk, channels, issues, history
<1>12. CASE PlanApprovalAnswered
  BY <1>0, <1>12, EvidenceKept DEF PlanApprovalAnswered, channels, issues,
     history
<1>13. CASE IssueExpansion
  <2>1. \A i \in Issue :
           \/ status'[i] = status[i]
           \/ status'[i] \notin {"partially_answered", "answered"}
    BY <1>0, <1>13, ExpandedNew DEF IssueExpansion
  <2> QED
    BY <1>0, <1>13, <2>1, EvidenceKept DEF IssueExpansion, channels, issues, history
<1>14. CASE Supervisor
  BY <1>0, <1>14, EvidenceKept DEF Supervisor, channels, issues, history
<1>15. CASE ResearchFanout
  <2> SUFFICES ASSUME NEW i \in Issue
               PROVE  /\ buffer'[i] > 0 => dispatched'[i] >= 1
                      /\ evidence'[i] = evidence[i] /\ status'[i] = status[i]
                      /\ evidence[i] > 0 => dispatched'[i] >= 1
    BY <1>0 DEF EvidenceInv
  <2>1. evidence'[i] = evidence[i] /\ status'[i] = status[i]
    BY <1>15 DEF ResearchFanout
  <2>2. dispatched[i] >= 1 => dispatched'[i] >= 1
    BY <1>0, <1>15 DEF ResearchFanout
  <2>3. evidence[i] > 0 => dispatched'[i] >= 1
    BY <1>0, <2>2 DEF EvidenceInv
  <2>4. PICK delivered \in SUBSET Selected :
           buffer' = [j \in Issue |->
                         IF j \in delivered THEN buffer[j] + 1 ELSE buffer[j]]
    BY <1>15 DEF ResearchFanout
  <2>5. CASE i \in delivered
    <3>1. dispatched'[i] >= 1
      BY <1>0, <1>15, <2>5 DEF ResearchFanout
    <3> QED
      BY <2>1, <2>3, <3>1
  <2>6. CASE i \notin delivered
    <3>1. buffer'[i] = buffer[i]
      BY <2>4, <2>6
    <3>2. buffer[i] > 0 => dispatched[i] >= 1
      BY <1>0 DEF EvidenceInv
    <3> QED
      BY <2>1, <2>2, <2>3, <3>1, <3>2
  <2> QED
    BY <2>5, <2>6
<1>16. CASE Collect
  <2> SUFFICES ASSUME NEW i \in Issue
               PROVE  /\ buffer'[i] > 0 => dispatched'[i] >= 1
                      /\ evidence'[i] > 0 => dispatched'[i] >= 1
                      /\ status'[i] = "partially_answered" => evidence'[i] >= 1
                      /\ status'[i] = "answered" => evidence'[i] >= 2
    BY DEF EvidenceInv
  <2>1. buffer'[i] = buffer[i] /\ dispatched'[i] = dispatched[i]
    BY <1>16 DEF Collect, history
  <2>2. evidence'[i] = evidence[i] + buffer[i]
    BY <1>16 DEF Collect
  <2>3. status'[i] = Advance(status[i], buffer[i])
    BY <1>16 DEF Collect
  <2>4. /\ buffer[i] > 0 => dispatched[i] >= 1
        /\ evidence[i] > 0 => dispatched[i] >= 1
        /\ status[i] = "partially_answered" => evidence[i] >= 1
        /\ status[i] = "answered" => evidence[i] >= 2
    BY <1>0 DEF EvidenceInv
  <2>5. buffer[i] \in Nat /\ evidence[i] \in Nat
    BY <1>0
  <2>6. status'[i] = "partially_answered" =>
            \/ status[i] = "open" /\ buffer[i] = 1
            \/ status[i] = "partially_answered"
    BY <2>3, <2>5 DEF Advance
  <2>7. status'[i] = "answered" =>
            \/ status[i] = "open" /\ buffer[i] > 1
            \/ status[i] = "partially_answered" /\ buffer[i] > 0
            \/ status[i] = "answered"
    BY <2>3, <2>5 DEF Advance
  <2> QED
    BY <2>1, <2>2, <2>4, <2>5, <2>6, <2>7
<1>17. CASE Skeptic
  BY <1>0, <1>17, EvidenceKept DEF Skeptic, channels, issues, history
<1>18. CASE AlbertAudit
  BY <1>0, <1>18, EvidenceKept DEF AlbertAudit, channels, issues, history
<1>19. CASE ArtifactUpdate
  BY <1>0, <1>19, EvidenceKept DEF ArtifactUpdate, channels, issues, history
<1>20. CASE ReadinessScoring
  BY <1>0, <1>20, EvidenceKept DEF ReadinessScoring, channels, issues,
     history
<1>21. CASE AntiPremature
  BY <1>0, <1>21, EvidenceKept DEF AntiPremature, channels, issues, history
<1>22. CASE CosDecision
  <2>1. \A i \in Issue :
           \/ status'[i] = status[i]
           \/ status'[i] \notin {"partially_answered", "answered"}
    BY <1>0, <1>22 DEF CosDecision
  <2> QED
    BY <1>0, <1>22, <2>1, EvidenceKept DEF CosDecision, channels, issues, history
<1>23. CASE DeepAudit
  BY <1>0, <1>23, EvidenceKept DEF DeepAudit, channels, issues, history
<1>24. CASE HumanPullDefault
  BY <1>0, <1>24, EvidenceKept DEF HumanPullDefault, channels, issues,
     history
<1>25. CASE HumanPullAsk
  BY <1>0, <1>25, EvidenceKept DEF HumanPullAsk, channels, issues, history
<1>26. CASE HumanPullAnswered
  BY <1>0, <1>26, EvidenceKept DEF HumanPullAnswered, channels, issues,
     history
<1>27. CASE HumanPush
  <2>1. \A i \in Issue :
           \/ status'[i] = status[i]
           \/ status'[i] \notin {"partially_answered", "answered"}
    BY <1>0, <1>27 DEF HumanPush
  <2> QED
    BY <1>0, <1>27, <2>1, EvidenceKept DEF HumanPush, channels, issues, history
<1>28. CASE HumanReviewPass
  BY <1>0, <1>28, EvidenceKept DEF HumanReviewPass, channels, issues, history
<1>29. CASE HumanReviewAsk
  BY <1>0, <1>29, EvidenceKept DEF HumanReviewAsk, channels, issues, history
<1>30. CASE HumanReviewAnswered
  BY <1>0, <1>30, EvidenceKept DEF HumanReviewAnswered, channels, issues,
     history
<1>31. CASE Abort
  BY <1>0, <1>31, EvidenceKept DEF Abort, channels, issues, history
<1>32. CASE UNCHANGED vars
  BY <1>0, <1>32, EvidenceKept DEF vars, channels, issues, history
<1> QED
  BY <1>1, <1>2, <1>3, <1>4, <1>5, <1>6, <1>7, <1>8, <1>9, <1>10, <1>11,
     <1>12, <1>13, <1>14, <1>15, <1>16, <1>17, <1>18, <1>19, <1>20, <1>21,
     <1>22, <1>23, <1>24, <1>25, <1>26, <1>27, <1>28, <1>29, <1>30, <1>31,
     <1>32 DEF Next, System, Human, Finished, Research

\* An issue is called answered only on evidence that its own researcher
\* brought, folded twice.
THEOREM AnswersEvidenced == Spec => []AnsweredByEvidence
<1>1. Spec => []EvidenceInv
  BY TypeCorrect, EvidenceInit, EvidenceStep, PTL DEF Spec
<1>2. TypeOK /\ EvidenceInv => AnsweredByEvidence
  BY DEF TypeOK, IssuesType, EvidenceInv, AnsweredByEvidence
<1> QED
  BY <1>1, <1>2, TypeCorrect, PTL
-----------------------------------------------------------------------------
(* The H7 gate.                                                             *)

\* What was approved is part of the grid, which only grows, and its size is
\* what the gate compares with; behind the gate the difference is small.
ApprovalInv ==
    ~assume =>
        /\ shown \in SUBSET grid
        /\ approvedN # NotApproved => approvedN = Cardinality(shown)
        /\ pc \in AfterApproval =>
               /\ approvedN # NotApproved
               /\ Cardinality(grid) - approvedN < H7MajorDelta

LEMMA ApprovalInit == Init => ApprovalInv
BY DEF Init, ApprovalInv, AfterApproval, Nodes

\* A step that neither approves nor plans, and does not come from the gate.
LEMMA ApprovalKept ==
    ASSUME ApprovalInv, UNCHANGED <<assume, approvedN, grid, shown>>,
           pc' \in AfterApproval => pc \in AfterApproval
    PROVE  ApprovalInv'
BY DEF ApprovalInv

LEMMA ApprovalStep == TypeOK /\ ApprovalInv /\ [Next]_vars => ApprovalInv'
<1> SUFFICES ASSUME TypeOK, ApprovalInv, [Next]_vars PROVE ApprovalInv'
  OBVIOUS
<1>0. ApprovalInv /\ grid \in SUBSET Cells
  BY DEF TypeOK
<1>1. CASE Intake
  BY <1>0, <1>1, ApprovalKept DEF Intake, Ready, Goto, process, channels,
     history, AfterApproval, Nodes
<1>2. CASE Scope
  BY <1>0, <1>2, ApprovalKept DEF Scope, Ready, Goto, process, channels,
     history, AfterApproval, Nodes
<1>3. CASE ClarifyPass
  BY <1>0, <1>3, ApprovalKept DEF ClarifyPass, Ready, Goto, process,
     channels, history, AfterApproval, Nodes
<1>4. CASE ClarifyAsk
  BY <1>0, <1>4, ApprovalKept DEF ClarifyAsk, Ready, Interrupt, process,
     channels, history, AfterApproval, Nodes
<1>5. CASE ClarifyAnswered
  BY <1>0, <1>5, ApprovalKept DEF ClarifyAnswered, Answering, Resume,
     process, channels, history, AfterApproval, Nodes
<1>6. CASE WriteBrief
  BY <1>0, <1>6, ApprovalKept DEF WriteBrief, Ready, Goto, process, channels,
     history, AfterApproval, Nodes
<1>7. CASE OrchestratorPlan
  <2>1. grid \subseteq grid' /\ UNCHANGED <<assume, approvedN, shown>>
    BY <1>7 DEF OrchestratorPlan, process, channels, history
  <2>2. pc' \notin AfterApproval
    BY <1>7 DEF OrchestratorPlan, Goto, AfterApproval
  <2> QED
    BY <1>0, <2>1, <2>2 DEF ApprovalInv
<1>8. CASE PlanAuditSkip
  BY <1>0, <1>8, ApprovalKept DEF PlanAuditSkip, Ready, Goto, process,
     channels, history, AfterApproval, Nodes
<1>9. CASE PlanAudit
  BY <1>0, <1>9, ApprovalKept DEF PlanAudit, Ready, Goto, process, channels,
     history, AfterApproval, Nodes
<1>10. CASE PlanApprovalPass
  <2>1. CASE assume
    BY <1>10, <2>1 DEF PlanApprovalPass, process, ApprovalInv
  <2>2. CASE ~assume
    <3>1. UNCHANGED <<assume, approvedN, grid, shown>> /\ ~NeedsApproval
      BY <1>10, <2>2 DEF PlanApprovalPass, process, history
    <3>2. approvedN # NotApproved
      BY <3>1 DEF NeedsApproval
    <3>3. Cardinality(grid) \in Nat /\ approvedN \in Int
      BY <1>0, GridCardinality DEF TypeOK, ChannelsType
    <3>4. Cardinality(grid) - approvedN < H7MajorDelta
      BY <3>1, <3>3 DEF NeedsApproval, H7MajorDelta
    <3> QED
      BY <1>0, <2>2, <3>1, <3>2, <3>4 DEF ApprovalInv
  <2> QED
    BY <2>1, <2>2
<1>11. CASE PlanApprovalAsk
  BY <1>0, <1>11, ApprovalKept DEF PlanApprovalAsk, Ready, Interrupt,
     process, channels, history, AfterApproval, Nodes
<1>12. CASE PlanApprovalAnswered
  <2>1. UNCHANGED <<assume, grid>> /\ shown' = grid
        /\ approvedN' = Cardinality(grid)
    BY <1>12 DEF PlanApprovalAnswered, process
  <2>2. Cardinality(grid) \in Nat
    BY <1>0, GridCardinality
  <2>3. approvedN' # NotApproved /\ Cardinality(grid) - approvedN' < H7MajorDelta
    BY <2>1, <2>2 DEF NotApproved, H7MajorDelta
  <2> QED
    BY <2>1, <2>3 DEF ApprovalInv
<1>13. CASE IssueExpansion
  BY <1>0, <1>13, ApprovalKept DEF IssueExpansion, Ready, Goto, process,
     channels, history, AfterApproval, Nodes
<1>14. CASE Supervisor
  BY <1>0, <1>14, ApprovalKept DEF Supervisor, Ready, Goto, process,
     channels, history, AfterApproval, Nodes
<1>15. CASE ResearchFanout
  BY <1>0, <1>15, ApprovalKept DEF ResearchFanout, Ready, Goto, process,
     channels, history, AfterApproval, Nodes
<1>16. CASE Collect
  BY <1>0, <1>16, ApprovalKept DEF Collect, Ready, Goto, process, channels,
     history, AfterApproval, Nodes
<1>17. CASE Skeptic
  BY <1>0, <1>17, ApprovalKept DEF Skeptic, Ready, Goto, process, channels,
     history, AfterApproval, Nodes
<1>18. CASE AlbertAudit
  BY <1>0, <1>18, ApprovalKept DEF AlbertAudit, Ready, Goto, process,
     channels, history, AfterApproval, Nodes
<1>19. CASE ArtifactUpdate
  BY <1>0, <1>19, ApprovalKept DEF ArtifactUpdate, Ready, Goto, process,
     channels, history, AfterApproval, Nodes
<1>20. CASE ReadinessScoring
  BY <1>0, <1>20, ApprovalKept DEF ReadinessScoring, Ready, Goto, process,
     channels, history, AfterApproval, Nodes
<1>21. CASE AntiPremature
  BY <1>0, <1>21, ApprovalKept DEF AntiPremature, Ready, Goto, process,
     channels, history, AfterApproval, Nodes
<1>22. CASE CosDecision
  BY <1>0, <1>22, ApprovalKept DEF CosDecision, Ready, Goto, process,
     channels, history, AfterApproval, Nodes
<1>23. CASE DeepAudit
  BY <1>0, <1>23, ApprovalKept DEF DeepAudit, Ready, Goto, process, channels,
     history, AfterApproval, Nodes
<1>24. CASE HumanPullDefault
  BY <1>0, <1>24, ApprovalKept DEF HumanPullDefault, Ready, Goto, process,
     channels, history, AfterApproval, Nodes
<1>25. CASE HumanPullAsk
  BY <1>0, <1>25, ApprovalKept DEF HumanPullAsk, Ready, Interrupt, process,
     channels, history, AfterApproval, Nodes
<1>26. CASE HumanPullAnswered
  BY <1>0, <1>26, ApprovalKept DEF HumanPullAnswered, Answering, Resume,
     process, channels, history, AfterApproval, Nodes
<1>27. CASE HumanPush
  BY <1>0, <1>27, ApprovalKept DEF HumanPush, Ready, Goto, process, channels,
     history, AfterApproval, Nodes
<1>28. CASE HumanReviewPass
  BY <1>0, <1>28, ApprovalKept DEF HumanReviewPass, Ready, Goto, process,
     channels, history, AfterApproval, Nodes
<1>29. CASE HumanReviewAsk
  BY <1>0, <1>29, ApprovalKept DEF HumanReviewAsk, Ready, Interrupt, process,
     channels, history, AfterApproval, Nodes
<1>30. CASE HumanReviewAnswered
  BY <1>0, <1>30, ApprovalKept DEF HumanReviewAnswered, Answering, Resume,
     process, channels, history, AfterApproval, Nodes
<1>31. CASE Abort
  BY <1>0, <1>31, ApprovalKept DEF Abort, process, channels, history,
     AfterApproval, Nodes
<1>32. CASE UNCHANGED vars
  BY <1>0, <1>32, ApprovalKept DEF vars, process, channels, history,
     AfterApproval, Nodes
<1> QED
  BY <1>1, <1>2, <1>3, <1>4, <1>5, <1>6, <1>7, <1>8, <1>9, <1>10, <1>11,
     <1>12, <1>13, <1>14, <1>15, <1>16, <1>17, <1>18, <1>19, <1>20, <1>21,
     <1>22, <1>23, <1>24, <1>25, <1>26, <1>27, <1>28, <1>29, <1>30, <1>31,
     <1>32 DEF Next, System, Human, Finished, Research

\* Research never runs on a grid with two or more cells that the human has not
\* seen, however many re-plans passed without asking.
THEOREM UnseenBounded == Spec => []UnseenCellsBounded
<1>1. Spec => []ApprovalInv
  BY TypeCorrect, ApprovalInit, ApprovalStep, PTL DEF Spec
<1>2. TypeOK /\ ApprovalInv => UnseenCellsBounded
  <2> SUFFICES ASSUME TypeOK, ApprovalInv, ~assume, pc \in AfterApproval
               PROVE  Cardinality(grid \ shown) < H7MajorDelta
    BY DEF UnseenCellsBounded
  <2>1. IsFiniteSet(grid)
    BY LoopAssumption, FS_Subset DEF TypeOK
  <2>2. shown \in SUBSET grid /\ approvedN = Cardinality(shown)
        /\ Cardinality(grid) - approvedN < H7MajorDelta
    BY DEF ApprovalInv
  <2>3. Cardinality(grid \ shown) = Cardinality(grid) - Cardinality(grid \cap shown)
    BY <2>1, FS_Difference
  <2>4. grid \cap shown = shown
    BY <2>2
  <2> QED
    BY <2>2, <2>3, <2>4
<1> QED
  BY <1>1, <1>2, TypeCorrect, PTL
-----------------------------------------------------------------------------
(* The recursion limit of run_loop.                                         *)

\* The steps a round takes by its longest way, fourteen of them, are counted
\* from its head; the scoring closes the count of one round and opens that of
\* the next, so the nodes behind it stand before the head.
Offset ==
    [n \in Nodes |->
        CASE n = "intake"            -> -4
          [] n = "scope"             -> -3
          [] n = "clarify"           -> -2
          [] n = "write_brief"       -> -1
          [] n = "orchestrator_plan" -> 0
          [] n = "plan_audit"        -> 1
          [] n \in {"plan_approval", "issue_expansion", "human_push"} -> 2
          [] n = "supervisor"        -> 3
          [] n = "research_fanout"   -> 4
          [] n = "collect"           -> 5
          [] n = "skeptic"           -> 6
          [] n = "albert_audit"      -> 7
          [] n = "artifact_update"   -> 8
          [] n = "readiness_scoring" -> 9
          [] n = "anti_premature"    -> -4
          [] n = "cos_decision"      -> -3
          [] n = "deep_audit"        -> -2
          [] n = "human_pull"        -> -1
          [] n = "human_review"      -> 0]

StepsInv ==
    driver = "run_loop" =>
        /\ pc # "aborted"
        /\ pc \in Nodes => steps <= 5 + 14 * iter + Offset[pc]

LEMMA OffsetType == \A n \in Nodes : Offset[n] \in -4..9
<1> SUFFICES ASSUME NEW n \in Nodes PROVE Offset[n] \in -4..9
  OBVIOUS
<1>1. n \in {"intake", "scope", "clarify", "write_brief",
             "orchestrator_plan", "plan_audit", "plan_approval"} \/
      n \in {"issue_expansion", "supervisor", "research_fanout", "collect",
             "skeptic", "albert_audit", "artifact_update"} \/
      n \in {"readiness_scoring", "anti_premature", "cos_decision",
             "deep_audit", "human_pull", "human_push", "human_review"}
  BY DEF Nodes
<1> QED
  BY <1>1 DEF Offset

LEMMA StepsInit == Init => StepsInv
<1> SUFFICES ASSUME Init
             PROVE  /\ steps = 1 /\ iter = 0 /\ pc = "intake"
                    /\ Offset["intake"] = -4
  BY DEF StepsInv
<1> QED
  BY DEF Init, Offset, Nodes

\* A super-step inside a round to a node whose offset is larger by one.
LEMMA StepsForward ==
    ASSUME StepsInv, TypeOK, NEW m \in Nodes, NEW n \in Nodes,
           Ready(m), Goto(n), UNCHANGED <<driver, iter>>,
           Offset[m] + 1 <= Offset[n]
    PROVE  StepsInv'
<1>1. steps \in Int /\ iter \in Int /\ Offset[m] \in Int /\ Offset[n] \in Int
  BY OffsetType DEF TypeOK, ControlType, ScoredType
<1>2. pc = m /\ pc' = n /\ steps' = steps + 1 /\ iter' = iter
  BY DEF Ready, Goto
<1>3. SUFFICES ASSUME driver = "run_loop"
               PROVE  pc' # "aborted" /\ steps' <= 5 + 14 * iter' + Offset[n]
  BY <1>2 DEF StepsInv
<1>4. steps <= 5 + 14 * iter + Offset[m]
  BY <1>2, <1>3 DEF StepsInv
<1>5. pc' # "aborted"
  BY <1>2 DEF Nodes
<1> QED
  BY <1>1, <1>2, <1>4, <1>5

LEMMA StepsStep == TypeOK /\ RoundInv /\ StepsInv /\ [Next]_vars => StepsInv'
<1> SUFFICES ASSUME TypeOK, RoundInv, StepsInv, [Next]_vars PROVE StepsInv'
  OBVIOUS
<1>0. TypeOK /\ StepsInv
  OBVIOUS
<1>1. CASE Intake
  <2>1. "intake" \in Nodes /\ "scope" \in Nodes
        /\ Offset["intake"] + 1 <= Offset["scope"]
    BY DEF Nodes, Offset
  <2>2. Ready("intake") /\ Goto("scope") /\ UNCHANGED <<driver, iter>>
    BY <1>1 DEF Intake, process, scored
  <2> QED
    BY <1>0, <2>1, <2>2, StepsForward
<1>2. CASE Scope
  <2>1. "scope" \in Nodes /\ "clarify" \in Nodes
        /\ Offset["scope"] + 1 <= Offset["clarify"]
    BY DEF Nodes, Offset
  <2>2. Ready("scope") /\ Goto("clarify") /\ UNCHANGED <<driver, iter>>
    BY <1>2 DEF Scope, process, scored
  <2> QED
    BY <1>0, <2>1, <2>2, StepsForward
<1>3. CASE ClarifyPass
  <2>1. "clarify" \in Nodes /\ "write_brief" \in Nodes
        /\ Offset["clarify"] + 1 <= Offset["write_brief"]
    BY DEF Nodes, Offset
  <2>2. Ready("clarify") /\ Goto("write_brief") /\ UNCHANGED <<driver, iter>>
    BY <1>3 DEF ClarifyPass, process, scored
  <2> QED
    BY <1>0, <2>1, <2>2, StepsForward
<1>4. CASE ClarifyAsk
  BY <1>0, <1>4 DEF ClarifyAsk, Interrupt, process, scored, StepsInv
<1>5. CASE ClarifyAnswered
  BY <1>5 DEF ClarifyAnswered, Answering, process, StepsInv
<1>6. CASE WriteBrief
  <2>1. "write_brief" \in Nodes /\ "orchestrator_plan" \in Nodes
        /\ Offset["write_brief"] + 1 <= Offset["orchestrator_plan"]
    BY DEF Nodes, Offset
  <2>2. Ready("write_brief") /\ Goto("orchestrator_plan") /\ UNCHANGED <<driver, iter>>
    BY <1>6 DEF WriteBrief, process, scored
  <2> QED
    BY <1>0, <2>1, <2>2, StepsForward
<1>7. CASE OrchestratorPlan
  <2>1. "orchestrator_plan" \in Nodes /\ "plan_audit" \in Nodes
        /\ Offset["orchestrator_plan"] + 1 <= Offset["plan_audit"]
    BY DEF Nodes, Offset
  <2>2. Ready("orchestrator_plan") /\ Goto("plan_audit") /\ UNCHANGED <<driver, iter>>
    BY <1>7 DEF OrchestratorPlan, process, scored
  <2> QED
    BY <1>0, <2>1, <2>2, StepsForward
<1>8. CASE PlanAuditSkip
  <2>1. "plan_audit" \in Nodes /\ "plan_approval" \in Nodes
        /\ Offset["plan_audit"] + 1 <= Offset["plan_approval"]
    BY DEF Nodes, Offset
  <2>2. Ready("plan_audit") /\ Goto("plan_approval") /\ UNCHANGED <<driver, iter>>
    BY <1>8 DEF PlanAuditSkip, process, scored
  <2> QED
    BY <1>0, <2>1, <2>2, StepsForward
<1>9. CASE PlanAudit
  <2>1. "plan_audit" \in Nodes /\ "plan_approval" \in Nodes
        /\ Offset["plan_audit"] + 1 <= Offset["plan_approval"]
    BY DEF Nodes, Offset
  <2>2. Ready("plan_audit") /\ Goto("plan_approval") /\ UNCHANGED <<driver, iter>>
    BY <1>9 DEF PlanAudit, process, scored
  <2> QED
    BY <1>0, <2>1, <2>2, StepsForward
<1>10. CASE PlanApprovalPass
  <2>1. "plan_approval" \in Nodes /\ "supervisor" \in Nodes
        /\ Offset["plan_approval"] + 1 <= Offset["supervisor"]
    BY DEF Nodes, Offset
  <2>2. Ready("plan_approval") /\ Goto("supervisor") /\ UNCHANGED <<driver, iter>>
    BY <1>10 DEF PlanApprovalPass, process, scored
  <2> QED
    BY <1>0, <2>1, <2>2, StepsForward
<1>11. CASE PlanApprovalAsk
  BY <1>0, <1>11 DEF PlanApprovalAsk, Interrupt, process, scored, StepsInv
<1>12. CASE PlanApprovalAnswered
  BY <1>12 DEF PlanApprovalAnswered, Answering, process, StepsInv
<1>13. CASE IssueExpansion
  <2>1. "issue_expansion" \in Nodes /\ "supervisor" \in Nodes
        /\ Offset["issue_expansion"] + 1 <= Offset["supervisor"]
    BY DEF Nodes, Offset
  <2>2. Ready("issue_expansion") /\ Goto("supervisor") /\ UNCHANGED <<driver, iter>>
    BY <1>13 DEF IssueExpansion, process, scored
  <2> QED
    BY <1>0, <2>1, <2>2, StepsForward
<1>14. CASE Supervisor
  <2>1. "supervisor" \in Nodes /\ "research_fanout" \in Nodes
        /\ Offset["supervisor"] + 1 <= Offset["research_fanout"]
    BY DEF Nodes, Offset
  <2>2. Ready("supervisor") /\ Goto("research_fanout") /\ UNCHANGED <<driver, iter>>
    BY <1>14 DEF Supervisor, process, scored
  <2> QED
    BY <1>0, <2>1, <2>2, StepsForward
<1>15. CASE ResearchFanout
  <2>1. "research_fanout" \in Nodes /\ "collect" \in Nodes
        /\ Offset["research_fanout"] + 1 <= Offset["collect"]
    BY DEF Nodes, Offset
  <2>2. Ready("research_fanout") /\ Goto("collect") /\ UNCHANGED <<driver, iter>>
    BY <1>15 DEF ResearchFanout, process, scored
  <2> QED
    BY <1>0, <2>1, <2>2, StepsForward
<1>16. CASE Collect
  <2>1. "collect" \in Nodes /\ "skeptic" \in Nodes
        /\ Offset["collect"] + 1 <= Offset["skeptic"]
    BY DEF Nodes, Offset
  <2>2. Ready("collect") /\ Goto("skeptic") /\ UNCHANGED <<driver, iter>>
    BY <1>16 DEF Collect, process, scored
  <2> QED
    BY <1>0, <2>1, <2>2, StepsForward
<1>17. CASE Skeptic
  <2>1. "skeptic" \in Nodes /\ "albert_audit" \in Nodes
        /\ Offset["skeptic"] + 1 <= Offset["albert_audit"]
    BY DEF Nodes, Offset
  <2>2. Ready("skeptic") /\ Goto("albert_audit") /\ UNCHANGED <<driver, iter>>
    BY <1>17 DEF Skeptic, process, scored
  <2> QED
    BY <1>0, <2>1, <2>2, StepsForward
<1>18. CASE AlbertAudit
  <2>1. "albert_audit" \in Nodes /\ "artifact_update" \in Nodes
        /\ Offset["albert_audit"] + 1 <= Offset["artifact_update"]
    BY DEF Nodes, Offset
  <2>2. Ready("albert_audit") /\ Goto("artifact_update") /\ UNCHANGED <<driver, iter>>
    BY <1>18 DEF AlbertAudit, process, scored
  <2> QED
    BY <1>0, <2>1, <2>2, StepsForward
<1>19. CASE ArtifactUpdate
  <2>1. "artifact_update" \in Nodes /\ "readiness_scoring" \in Nodes
        /\ Offset["artifact_update"] + 1 <= Offset["readiness_scoring"]
    BY DEF Nodes, Offset
  <2>2. Ready("artifact_update") /\ Goto("readiness_scoring") /\ UNCHANGED <<driver, iter>>
    BY <1>19 DEF ArtifactUpdate, process, scored
  <2> QED
    BY <1>0, <2>1, <2>2, StepsForward
<1>20. CASE ReadinessScoring
  <2>1. pc = "readiness_scoring" /\ pc' = "anti_premature"
        /\ steps' = steps + 1 /\ iter' = iter + 1 /\ driver' = driver
    BY <1>20 DEF ReadinessScoring, Ready, Goto, process
  <2>2. steps \in Int /\ iter \in Int
    BY DEF TypeOK, ControlType, ScoredType
  <2>3. Offset["readiness_scoring"] = 9 /\ Offset["anti_premature"] = -4
        /\ "readiness_scoring" \in Nodes
    BY DEF Offset, Nodes
  <2>4. driver = "run_loop" => steps <= 5 + 14 * iter + 9
    BY <1>0, <2>1, <2>3 DEF StepsInv
  <2>5. driver' = "run_loop" => steps' <= 5 + 14 * iter' + (-4)
    BY <2>1, <2>2, <2>4
  <2> QED
    BY <2>1, <2>3, <2>5 DEF StepsInv
<1>21. CASE AntiPremature
  <2>1. "anti_premature" \in Nodes /\ "cos_decision" \in Nodes
        /\ Offset["anti_premature"] + 1 <= Offset["cos_decision"]
    BY DEF Nodes, Offset
  <2>2. Ready("anti_premature") /\ Goto("cos_decision") /\ UNCHANGED <<driver, iter>>
    BY <1>21 DEF AntiPremature, process, scored
  <2> QED
    BY <1>0, <2>1, <2>2, StepsForward
<1>22. CASE CosDecision
  <2>1. PICK n \in Nodes : Goto(n) /\ n \in {"deep_audit", "human_pull",
            "human_push", "issue_expansion", "orchestrator_plan"}
    BY <1>22 DEF CosDecision, Route, Nodes
  <2>2. "cos_decision" \in Nodes /\ Offset["cos_decision"] + 1 <= Offset[n]
    BY <2>1 DEF Nodes, Offset
  <2>3. Ready("cos_decision") /\ UNCHANGED <<driver, iter>>
    BY <1>22 DEF CosDecision, process, scored
  <2> QED
    BY <1>0, <2>1, <2>2, <2>3, StepsForward
<1>23. CASE DeepAudit
  <2>1. PICK n \in Nodes : Goto(n) /\ n \in {"human_pull", "human_review"}
    BY <1>23 DEF DeepAudit, Nodes
  <2>2. "deep_audit" \in Nodes /\ Offset["deep_audit"] + 1 <= Offset[n]
    BY <2>1 DEF Nodes, Offset
  <2>3. Ready("deep_audit") /\ UNCHANGED <<driver, iter>>
    BY <1>23 DEF DeepAudit, process, scored
  <2> QED
    BY <1>0, <2>1, <2>2, <2>3, StepsForward
<1>24. CASE HumanPullDefault
  <2>1. PICK n \in Nodes : Goto(n) /\ n \in {"human_review", "orchestrator_plan"}
    BY <1>24 DEF HumanPullDefault, AfterPull, Nodes
  <2>2. "human_pull" \in Nodes /\ Offset["human_pull"] + 1 <= Offset[n]
    BY <2>1 DEF Nodes, Offset
  <2>3. Ready("human_pull") /\ UNCHANGED <<driver, iter>>
    BY <1>24 DEF HumanPullDefault, process, scored
  <2> QED
    BY <1>0, <2>1, <2>2, <2>3, StepsForward
<1>25. CASE HumanPullAsk
  BY <1>0, <1>25 DEF HumanPullAsk, Interrupt, process, scored, StepsInv
<1>26. CASE HumanPullAnswered
  BY <1>26 DEF HumanPullAnswered, Answering, process, StepsInv
<1>27. CASE HumanPush
  <2>1. "human_push" \in Nodes /\ "supervisor" \in Nodes
        /\ Offset["human_push"] + 1 <= Offset["supervisor"]
    BY DEF Nodes, Offset
  <2>2. Ready("human_push") /\ Goto("supervisor") /\ UNCHANGED <<driver, iter>>
    BY <1>27 DEF HumanPush, process, scored
  <2> QED
    BY <1>0, <2>1, <2>2, StepsForward
<1>28. CASE HumanReviewPass
  BY <1>28 DEF HumanReviewPass, Goto, StepsInv, Nodes
<1>29. CASE HumanReviewAsk
  BY <1>0, <1>29 DEF HumanReviewAsk, Interrupt, process, scored, StepsInv
<1>30. CASE HumanReviewAnswered
  BY <1>30 DEF HumanReviewAnswered, Answering, process, StepsInv
<1>31. CASE Abort
  <2>1. SUFFICES ASSUME driver = "run_loop" PROVE FALSE
    BY <1>31 DEF Abort, process, StepsInv, Nodes
  <2>2. steps <= 5 + 14 * iter + Offset[pc]
    BY <2>1, <1>31 DEF Abort, StepsInv
  <2>3. Offset[pc] \in Int /\ Offset[pc] <= 9
    BY <1>31, OffsetType DEF Abort
  <2>4. steps >= 50 + 20 * RoundLimit
    BY <2>1, <1>31 DEF Abort, RecursionLimit, RoundLimit
  <2>5. iter <= RoundLimit /\ RoundLimit \in Nat
    BY RoundLimitType DEF RoundInv
  <2>6. steps \in Int /\ iter \in Int
    BY DEF TypeOK, ControlType, ScoredType
  <2> QED
    BY <2>2, <2>3, <2>4, <2>5, <2>6
<1>32. CASE UNCHANGED vars
  BY <1>0, <1>32 DEF vars, process, scored, StepsInv
<1> QED
  BY <1>1, <1>2, <1>3, <1>4, <1>5, <1>6, <1>7, <1>8, <1>9, <1>10, <1>11,
     <1>12, <1>13, <1>14, <1>15, <1>16, <1>17, <1>18, <1>19, <1>20, <1>21,
     <1>22, <1>23, <1>24, <1>25, <1>26, <1>27, <1>28, <1>29, <1>30, <1>31,
     <1>32 DEF Next, System, Human, Finished, Research

\* run_loop's recursion_limit is above the steps its rounds can take, for every
\* number of rounds and by every detour.
THEOREM LoopNeverCutOff == Spec => []NeverCutOff
<1>1. Spec => []RoundInv
  BY TypeCorrect, RoundInit, RoundStep, PTL DEF Spec
<1>2. Spec => []StepsInv
  BY <1>1, TypeCorrect, StepsInit, StepsStep, PTL DEF Spec
<1>3. StepsInv => NeverCutOff
  BY DEF StepsInv, NeverCutOff
<1> QED
  BY <1>2, <1>3, PTL
-----------------------------------------------------------------------------
(* Stopping.                                                                *)

\* The broad expansion is recorded by a node that only a decision to branch
\* leads to, and a stalled round is never the first one.
EarnedInv ==
    /\ pc = "issue_expansion" => reworked
    /\ "broad_expansion" \in prereqs => reworked
    /\ stalls = 0 \/ stalls < iter

LEMMA EarnedInit == Init => EarnedInv
BY DEF Init, EarnedInv

\* A step that neither scores nor leads to the expansion.
LEMMA EarnedKept ==
    ASSUME EarnedInv, UNCHANGED <<stalls, iter>>,
           "broad_expansion" \in prereqs' => "broad_expansion" \in prereqs,
           reworked => reworked', pc' # "issue_expansion"
    PROVE  EarnedInv'
BY DEF EarnedInv

LEMMA EarnedStep == TypeOK /\ EarnedInv /\ [Next]_vars => EarnedInv'
<1> SUFFICES ASSUME TypeOK, EarnedInv, [Next]_vars PROVE EarnedInv'
  OBVIOUS
<1>0. EarnedInv
  OBVIOUS
<1>1. CASE Intake
  BY <1>0, <1>1, EarnedKept DEF Intake, Ready, Goto, channels, scored,
     history
<1>2. CASE Scope
  BY <1>0, <1>2, EarnedKept DEF Scope, Ready, Goto, channels, scored, history
<1>3. CASE ClarifyPass
  BY <1>0, <1>3, EarnedKept DEF ClarifyPass, Ready, Goto, channels, scored,
     history
<1>4. CASE ClarifyAsk
  BY <1>0, <1>4, EarnedKept DEF ClarifyAsk, Ready, Interrupt, channels,
     scored, history
<1>5. CASE ClarifyAnswered
  BY <1>0, <1>5, EarnedKept DEF ClarifyAnswered, Answering, Resume, channels,
     scored, history
<1>6. CASE WriteBrief
  BY <1>0, <1>6, EarnedKept DEF WriteBrief, Ready, Goto, channels, scored,
     history
<1>7. CASE OrchestratorPlan
  BY <1>0, <1>7, EarnedKept DEF OrchestratorPlan, Ready, Goto, channels,
     scored, history
<1>8. CASE PlanAuditSkip
  BY <1>0, <1>8, EarnedKept DEF PlanAuditSkip, Ready, Goto, channels, scored,
     history
<1>9. CASE PlanAudit
  BY <1>0, <1>9, EarnedKept DEF PlanAudit, Ready, Goto, channels, scored,
     history
<1>10. CASE PlanApprovalPass
  BY <1>0, <1>10, EarnedKept DEF PlanApprovalPass, Ready, Goto, channels,
     scored, history
<1>11. CASE PlanApprovalAsk
  BY <1>0, <1>11, EarnedKept DEF PlanApprovalAsk, Ready, Interrupt, channels,
     scored, history
<1>12. CASE PlanApprovalAnswered
  BY <1>0, <1>12, EarnedKept DEF PlanApprovalAnswered, Answering, Resume,
     channels, scored, history
<1>13. CASE IssueExpansion
  <2>1. reworked /\ reworked' = reworked
    BY <1>0, <1>13 DEF IssueExpansion, Ready, EarnedInv, history
  <2>2. UNCHANGED <<stalls, iter>>
    BY <1>13 DEF IssueExpansion, scored
  <2> QED
    BY <1>0, <2>1, <2>2 DEF EarnedInv
<1>14. CASE Supervisor
  BY <1>0, <1>14, EarnedKept DEF Supervisor, Ready, Goto, channels, scored,
     history
<1>15. CASE ResearchFanout
  BY <1>0, <1>15, EarnedKept DEF ResearchFanout, Ready, Goto, channels,
     scored, history
<1>16. CASE Collect
  BY <1>0, <1>16, EarnedKept DEF Collect, Ready, Goto, channels, scored,
     history
<1>17. CASE Skeptic
  BY <1>0, <1>17, EarnedKept DEF Skeptic, Ready, Goto, channels, scored,
     history
<1>18. CASE AlbertAudit
  BY <1>0, <1>18, EarnedKept DEF AlbertAudit, Ready, Goto, channels, scored,
     history
<1>19. CASE ArtifactUpdate
  BY <1>0, <1>19, EarnedKept DEF ArtifactUpdate, Ready, Goto, channels,
     scored, history
<1>20. CASE ReadinessScoring
  <2>1. /\ pc' = "anti_premature"
        /\ prereqs' = prereqs /\ reworked' = reworked
    BY <1>20 DEF ReadinessScoring, Goto, channels, history
  <2>2. stalls \in Int /\ iter \in Nat
    BY DEF TypeOK, ScoredType, PlateauWindow
  <2>3. stalls' = 0 \/ stalls' < iter'
    BY <1>0, <1>20, <2>2 DEF ReadinessScoring, EarnedInv
  <2> QED
    BY <1>0, <2>1, <2>3 DEF EarnedInv
<1>21. CASE AntiPremature
  BY <1>0, <1>21, EarnedKept DEF AntiPremature, Ready, Goto, channels,
     scored, history
<1>22. CASE CosDecision
  <2>1. UNCHANGED <<stalls, iter, prereqs>>
    BY <1>22 DEF CosDecision, scored
  <2>2. reworked' = (reworked \/ Decide = "branch")
    BY <1>22 DEF CosDecision
  <2>3. pc' = "issue_expansion" => Decide = "branch"
    BY <1>22 DEF CosDecision, Goto, Route
  <2> QED
    BY <1>0, <2>1, <2>2, <2>3 DEF EarnedInv
<1>23. CASE DeepAudit
  BY <1>0, <1>23, EarnedKept DEF DeepAudit, Ready, Goto, channels, scored,
     history
<1>24. CASE HumanPullDefault
  BY <1>0, <1>24, EarnedKept DEF HumanPullDefault, Ready, Goto, AfterPull,
     channels, scored, history
<1>25. CASE HumanPullAsk
  BY <1>0, <1>25, EarnedKept DEF HumanPullAsk, Ready, Interrupt, channels,
     scored, history
<1>26. CASE HumanPullAnswered
  BY <1>0, <1>26, EarnedKept DEF HumanPullAnswered, Answering, Resume,
     AfterPull, channels, scored, history
<1>27. CASE HumanPush
  BY <1>0, <1>27, EarnedKept DEF HumanPush, Ready, Goto, channels, scored,
     history
<1>28. CASE HumanReviewPass
  BY <1>0, <1>28, EarnedKept DEF HumanReviewPass, Ready, Goto, channels,
     scored, history
<1>29. CASE HumanReviewAsk
  BY <1>0, <1>29, EarnedKept DEF HumanReviewAsk, Ready, Interrupt, channels,
     scored, history
<1>30. CASE HumanReviewAnswered
  BY <1>0, <1>30, EarnedKept DEF HumanReviewAnswered, Answering, Resume,
     channels, scored, history
<1>31. CASE Abort
  BY <1>0, <1>31, EarnedKept DEF Abort, channels, scored, history
<1>32. CASE UNCHANGED vars
  BY <1>0, <1>32 DEF vars, channels, scored, history, EarnedInv
<1> QED
  BY <1>1, <1>2, <1>3, <1>4, <1>5, <1>6, <1>7, <1>8, <1>9, <1>10, <1>11,
     <1>12, <1>13, <1>14, <1>15, <1>16, <1>17, <1>18, <1>19, <1>20, <1>21,
     <1>22, <1>23, <1>24, <1>25, <1>26, <1>27, <1>28, <1>29, <1>30, <1>31,
     <1>32 DEF Next, System, Human, Finished, Research

\* Only the decision leads from cos_decision to deep_audit.
LEMMA SoftStopDecides == [Next]_vars /\ SoftStop => CosDecision
<1> SUFFICES ASSUME [Next]_vars, pc = "cos_decision", pc' = "deep_audit"
             PROVE  CosDecision
  BY DEF SoftStop
<1>1. CASE System
  BY <1>1 DEF System, Research, Ready, Goto, Interrupt, Intake, Scope,
     ClarifyPass, ClarifyAsk, WriteBrief, OrchestratorPlan, PlanAuditSkip,
     PlanAudit, PlanApprovalPass, PlanApprovalAsk, IssueExpansion, Supervisor,
     ResearchFanout, Collect, Skeptic, AlbertAudit, ArtifactUpdate,
     ReadinessScoring, AntiPremature, DeepAudit, HumanPullDefault,
     HumanPullAsk, HumanPush, HumanReviewPass, HumanReviewAsk, Abort
<1>2. CASE Human
  BY <1>2 DEF Human, Answering, ClarifyAnswered, PlanApprovalAnswered,
     HumanPullAnswered, HumanReviewAnswered
<1>3. CASE UNCHANGED vars
  BY <1>3 DEF vars
<1> QED
  BY <1>1, <1>2, <1>3 DEF Next, Finished

\* A soft decision has passed every earlier stage of Decide and the gate.
LEMMA SoftDecision ==
    ASSUME Decide \in Soft
    PROVE  /\ audit.verdict \notin {"none", "rework"} /\ ~audit.degraded
           /\ ~blocking /\ prereqs = Prereqs
           /\ \/ TerminalEligible
              \/ audit.rec = "synthesize" \/ stalls >= PlateauWindow
BY DEF Decide, Gated, Soft

\* The loop stops of itself only after a rework, with all prerequisites met, on
\* a genuine audit, nothing of high impact disputed or left open, and research
\* saturated, stalled or closed by the auditor.
THEOREM StopsEarned == Spec => SoftStopEarned
<1> DEFINE Earned ==
      /\ reworked /\ prereqs = Prereqs
      /\ audit.verdict \in {"continue", "exhausted"} /\ ~audit.degraded
      /\ ~blocking /\ grid \cap HighCells = {}
      /\ \/ AddressableIssues = {} /\ targetsMet
         \/ audit.rec = "synthesize"
         \/ iter > PlateauWindow
<1>1. TypeOK /\ EarnedInv /\ [Next]_vars => [SoftStop => Earned]_vars
  <2> SUFFICES ASSUME TypeOK, EarnedInv, [Next]_vars, SoftStop
               PROVE  Earned
    OBVIOUS
  <2>1. CosDecision
    BY SoftStopDecides
  <2>2. Decide \in Soft /\ pc' = Route(Decide, FALSE) /\ iter < MaxIterations
    BY <2>1 DEF SoftStop, CosDecision, Goto, Route
  <2>3. /\ audit.verdict \notin {"none", "rework"} /\ ~audit.degraded
        /\ ~blocking /\ prereqs = Prereqs
        /\ \/ TerminalEligible
           \/ audit.rec = "synthesize" \/ stalls >= PlateauWindow
    BY <2>2, SoftDecision
  <2>4. audit.verdict \in {"continue", "exhausted"}
    BY <2>3 DEF TypeOK, AuditedType, Audit, Verdicts
  <2>5. reworked
    BY <2>3 DEF EarnedInv, Prereqs
  <2>6. grid \cap HighCells = {}
    <3>1. pc' = "deep_audit"
      BY DEF SoftStop
    <3>2. iter \in Nat /\ MaxIterations \in Nat
      BY RoundLimitType DEF TypeOK, ScoredType
    <3> QED
      BY <2>2, <3>1, <3>2 DEF Route, OpenHighCells, Soft
  <2>7. stalls >= PlateauWindow => iter > PlateauWindow
    BY DEF TypeOK, ScoredType, EarnedInv, PlateauWindow
  <2> QED
    BY <2>3, <2>4, <2>5, <2>6, <2>7 DEF TerminalEligible
<1>2. Spec => []EarnedInv
  BY TypeCorrect, EarnedInit, EarnedStep, PTL DEF Spec
<1>3. Spec => [][SoftStop => Earned]_vars
  BY <1>1, <1>2, TypeCorrect, PTL DEF Spec
<1> QED
  BY <1>3 DEF SoftStopEarned
=============================================================================
