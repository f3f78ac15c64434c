----------------------- MODULE ResearchLoopRefinement -----------------------
(***************************************************************************)
(* ResearchLoop implements RunLifecycle, for every value of the constants. *)
(***************************************************************************)
EXTENDS ResearchLoopSafety

\* What the mapping needs to know of the state.
LoopInv == TypeOK /\ RoundInv /\ CapInv

LEMMA LoopInvariant == Spec => []LoopInv
<1>1. Spec => []TypeOK
  BY TypeCorrect
<1>2. Spec => []RoundInv
  BY TypeCorrect, RoundInit, RoundStep, PTL DEF Spec
<1>3. Spec => []CapInv
  BY CapInit, CapStep, PTL DEF Spec
<1> QED
  BY <1>1, <1>2, <1>3, PTL DEF LoopInv

LEMMA InitMaps == Init => Lifecycle!Init
<1> SUFFICES ASSUME Init PROVE Lifecycle!Init
  OBVIOUS
<1>1. Stage = "preparing"
  BY DEF Init, Stage, ResearchNodes
<1>2. iter = 0 /\ paused = FALSE /\ cap # "hit" /\ memo = "none"
  BY DEF Init
<1>3. (cap = "hit") = FALSE /\ (memo # "none") = FALSE
  BY <1>2
<1> QED
  BY <1>1, <1>2, <1>3 DEF Lifecycle!Init

\* A step the abstract run does not see.
LEMMA Stutters ==
    ASSUME Stage' = Stage, UNCHANGED <<iter, paused, cap, memo>>
    PROVE  UNCHANGED Lifecycle!vars
BY DEF Lifecycle!vars

LEMMA StepMaps == LoopInv /\ [Next]_vars => [Lifecycle!Next]_Lifecycle!vars
<1> SUFFICES ASSUME LoopInv, [Next]_vars
             PROVE  Lifecycle!Next \/ UNCHANGED Lifecycle!vars
  OBVIOUS
<1>0. /\ iter \in Nat /\ paused \in BOOLEAN
      /\ pc \in RoundNodes => iter < RoundLimit
      /\ CapInv
  BY DEF LoopInv, TypeOK, ControlType, ScoredType, RoundInv
<1>1. CASE Intake
  <2>1. Stage' = Stage
    BY <1>1 DEF Intake, Ready, Goto, Stage, ResearchNodes
  <2>2. UNCHANGED <<iter, paused, cap, memo>>
    BY <1>0, <1>1 DEF Intake, Ready, Goto, scored, output
  <2> QED
    BY <2>1, <2>2, Stutters
<1>2. CASE Scope
  <2>1. Stage' = Stage
    BY <1>2 DEF Scope, Ready, Goto, Stage, ResearchNodes
  <2>2. UNCHANGED <<iter, paused, cap, memo>>
    BY <1>0, <1>2 DEF Scope, Ready, Goto, scored, output
  <2> QED
    BY <2>1, <2>2, Stutters
<1>3. CASE ClarifyPass
  <2>1. Stage' = Stage
    BY <1>3 DEF ClarifyPass, Ready, Goto, Stage, ResearchNodes
  <2>2. UNCHANGED <<iter, paused, cap, memo>>
    BY <1>0, <1>3 DEF ClarifyPass, Ready, Goto, scored, output
  <2> QED
    BY <2>1, <2>2, Stutters
<1>4. CASE ClarifyAsk
  <2>1. Stage = "preparing" /\ Stage' = Stage
    BY <1>4 DEF ClarifyAsk, Ready, Interrupt, Stage, ResearchNodes
  <2>2. ~paused /\ paused' = TRUE /\ UNCHANGED <<iter, cap, memo>>
    BY <1>4 DEF ClarifyAsk, Ready, Interrupt, scored, output
  <2>3. Lifecycle!Ask
    BY <2>1, <2>2 DEF Lifecycle!Ask
  <2> QED
    BY <2>3 DEF Lifecycle!Next
<1>5. CASE ClarifyAnswered
  <2>1. Stage = "preparing" /\ Stage' = "preparing"
    BY <1>5 DEF ClarifyAnswered, Answering, Resume, Stage, ResearchNodes
  <2>2. paused /\ paused' = FALSE /\ cap' = "off" /\ UNCHANGED <<iter, memo>>
    BY <1>5 DEF ClarifyAnswered, Answering, Resume, scored, output
  <2>3. Lifecycle!Answer
    BY <2>1, <2>2 DEF Lifecycle!Answer
  <2> QED
    BY <2>3 DEF Lifecycle!Next
<1>6. CASE WriteBrief
  <2>1. Stage = "preparing" /\ Stage' = "research"
    BY <1>6 DEF WriteBrief, Ready, Goto, Stage, ResearchNodes
  <2>2. ~paused /\ UNCHANGED <<iter, paused, cap, memo>>
    BY <1>0, <1>6 DEF WriteBrief, Ready, Goto, scored, output
  <2>3. iter < RoundLimit /\ cap # "hit"
    BY <1>0, <1>6 DEF WriteBrief, Ready, RoundNodes, Nodes, CapInv
  <2>4. Lifecycle!StartRound
    BY <2>1, <2>2, <2>3 DEF Lifecycle!StartRound
  <2> QED
    BY <2>4 DEF Lifecycle!Next
<1>7. CASE OrchestratorPlan
  <2>1. Stage' = Stage
    BY <1>7 DEF OrchestratorPlan, Ready, Goto, Stage, ResearchNodes
  <2>2. UNCHANGED <<iter, paused, cap, memo>>
    BY <1>0, <1>7 DEF OrchestratorPlan, Ready, Goto, scored, output
  <2> QED
    BY <2>1, <2>2, Stutters
<1>8. CASE PlanAuditSkip
  <2>1. Stage' = Stage
    BY <1>8 DEF PlanAuditSkip, Ready, Goto, Stage, ResearchNodes
  <2>2. UNCHANGED <<iter, paused, cap, memo>>
    BY <1>0, <1>8 DEF PlanAuditSkip, Ready, Goto, scored, output
  <2> QED
    BY <2>1, <2>2, Stutters
<1>9. CASE PlanAudit
  <2>1. Stage' = Stage
    BY <1>9 DEF PlanAudit, Ready, Goto, Stage, ResearchNodes
  <2>2. UNCHANGED <<iter, paused, cap, memo>>
    BY <1>0, <1>9 DEF PlanAudit, Ready, Goto, scored, output
  <2> QED
    BY <2>1, <2>2, Stutters
<1>10. CASE PlanApprovalPass
  <2>1. Stage' = Stage
    BY <1>10 DEF PlanApprovalPass, Ready, Goto, Stage, ResearchNodes
  <2>2. UNCHANGED <<iter, paused, cap, memo>>
    BY <1>0, <1>10 DEF PlanApprovalPass, Ready, Goto, scored, output
  <2> QED
    BY <2>1, <2>2, Stutters
<1>11. CASE PlanApprovalAsk
  <2>1. Stage = "research" /\ Stage' = Stage
    BY <1>11 DEF PlanApprovalAsk, Ready, Interrupt, Stage, ResearchNodes
  <2>2. ~paused /\ paused' = TRUE /\ UNCHANGED <<iter, cap, memo>>
    BY <1>11 DEF PlanApprovalAsk, Ready, Interrupt, scored, output
  <2>3. Lifecycle!Ask
    BY <2>1, <2>2 DEF Lifecycle!Ask
  <2> QED
    BY <2>3 DEF Lifecycle!Next
<1>12. CASE PlanApprovalAnswered
  <2>1. Stage = "research" /\ Stage' = "research"
    BY <1>12 DEF PlanApprovalAnswered, Answering, Resume, Stage, ResearchNodes
  <2>2. paused /\ paused' = FALSE /\ cap' = "off" /\ UNCHANGED <<iter, memo>>
    BY <1>12 DEF PlanApprovalAnswered, Answering, Resume, scored, output
  <2>3. Lifecycle!Answer
    BY <2>1, <2>2 DEF Lifecycle!Answer
  <2> QED
    BY <2>3 DEF Lifecycle!Next
<1>13. CASE IssueExpansion
  <2>1. Stage' = Stage
    BY <1>13 DEF IssueExpansion, Ready, Goto, Stage, ResearchNodes
  <2>2. UNCHANGED <<iter, paused, cap, memo>>
    BY <1>0, <1>13 DEF IssueExpansion, Ready, Goto, scored, output
  <2> QED
    BY <2>1, <2>2, Stutters
<1>14. CASE Supervisor
  <2>1. Stage' = Stage
    BY <1>14 DEF Supervisor, Ready, Goto, Stage, ResearchNodes
  <2>2. UNCHANGED <<iter, paused, cap, memo>>
    BY <1>0, <1>14 DEF Supervisor, Ready, Goto, scored, output
  <2> QED
    BY <2>1, <2>2, Stutters
<1>15. CASE ResearchFanout
  <2>1. Stage' = Stage
    BY <1>15 DEF ResearchFanout, Ready, Goto, Stage, ResearchNodes
  <2>2. UNCHANGED <<iter, paused, cap, memo>>
    BY <1>0, <1>15 DEF ResearchFanout, Ready, Goto, scored, output
  <2> QED
    BY <2>1, <2>2, Stutters
<1>16. CASE Collect
  <2>1. Stage' = Stage
    BY <1>16 DEF Collect, Ready, Goto, Stage, ResearchNodes
  <2>2. UNCHANGED <<iter, paused, cap, memo>>
    BY <1>0, <1>16 DEF Collect, Ready, Goto, scored, output
  <2> QED
    BY <2>1, <2>2, Stutters
<1>17. CASE Skeptic
  <2>1. Stage' = Stage
    BY <1>17 DEF Skeptic, Ready, Goto, Stage, ResearchNodes
  <2>2. UNCHANGED <<iter, paused, cap, memo>>
    BY <1>0, <1>17 DEF Skeptic, Ready, Goto, scored, output
  <2> QED
    BY <2>1, <2>2, Stutters
<1>18. CASE AlbertAudit
  <2>1. Stage' = Stage
    BY <1>18 DEF AlbertAudit, Ready, Goto, Stage, ResearchNodes
  <2>2. UNCHANGED <<iter, paused, cap, memo>>
    BY <1>0, <1>18 DEF AlbertAudit, Ready, Goto, scored, output
  <2> QED
    BY <2>1, <2>2, Stutters
<1>19. CASE ArtifactUpdate
  <2>1. Stage' = Stage
    BY <1>19 DEF ArtifactUpdate, Ready, Goto, Stage, ResearchNodes
  <2>2. UNCHANGED <<iter, paused, cap, memo>>
    BY <1>0, <1>19 DEF ArtifactUpdate, Ready, Goto, scored, output
  <2> QED
    BY <2>1, <2>2, Stutters
<1>20. CASE ReadinessScoring
  <2>1. Stage = "research" /\ Stage' = "judging"
    BY <1>20 DEF ReadinessScoring, Ready, Goto, Stage, ResearchNodes
  <2>2. ~paused /\ iter' = iter + 1 /\ UNCHANGED <<paused, cap, memo>>
    BY <1>0, <1>20 DEF ReadinessScoring, Ready, Goto, output
  <2>3. iter < RoundLimit
    BY <1>0, <1>20 DEF ReadinessScoring, Ready, RoundNodes, Nodes
  <2>4. Lifecycle!EndRound
    BY <2>1, <2>2, <2>3 DEF Lifecycle!EndRound
  <2> QED
    BY <2>4 DEF Lifecycle!Next
<1>21. CASE AntiPremature
  <2>1. Stage' = Stage
    BY <1>21 DEF AntiPremature, Ready, Goto, Stage, ResearchNodes
  <2>2. UNCHANGED <<iter, paused, cap, memo>>
    BY <1>0, <1>21 DEF AntiPremature, Ready, Goto, scored, output
  <2> QED
    BY <2>1, <2>2, Stutters
<1>22. CASE CosDecision
  <2>1. Stage = "judging"
    BY <1>22 DEF CosDecision, Ready, Stage, ResearchNodes
  <2>2. ~paused /\ UNCHANGED <<iter, paused, memo>>
    BY <1>0, <1>22 DEF CosDecision, Ready, Goto, scored
  <2>3. pc' \in RoundNodes => cap' # "hit" /\ iter < RoundLimit
    <3>1. Decide \in Decisions /\ (cap' = "hit") \in BOOLEAN
      BY DecideType
    <3>2. pc' = Route(Decide, cap' = "hit")
      BY <1>22 DEF CosDecision, Goto
    <3>3. pc' \in RoundNodes => cap' # "hit" /\ ~(iter >= MaxIterations)
      BY <3>1, <3>2, RouteRound
    <3> QED
      BY <1>0, <3>3, RoundLimitType
  <2>4. CASE pc' \in {"orchestrator_plan", "issue_expansion", "human_push"}
    <3>1. Stage' = "research" /\ pc' \in RoundNodes
      BY <2>4 DEF Stage, ResearchNodes, RoundNodes, Nodes
    <3>2. Lifecycle!StartRound
      BY <2>1, <2>2, <2>3, <3>1 DEF Lifecycle!StartRound
    <3> QED
      BY <3>2 DEF Lifecycle!Next
  <2>5. CASE pc' \in {"deep_audit", "human_pull"}
    <3>1. Stage' = "leaving"
      BY <2>5 DEF Stage, ResearchNodes
    <3>2. cap # "hit"
      BY <1>0, <1>22 DEF CosDecision, Ready, CapInv
    <3>3. Lifecycle!Leave
      BY <2>1, <2>2, <3>1, <3>2 DEF Lifecycle!Leave
    <3> QED
      BY <3>3 DEF Lifecycle!Next
  <2>6. pc' \in {"orchestrator_plan", "issue_expansion", "human_push",
                 "deep_audit", "human_pull"}
    BY <1>22 DEF CosDecision, Goto, Route
  <2> QED
    BY <2>4, <2>5, <2>6
<1>23. CASE DeepAudit
  <2>1. Stage' = Stage
    BY <1>23 DEF DeepAudit, Ready, Goto, Stage, ResearchNodes
  <2>2. UNCHANGED <<iter, paused, cap, memo>>
    BY <1>0, <1>23 DEF DeepAudit, Ready, Goto, scored, output
  <2> QED
    BY <2>1, <2>2, Stutters
<1>24. CASE HumanPullDefault
  <2>1. Stage = "leaving"
    BY <1>24 DEF HumanPullDefault, Ready, Stage, ResearchNodes
  <2>2. ~paused /\ UNCHANGED <<iter, paused, memo>>
    BY <1>0, <1>24 DEF HumanPullDefault, Ready, Goto, scored
  <2>3. CASE pc' = "orchestrator_plan"
    <3>1. cap' # "hit" /\ ~(iter >= MaxIterations)
      BY <2>3, <1>24 DEF HumanPullDefault, Goto, AfterPull
    <3>2. iter < RoundLimit
      BY <1>0, <3>1, RoundLimitType
    <3>3. Stage' = "research"
      BY <2>3 DEF Stage, ResearchNodes
    <3>4. Lifecycle!StartRound
      BY <2>1, <2>2, <3>1, <3>2, <3>3 DEF Lifecycle!StartRound
    <3> QED
      BY <3>4 DEF Lifecycle!Next
  <2>4. CASE pc' = "human_review"
    <3>1. Stage' = Stage
      BY <2>1, <2>4 DEF Stage, ResearchNodes
    <3>2. CASE cap' = cap
      BY <2>2, <3>1, <3>2, Stutters
    <3>3. CASE cap' = "hit"
      <4>1. Lifecycle!NoticeCap
        BY <2>1, <2>2, <3>1, <3>3 DEF Lifecycle!NoticeCap
      <4> QED
        BY <4>1 DEF Lifecycle!Next
    <3>4. cap' = cap \/ cap' = "hit"
      BY <1>24 DEF HumanPullDefault, CapReadings
    <3> QED
      BY <3>2, <3>3, <3>4
  <2>5. pc' \in {"human_review", "orchestrator_plan"}
    BY <1>24 DEF HumanPullDefault, Goto, AfterPull
  <2> QED
    BY <2>3, <2>4, <2>5
<1>25. CASE HumanPullAsk
  <2>1. Stage = "leaving" /\ Stage' = Stage
    BY <1>25 DEF HumanPullAsk, Ready, Interrupt, Stage, ResearchNodes
  <2>2. ~paused /\ paused' = TRUE /\ UNCHANGED <<iter, cap, memo>>
    BY <1>25 DEF HumanPullAsk, Ready, Interrupt, scored, output
  <2>3. Lifecycle!Ask
    BY <2>1, <2>2 DEF Lifecycle!Ask
  <2> QED
    BY <2>3 DEF Lifecycle!Next
<1>26. CASE HumanPullAnswered
  <2>1. Stage = "leaving"
    BY <1>26 DEF HumanPullAnswered, Answering, Stage, ResearchNodes
  <2>2. paused /\ paused' = FALSE /\ cap' = "off" /\ UNCHANGED <<iter, memo>>
    BY <1>26 DEF HumanPullAnswered, Answering, Resume, scored, output
  <2>3. \/ pc' = "human_review"
        \/ pc' = "orchestrator_plan" /\ ~(iter >= MaxIterations)
    BY <1>26 DEF HumanPullAnswered, Resume, AfterPull
  <2>4. \/ Stage' = "leaving"
        \/ Stage' = "research" /\ iter < RoundLimit
    BY <1>0, <2>3, RoundLimitType DEF Stage, ResearchNodes
  <2>5. Lifecycle!Answer
    BY <2>1, <2>2, <2>4 DEF Lifecycle!Answer
  <2> QED
    BY <2>5 DEF Lifecycle!Next
<1>27. CASE HumanPush
  <2>1. Stage' = Stage
    BY <1>27 DEF HumanPush, Ready, Goto, Stage, ResearchNodes
  <2>2. UNCHANGED <<iter, paused, cap, memo>>
    BY <1>0, <1>27 DEF HumanPush, Ready, Goto, scored, output
  <2> QED
    BY <2>1, <2>2, Stutters
<1>28. CASE HumanReviewPass
  <2>1. Stage = "leaving" /\ Stage' = "finished"
    BY <1>28 DEF HumanReviewPass, Ready, Goto, Stage, ResearchNodes
  <2>2. ~paused /\ memo' # "none" /\ UNCHANGED <<iter, paused, cap>>
    BY <1>0, <1>28 DEF HumanReviewPass, BuildMemo, Ready, Goto, scored
  <2>3. Lifecycle!Deliver
    BY <2>1, <2>2 DEF Lifecycle!Deliver
  <2> QED
    BY <2>3 DEF Lifecycle!Next
<1>29. CASE HumanReviewAsk
  <2>1. Stage = "leaving" /\ Stage' = Stage
    BY <1>29 DEF HumanReviewAsk, Ready, Interrupt, Stage, ResearchNodes
  <2>2. ~paused /\ paused' = TRUE /\ UNCHANGED <<iter, cap, memo>>
    BY <1>29 DEF HumanReviewAsk, Ready, Interrupt, scored, output
  <2>3. Lifecycle!Ask
    BY <2>1, <2>2 DEF Lifecycle!Ask
  <2> QED
    BY <2>3 DEF Lifecycle!Next
<1>30. CASE HumanReviewAnswered
  <2>1. Stage = "leaving" /\ Stage' = "finished"
    BY <1>30 DEF HumanReviewAnswered, Answering, Resume, Stage, ResearchNodes
  <2>2. paused /\ paused' = FALSE /\ cap' = "off" /\ iter' = iter
    BY <1>30 DEF HumanReviewAnswered, Answering, Resume, scored
  <2>3. memo' # "none"
    BY <1>30 DEF HumanReviewAnswered, BuildMemo
  <2>4. Lifecycle!Answer
    BY <2>1, <2>2, <2>3 DEF Lifecycle!Answer
  <2> QED
    BY <2>4 DEF Lifecycle!Next
<1>31. CASE Abort
  <2>1. Stage \notin {"finished", "cut"} /\ Stage' = "cut"
    BY <1>31 DEF Abort, Stage, Nodes, ResearchNodes
  <2>2. ~paused /\ UNCHANGED <<iter, paused, cap, memo>>
    BY <1>31 DEF Abort, scored, output
  <2>3. Lifecycle!Cut
    BY <2>1, <2>2 DEF Lifecycle!Cut
  <2> QED
    BY <2>3 DEF Lifecycle!Next
<1>32. CASE UNCHANGED vars
  <2>1. Stage' = Stage /\ UNCHANGED <<iter, paused, cap, memo>>
    BY <1>32 DEF vars, scored, output, Stage
  <2> QED
    BY <2>1, Stutters
<1> QED
  BY <1>1, <1>2, <1>3, <1>4, <1>5, <1>6, <1>7, <1>8, <1>9, <1>10, <1>11,
     <1>12, <1>13, <1>14, <1>15, <1>16, <1>17, <1>18, <1>19, <1>20, <1>21,
     <1>22, <1>23, <1>24, <1>25, <1>26, <1>27, <1>28, <1>29, <1>30, <1>31,
     <1>32 DEF Next, System, Human, Finished, Research

\* The graph of nodes keeps what a run promises: every step of the loop is a
\* step of the abstract run, or one it does not see.
THEOREM Implements == Spec => KeepsLifecycle
<1>1. Spec => []LoopInv
  BY LoopInvariant
<1>2. Init => Lifecycle!Init
  BY InitMaps
<1>3. LoopInv /\ [Next]_vars => [Lifecycle!Next]_Lifecycle!vars
  BY StepMaps
<1> QED
  BY <1>1, <1>2, <1>3, PTL DEF Spec, KeepsLifecycle, Lifecycle!Spec
=============================================================================
