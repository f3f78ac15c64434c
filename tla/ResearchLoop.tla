---------------------------- MODULE ResearchLoop ----------------------------
(***************************************************************************)
(* The research cockpit's control loop: the LangGraph state machine that   *)
(* graph.py assembles, one action per node, each taken together with the   *)
(* conditional edge that leaves it (LangGraph evaluates both in one        *)
(* super-step).                                                            *)
(*                                                                         *)
(* The brains (auditor, orchestrator, researchers, scorer, synthesizer)    *)
(* are language models: every answer they may give is a nondeterministic   *)
(* choice.  Text, prompts and rendering are abstracted away; statuses,     *)
(* counters, gates, routes and pauses are kept.                            *)
(*                                                                         *)
(* Pausing.  interrupt() abandons the node: its changes are lost, because  *)
(* the checkpoint is the one of the previous super-step, and the node is   *)
(* executed again from its first line when the answer arrives.             *)
(***************************************************************************)
EXTENDS Integers, FiniteSets

CONSTANTS
    NumSeeds,          \* issues the expander creates, with ids 1..NumSeeds
    SeedImpact,        \* impact of each of them
    Titles,            \* query keys
    Title,             \* title of each issue
    IntentIssues,      \* issues of type intent
    GatedIssues,       \* issues whose unknowns name the decision criterion
    SeedHasCompetitor, \* the expander already made a competitor issue
    HasPriority,       \* default_research_priority is set
    HasFallback,       \* fallback_behavior_if_human_unavailable is set
    Cells,             \* cells the orchestrator may put in the task grid
    HighCells,         \* those of impact >= 4
    Audits,            \* results an auditor may return
    Challenges,        \* sets of issues that may carry an unresolved challenge
    Drivers,           \* entry points considered
    AssumeBriefs,      \* values of --assume-brief considered
    PinnedAtStart,     \* whether the four clarify criteria are set at the start
    Steers,            \* sets of issues a steer pending at the start may name
    MaxPulls,          \* bound on the request_pull events queued at the start
    MaxIterations,     \* --max-iterations
    CheckpointedLimit, \* recursion_limit of run_auto and of the CLI: 200
    TopK,              \* CN5_COS_MAX_RESEARCH_PER_ITER
    Window             \* MAX_CONCURRENT of the supervisor

Issue      == 1..(NumSeeds + 1)
Competitor == NumSeeds + 1

Verdicts == {"none", "continue", "exhausted", "rework"}
Actions  == {"none", "continue_research", "branch", "rerank", "pull_human",
             "push_human", "synthesize", "pause", "terminal_stop"}

\* AuditResult, reduced to what the control loop reads.  highRisk stands for
\* premature_end_risk or research_drift_risk being high, explained for a
\* rationale that is not empty.
Audit == [verdict: Verdicts, rec: Actions, highRisk: BOOLEAN,
          degraded: BOOLEAN, explained: BOOLEAN]

\* last_audit = None
NoAudit == [verdict |-> "none", rec |-> "none", highRisk |-> FALSE,
            degraded |-> FALSE, explained |-> FALSE]

Drv == {"run_loop", "run_auto", "cos_run"}

ASSUME LoopAssumption ==
    /\ NumSeeds \in Nat
    /\ SeedImpact \in [1..NumSeeds -> 0..5]
    /\ Title \in [Issue -> Titles]
    /\ IntentIssues \subseteq Issue
    /\ GatedIssues \subseteq Issue
    /\ SeedHasCompetitor \in BOOLEAN
    /\ HasPriority \in BOOLEAN
    /\ HasFallback \in BOOLEAN
    /\ IsFiniteSet(Cells)
    /\ HighCells \subseteq Cells
    /\ Audits \subseteq {a \in Audit : a.verdict # "none"}
    /\ Challenges \subseteq SUBSET Issue
    /\ Drivers \subseteq Drv
    /\ AssumeBriefs \subseteq BOOLEAN
    /\ PinnedAtStart \subseteq BOOLEAN
    /\ TRUE \in PinnedAtStart => HasFallback
    /\ Steers \subseteq SUBSET Issue
    /\ MaxPulls \in Nat
    /\ MaxIterations \in Nat
    /\ CheckpointedLimit \in Nat
    /\ TopK \in Nat \ {0}
    /\ Window \in Nat \ {0}

Prereqs == {"broad_expansion", "albert_audit_ran", "counterargument_pass",
            "source_confidence_checked", "pending_questions_extracted",
            "blockers_classified", "explicit_continue_explanation"}

Status == {"absent", "open", "partially_answered", "answered",
           "blocked_by_internal_data"}

Decisions == {"none", "continue_research", "branch", "pull_human",
              "push_human", "synthesize", "terminal_stop"}

Soft == {"synthesize", "terminal_stop"}

Nodes == {"intake", "scope", "clarify", "write_brief", "orchestrator_plan",
          "plan_audit", "plan_approval", "issue_expansion", "supervisor",
          "research_fanout", "collect", "skeptic", "albert_audit",
          "artifact_update", "readiness_scoring", "anti_premature",
          "cos_decision", "deep_audit", "human_pull", "human_push",
          "human_review"}

\* nodes from which a cycle of research still lies ahead
ResearchNodes == {"orchestrator_plan", "plan_audit", "plan_approval",
                  "issue_expansion", "human_push", "supervisor",
                  "research_fanout", "collect", "skeptic", "albert_audit",
                  "artifact_update", "readiness_scoring"}

VARIABLES
    \* the process
    pc,           \* node to execute next, or "end", or "aborted"
    paused,       \* interrupt() is waiting for an answer at pc
    driver,       \* entry point that started the run
    assume,       \* assume_brief
    steps,        \* super-steps taken by the current invocation
    cap,          \* the published cost/wall cap: "off", "armed" or "hit"
    \* GraphState channels
    prereqs, decision, budget, buffer, sig, approvedN,
    \* ResearchState
    pinned, converged, status, impact, steer, researched, evidence, grid,
    audit, challenged, blocking, targetsMet, stalls, iter, pulls, tasks,
    stopReason, memo, notified, review,
    \* the mailbox
    emails,
    \* history, read by no action
    dispatched,   \* times each issue was sent to a researcher
    reworked,     \* the decision to branch was taken at least once
    shown         \* cells the human saw at the last approval he gave

process  == <<driver, assume>>
channels == <<prereqs, decision, budget, buffer, sig, approvedN>>
brief    == <<pinned, converged>>
issues   == <<status, impact, steer, researched, evidence>>
audited  == <<audit, challenged, blocking>>
scored   == <<targetsMet, stalls, iter>>
human    == <<pulls, tasks>>
output   == <<stopReason, memo, notified, review, emails>>
history  == <<dispatched, reworked, shown>>

vars == <<pc, paused, steps, cap, process, channels, brief, issues, grid,
          audited, scored, human, output, history>>

-----------------------------------------------------------------------------
(* The driver: what the entry points put into GraphState, and LangGraph's   *)
(* super-step accounting.                                                   *)

NotApproved == -1

AtLeastOne(n) == IF n = 0 THEN 1 ELSE n

AutoMode == driver = "run_auto"
EnableH6 == driver = "cos_run"

\* Seeded bug: no room for the detours through the gates.
BugRecursionLimit ==
    IF driver = "run_loop" THEN 12 * AtLeastOne(MaxIterations)
    ELSE CheckpointedLimit

\* run_loop computes its recursion_limit, run_auto and the CLI pass a constant.
RecursionLimit ==
    IF driver = "run_loop" THEN 50 + 20 * AtLeastOne(MaxIterations)
    ELSE CheckpointedLimit

Ready(n) == pc = n /\ ~paused /\ steps < RecursionLimit

Goto(n) == pc' = n /\ paused' = FALSE /\ steps' = steps + 1

\* interrupt(): the super-step is abandoned.
Interrupt == paused' = TRUE /\ UNCHANGED <<pc, steps, cap>>

\* cos resume: Command(resume=...) on the checkpoint, in a new process that
\* publishes no cap.  run_loop has no checkpointer, so it cannot be resumed.
Answering(n) == pc = n /\ paused /\ driver # "run_loop"
Resume(n)    == pc' = n /\ paused' = FALSE /\ steps' = 1 /\ cap' = "off"

\* cap_hit_now(): nothing is hit unless a cap is published; once the cost or
\* the elapsed time reaches the cap it stays there.
CapReadings == IF cap = "armed" THEN {"armed", "hit"} ELSE {cap}

Seeded == [i \in Issue |-> IF i = Competitor THEN "absent" ELSE "open"]

\* cos init, cos run, cos run-auto: nothing but the question.
NewRun ==
    /\ status = [i \in Issue |-> "absent"]
    /\ grid = {} /\ sig = {} /\ audit = NoAudit

\* a caller of run_loop or run_auto, or a state.json, that brings the issues
PreparedRun ==
    /\ status = Seeded
    /\ grid = {} /\ sig = {} /\ audit = NoAudit

\* cos run --resume-state on the state.json of a run paused at its first H7:
\* the state brings grid and audit, the thread's checkpoint the signature.
ResumedState ==
    /\ driver = "cos_run"
    /\ status = Seeded
    /\ grid \in SUBSET Cells /\ sig = grid
    /\ audit \in Audits

Init ==
    /\ pc = "intake" /\ paused = FALSE
    /\ driver \in Drivers
    /\ assume \in AssumeBriefs
    /\ steps = 1                            \* START
    /\ cap = IF driver = "cos_run" THEN "off" ELSE "armed"
    /\ prereqs = {} /\ decision = "none"
    /\ budget = [breadth |-> 4, depth |-> 2]
    /\ buffer = [i \in Issue |-> 0]
    /\ approvedN = NotApproved
    /\ pinned \in PinnedAtStart /\ converged = FALSE
    /\ NewRun \/ PreparedRun \/ ResumedState
    /\ impact = [i \in Issue |-> IF i = Competitor THEN 4 ELSE SeedImpact[i]]
    /\ steer \in Steers
    /\ researched = {} /\ evidence = [i \in Issue |-> 0]
    /\ challenged = {} /\ blocking = FALSE
    /\ targetsMet = FALSE /\ stalls = 0 /\ iter = 0
    /\ pulls \in 0..MaxPulls /\ tasks = 0
    /\ stopReason = FALSE /\ memo = "none" /\ notified = FALSE
    /\ review = "none" /\ emails = 0
    /\ dispatched = [i \in Issue |-> 0] /\ reworked = FALSE /\ shown = {}

Intake ==
    /\ Ready("intake") /\ Goto("scope")
    /\ prereqs' = {}
    /\ budget' = [breadth |-> 4, depth |-> 2]
    /\ UNCHANGED <<cap, process, decision, buffer, sig, approvedN, brief,
                   issues, grid, audited, scored, human, output, history>>

Scope ==
    /\ Ready("scope") /\ Goto("clarify")
    /\ UNCHANGED <<cap, process, channels, brief, issues, grid, audited,
                   scored, human, output, history>>

-----------------------------------------------------------------------------
(* H0, the clarify gate.  The answers are recorded as events; nothing turns *)
(* them into the criteria that clarify_converged() reads.                   *)

ClarifyPass ==
    /\ Ready("clarify") /\ (pinned \/ assume)
    /\ converged' = TRUE
    /\ Goto("write_brief")
    /\ UNCHANGED <<cap, process, channels, pinned, issues, grid, audited,
                   scored, human, output, history>>

ClarifyAsk ==
    /\ Ready("clarify") /\ ~(pinned \/ assume)
    /\ Interrupt
    /\ UNCHANGED <<process, channels, brief, issues, grid, audited, scored,
                   human, output, history>>

ClarifyAnswered ==
    /\ Answering("clarify")
    /\ Resume(IF converged THEN "write_brief" ELSE "clarify")
    /\ UNCHANGED <<process, channels, brief, issues, grid, audited, scored,
                   human, output, history>>

WriteBrief ==
    /\ Ready("write_brief") /\ Goto("orchestrator_plan")
    /\ UNCHANGED <<cap, process, channels, brief, issues, grid, audited,
                   scored, human, output, history>>

-----------------------------------------------------------------------------
(* The loop head: expand, plan the grid, audit the plan, approve it (H7).   *)

Addressable == {"open", "partially_answered"}

\* issue_expander.expand: seeds an empty issue map, and only an empty one.
Expanded ==
    IF \A i \in Issue : status[i] = "absent" THEN Seeded ELSE status

\* _consume_steer_events: bump the issues the pending steers name, if present.
ConsumeSteer ==
    /\ impact' = [i \in Issue |->
          IF i \in steer /\ status[i] # "absent" /\ impact[i] < 5
          THEN impact[i] + 1 ELSE impact[i]]
    /\ steer' = {}

OrchestratorPlan ==
    /\ Ready("orchestrator_plan") /\ Goto("plan_audit")
    /\ ConsumeSteer
    /\ status' = Expanded
    /\ \E new \in SUBSET (Cells \ grid) : grid' = grid \cup new
    /\ UNCHANGED <<cap, process, channels, brief, researched, evidence,
                   audited, scored, human, output, history>>

\* The cells keep the status "open" (see the README), so the signature of the
\* grid is the set of its cells; the empty signature is never equal to itself.
PlanUnchanged == grid # {} /\ sig = grid

PlanAuditSkip ==
    /\ Ready("plan_audit") /\ PlanUnchanged
    /\ Goto("plan_approval")
    /\ UNCHANGED <<cap, process, channels, brief, issues, grid, audited,
                   scored, human, output, history>>

PlanAudit ==
    /\ Ready("plan_audit") /\ ~PlanUnchanged
    /\ Goto("plan_approval")
    /\ audit' \in Audits
    /\ sig' = grid
    /\ UNCHANGED <<cap, process, prereqs, decision, budget, buffer, approvedN,
                   brief, issues, grid, challenged, blocking, scored, human,
                   output, history>>

H7MajorDelta == 2

\* Seeded bug: off by one.
BugNeedsApproval ==
    \/ approvedN = NotApproved
    \/ Cardinality(grid) - approvedN > H7MajorDelta

NeedsApproval ==
    \/ approvedN = NotApproved
    \/ Cardinality(grid) - approvedN >= H7MajorDelta

PlanApprovalPass ==
    /\ Ready("plan_approval") /\ (assume \/ ~NeedsApproval)
    /\ Goto("supervisor")
    /\ approvedN' = IF assume THEN Cardinality(grid) ELSE approvedN
    /\ UNCHANGED <<cap, process, prereqs, decision, budget, buffer, sig,
                   brief, issues, grid, audited, scored, human, output,
                   history>>

PlanApprovalAsk ==
    /\ Ready("plan_approval") /\ ~assume /\ NeedsApproval
    /\ Interrupt
    /\ UNCHANGED <<process, channels, brief, issues, grid, audited, scored,
                   human, output, history>>

PlanApprovalAnswered ==
    /\ Answering("plan_approval")
    /\ Resume("supervisor")
    /\ approvedN' = Cardinality(grid)
    /\ shown' = grid
    /\ UNCHANGED <<process, prereqs, decision, budget, buffer, sig, brief,
                   issues, grid, audited, scored, human, output, dispatched,
                   reworked>>

IssueExpansion ==
    /\ Ready("issue_expansion") /\ Goto("supervisor")
    /\ status' = Expanded
    /\ prereqs' = prereqs \cup {"broad_expansion"}
    /\ UNCHANGED <<cap, process, decision, budget, buffer, sig, approvedN,
                   brief, impact, steer, researched, evidence, grid, audited,
                   scored, human, output, history>>
-----------------------------------------------------------------------------
(* A round of research: select, fan out, collect, attack, audit, score.     *)

Supervisor ==
    /\ Ready("supervisor") /\ Goto("research_fanout")
    /\ ConsumeSteer
    /\ UNCHANGED <<cap, process, channels, brief, status, researched,
                   evidence, grid, audited, scored, human, output, history>>

AddressableIssues == {i \in Issue : status[i] \in Addressable}

\* Seeded bug: the slice is taken before the filter.
BugRawIds ==
    {i \in AddressableIssues :
        Cardinality({j \in Issue : j < i /\ status[j] # "absent"}) < Window}

\* supervisor.select: the first Window addressable issues, finished with or not.
RawIds ==
    {i \in AddressableIssues :
        Cardinality({j \in AddressableIssues : j < i}) < Window}

\* Seeded bug: no de-duplication against researched_queries.
BugCandidates == RawIds

Candidates == {i \in RawIds : Title[i] \notin researched}

\* The sort: challenged issues first, then impact, then the supervisor's order.
Before(i, j) ==
    IF (i \in challenged) # (j \in challenged) THEN i \in challenged
    ELSE impact[i] > impact[j] \/ (impact[i] = impact[j] /\ i < j)

Selected ==
    {i \in Candidates : Cardinality({j \in Candidates : Before(j, i)}) < TopK}

\* A researcher that raises, or a critic that raises on its bundle, leaves its
\* issue without a bundle; the title stays in researched_queries.
ResearchFanout ==
    /\ Ready("research_fanout") /\ Goto("collect")
    /\ researched' = researched \cup {Title[i] : i \in Selected}
    /\ \E delivered \in SUBSET Selected :
          buffer' = [i \in Issue |->
                        IF i \in delivered THEN buffer[i] + 1 ELSE buffer[i]]
    /\ dispatched' = [i \in Issue |-> IF i \in Selected THEN dispatched[i] + 1
                                      ELSE dispatched[i]]
    /\ UNCHANGED <<cap, process, prereqs, decision, budget, sig, approvedN,
                   brief, status, impact, steer, evidence, grid, audited,
                   scored, human, output, reworked, shown>>

\* Seeded bug: one bundle is enough.
BugAdvance(st, n) ==
    IF st \in {"open", "partially_answered"} /\ n > 0 THEN "answered" ELSE st

\* An issue's status after n bundles about it.
Advance(st, n) ==
    CASE st = "open" /\ n = 1                -> "partially_answered"
      [] st = "open" /\ n > 1                -> "answered"
      [] st = "partially_answered" /\ n > 0  -> "answered"
      [] OTHER                               -> st

\* worker_results is declared with operator.add as its reducer, so the empty
\* list returned here and in intake and supervisor removes nothing from it.
Collect ==
    /\ Ready("collect") /\ Goto("skeptic")
    /\ evidence' = [i \in Issue |-> evidence[i] + buffer[i]]
    /\ status' = [i \in Issue |-> Advance(status[i], buffer[i])]
    /\ prereqs' = prereqs \cup {"source_confidence_checked"}
    /\ UNCHANGED <<cap, process, decision, budget, buffer, sig, approvedN,
                   brief, impact, steer, researched, grid, audited, scored,
                   human, output, history>>

Skeptic ==
    /\ Ready("skeptic") /\ Goto("albert_audit")
    /\ prereqs' = prereqs \cup {"counterargument_pass"}
    /\ UNCHANGED <<cap, process, decision, budget, buffer, sig, approvedN,
                   brief, issues, grid, audited, scored, human, output,
                   history>>

\* Any challenge may be raised, answered or promoted; an audit that carries none
\* (the adapter's fallback among them) leaves the map as it is.
AlbertAudit ==
    /\ Ready("albert_audit") /\ Goto("artifact_update")
    /\ audit' \in Audits
    /\ challenged' \in Challenges \cup {challenged}
    /\ blocking' \in BOOLEAN
    /\ prereqs' = prereqs \cup {"albert_audit_ran",
                                "pending_questions_extracted"}
    /\ UNCHANGED <<cap, process, decision, budget, buffer, sig, approvedN,
                   brief, issues, grid, scored, human, output, history>>

ArtifactUpdate ==
    /\ Ready("artifact_update") /\ Goto("readiness_scoring")
    /\ prereqs' = prereqs \cup {"blockers_classified"}
    /\ UNCHANGED <<cap, process, decision, budget, buffer, sig, approvedN,
                   brief, issues, grid, audited, scored, human, output,
                   history>>

PlateauWindow == 2

\* stalls counts the last readiness sums that did not rise; the first sum has
\* nothing to be compared with.
ReadinessScoring ==
    /\ Ready("readiness_scoring") /\ Goto("anti_premature")
    /\ targetsMet' \in BOOLEAN
    /\ \/ stalls' = 0
       \/ /\ iter > 0
          /\ stalls' = IF stalls < PlateauWindow THEN stalls + 1 ELSE stalls
    /\ iter' = iter + 1
    /\ UNCHANGED <<cap, process, channels, brief, issues, grid, audited,
                   human, output, history>>

AntiPremature ==
    /\ Ready("anti_premature") /\ Goto("cos_decision")
    /\ prereqs' = IF audit.explained
                  THEN prereqs \cup {"explicit_continue_explanation"}
                  ELSE prereqs
    /\ UNCHANGED <<cap, process, decision, budget, buffer, sig, approvedN,
                   brief, issues, grid, audited, scored, human, output,
                   history>>

-----------------------------------------------------------------------------
(* The decision and the router.                                             *)

\* Seeded bug: a disputed high-impact challenge does not hold the stop back.
BugGated(d) ==
    IF audit.verdict = "none" \/ audit.degraded THEN "continue_research" ELSE d

\* assert_audit_ran, then gate_emission
Gated(d) ==
    IF audit.verdict = "none" \/ audit.degraded \/ blocking
    THEN "continue_research" ELSE d

TerminalEligible == AddressableIssues = {} /\ targetsMet

\* The stages of _decide_cos, first match wins.
Decide ==
    IF pulls > 0 \/ audit.rec = "pull_human" THEN "pull_human"
    ELSE IF audit.verdict = "rework" THEN "branch"
    ELSE IF prereqs # Prereqs THEN "continue_research"
    ELSE IF TerminalEligible THEN Gated("terminal_stop")
    ELSE IF audit.rec = "synthesize" \/ stalls >= PlateauWindow
         THEN Gated("synthesize")
    ELSE IF AddressableIssues = {} THEN "push_human"
    ELSE "continue_research"

CanMaterialize ==
    budget.depth > 0 /\ ~SeedHasCompetitor /\ status[Competitor] = "absent"

Halved(breadth) == IF breadth \div 2 > 2 THEN breadth \div 2 ELSE 2

HighOpen == {i \in AddressableIssues : impact[i] >= 4}

\* classify_pull(...) = "high"
HighRisk ==
    \/ audit.highRisk
    \/ ~HasPriority /\ HighOpen # {} /\ HighOpen \subseteq GatedIssues
    \/ ~HasFallback /\ Cardinality(HighOpen \cap IntentIssues) >= 2

\* open_high_impact_cells(min_impact=4)
OpenHighCells == grid \cap HighCells

\* Seeded bug: the soft-stop override is tried before the ceiling.
BugRoute(d, hit) ==
    IF hit THEN "deep_audit"
    ELSE IF d \in Soft /\ OpenHighCells # {} THEN "orchestrator_plan"
    ELSE IF iter >= MaxIterations \/ d \in Soft THEN "deep_audit"
    ELSE CASE d = "pull_human" -> "human_pull"
           [] d = "push_human" -> "human_push"
           [] d = "branch"     -> "issue_expansion"
           [] OTHER            -> "orchestrator_plan"

\* _route, under the reading of the cap it makes
Route(d, hit) ==
    IF hit \/ iter >= MaxIterations THEN "deep_audit"
    ELSE CASE d \in Soft ->
                IF OpenHighCells # {} THEN "orchestrator_plan" ELSE "deep_audit"
           [] d = "pull_human" ->
                IF HighRisk THEN "deep_audit" ELSE "human_pull"
           [] d = "push_human" -> "human_push"
           [] d = "branch"     -> "issue_expansion"
           [] OTHER            -> "orchestrator_plan"

CosDecision ==
    /\ Ready("cos_decision")
    /\ cap' \in CapReadings
    /\ decision' = Decide
    /\ Goto(Route(Decide, cap' = "hit"))
    /\ stopReason' = (stopReason \/ cap' = "hit")
    /\ IF Decide = "branch" /\ CanMaterialize
       THEN /\ status' = [status EXCEPT ![Competitor] = "open"]
            /\ budget' = [breadth |-> Halved(budget.breadth),
                          depth   |-> budget.depth - 1]
       ELSE UNCHANGED <<status, budget>>
    /\ reworked' = (reworked \/ Decide = "branch")
    /\ UNCHANGED <<process, prereqs, buffer, sig, approvedN, brief, impact,
                   steer, researched, evidence, grid, audited, scored, human,
                   memo, notified, review, emails, dispatched, shown>>

-----------------------------------------------------------------------------
(* The gates behind the router.                                             *)

\* The deep audit replaces last_audit.
DeepAudit ==
    /\ Ready("deep_audit")
    /\ Goto(IF decision = "pull_human" THEN "human_pull" ELSE "human_review")
    /\ audit' \in Audits
    /\ UNCHANGED <<cap, process, channels, brief, issues, grid, challenged,
                   blocking, scored, human, output, history>>

\* Seeded bug: a pull the auditor asked for is taken for a queued one.
BugConsumePull == pulls' = pulls - 1

\* the oldest request_pull, if one is queued, is consumed
ConsumePull == pulls' = IF pulls > 0 THEN pulls - 1 ELSE 0

\* Seeded bugs: the ceiling, or the cap, is not looked at behind the pull gate.
BugAfterPullCeiling(hit) ==
    IF hit THEN "human_review" ELSE "orchestrator_plan"
BugAfterPullCap(hit) ==
    IF iter >= MaxIterations THEN "human_review" ELSE "orchestrator_plan"

AfterPull(hit) ==
    IF hit \/ iter >= MaxIterations THEN "human_review" ELSE "orchestrator_plan"

HumanPullDefault ==
    /\ Ready("human_pull") /\ AutoMode /\ ~HighRisk
    /\ ConsumePull
    /\ cap' \in CapReadings
    /\ stopReason' = (stopReason \/ cap' = "hit")
    /\ Goto(AfterPull(cap' = "hit"))
    /\ UNCHANGED <<process, channels, brief, issues, grid, audited, scored,
                   tasks, memo, notified, review, emails, history>>

HumanPullAsk ==
    /\ Ready("human_pull") /\ (~AutoMode \/ HighRisk)
    /\ Interrupt
    /\ UNCHANGED <<process, channels, brief, issues, grid, audited, scored,
                   human, output, history>>

HumanPullAnswered ==
    /\ Answering("human_pull")
    /\ ConsumePull
    /\ Resume(AfterPull(FALSE))
    /\ UNCHANGED <<process, channels, brief, issues, grid, audited, scored,
                   tasks, output, history>>

\* the addressable issue of the highest impact, the first of them on a tie
PushTarget ==
    {i \in AddressableIssues : \A j \in AddressableIssues :
        impact[i] > impact[j] \/ (impact[i] = impact[j] /\ i <= j)}

HumanPush ==
    /\ Ready("human_push") /\ Goto("supervisor")
    /\ status' = [i \in Issue |-> IF i \in PushTarget
                                  THEN "blocked_by_internal_data"
                                  ELSE status[i]]
    /\ tasks' = tasks + Cardinality(PushTarget)
    /\ UNCHANGED <<cap, process, channels, brief, impact, steer, researched,
                   evidence, grid, audited, scored, pulls, output, history>>

\* check_emission: the four gates; a cap stop counts as an explicit emit.
Emits(citationsOk) ==
    /\ audit.verdict # "none" /\ ~audit.degraded
    /\ stopReason \/ ~blocking
    /\ citationsOk
    /\ stopReason \/ targetsMet

\* assemble_memo may find a critical claim it cannot verify (supplement).
Notifies(supplement) == (supplement \/ tasks > 0) /\ ~notified

BuildMemo ==
    \E citationsOk, supplement \in BOOLEAN :
        /\ memo' = IF Emits(citationsOk) THEN "emitted" ELSE "refused"
        /\ notified' = (notified \/ Notifies(supplement))
        /\ emails' = IF Notifies(supplement) THEN emails + 1 ELSE emails

HumanReviewPass ==
    /\ Ready("human_review") /\ ~EnableH6
    /\ BuildMemo
    /\ Goto("end")
    /\ UNCHANGED <<cap, process, channels, brief, issues, grid, audited,
                   scored, human, stopReason, review, history>>

\* The memo and the mark that the mail was sent are lost; the mail is not.
HumanReviewAsk ==
    /\ Ready("human_review") /\ EnableH6
    /\ \E supplement \in BOOLEAN :
          emails' = IF Notifies(supplement) THEN emails + 1 ELSE emails
    /\ Interrupt
    /\ UNCHANGED <<process, channels, brief, issues, grid, audited, scored,
                   human, stopReason, memo, notified, review, history>>

HumanReviewAnswered ==
    /\ Answering("human_review")
    /\ BuildMemo
    /\ review' \in {"confirm", "revise"}
    /\ Resume("end")
    /\ UNCHANGED <<process, channels, brief, issues, grid, audited, scored,
                   human, stopReason, history>>

-----------------------------------------------------------------------------
(* GraphRecursionError, and the specification.                              *)

Abort ==
    /\ pc \in Nodes /\ ~paused /\ steps >= RecursionLimit
    /\ pc' = "aborted"
    /\ UNCHANGED <<paused, steps, cap, process, channels, brief, issues, grid,
                   audited, scored, human, output, history>>

\* Nothing is left to run: the program has returned.
Finished ==
    /\ pc \in {"end", "aborted"} \/ (paused /\ driver = "run_loop")
    /\ UNCHANGED vars

Research ==
    \/ OrchestratorPlan \/ PlanAuditSkip \/ PlanAudit
    \/ PlanApprovalPass \/ PlanApprovalAsk
    \/ IssueExpansion \/ Supervisor \/ ResearchFanout \/ Collect \/ Skeptic
    \/ AlbertAudit \/ ArtifactUpdate \/ ReadinessScoring \/ AntiPremature
    \/ CosDecision \/ DeepAudit \/ HumanPullDefault \/ HumanPullAsk
    \/ HumanPush \/ HumanReviewPass \/ HumanReviewAsk

System ==
    \/ Intake \/ Scope \/ ClarifyPass \/ ClarifyAsk \/ WriteBrief
    \/ Research \/ Abort

Human ==
    \/ ClarifyAnswered \/ PlanApprovalAnswered \/ HumanPullAnswered
    \/ HumanReviewAnswered

Next == System \/ Human \/ Finished

Spec == Init /\ [][Next]_vars

\* The process keeps running its nodes; nobody promises that a human answers.
LiveSpec == Spec /\ WF_vars(System)
-----------------------------------------------------------------------------
(* Correctness.                                                             *)

ControlType ==
    /\ pc \in Nodes \cup {"end", "aborted"}
    /\ paused \in BOOLEAN
    /\ steps \in Nat
    /\ cap \in {"off", "armed", "hit"}
    /\ driver \in Drv
    /\ assume \in BOOLEAN

ChannelsType ==
    /\ prereqs \in SUBSET Prereqs
    /\ decision \in Decisions
    /\ budget \in [breadth : Int, depth : Int]
    /\ buffer \in [Issue -> Nat]
    /\ sig \in SUBSET Cells
    /\ approvedN \in Int

BriefType == pinned \in BOOLEAN /\ converged \in BOOLEAN

IssuesType ==
    /\ status \in [Issue -> Status]
    /\ impact \in [Issue -> 0..5]
    /\ steer \in SUBSET Issue
    /\ researched \in SUBSET Titles
    /\ evidence \in [Issue -> Nat]

AuditedType ==
    /\ audit \in Audit
    /\ challenged \in SUBSET Issue
    /\ blocking \in BOOLEAN

ScoredType ==
    /\ targetsMet \in BOOLEAN
    /\ stalls \in 0..PlateauWindow
    /\ iter \in Nat

HumanType == pulls \in Nat /\ tasks \in Nat

OutputType ==
    /\ stopReason \in BOOLEAN
    /\ memo \in {"none", "emitted", "refused"}
    /\ notified \in BOOLEAN
    /\ review \in {"none", "confirm", "revise"}
    /\ emails \in Nat

HistoryType ==
    /\ dispatched \in [Issue -> Nat]
    /\ reworked \in BOOLEAN
    /\ shown \in SUBSET Cells

\* Every variable has its type; the only type invariant of this module.
TypeOK ==
    /\ ControlType /\ ChannelsType /\ BriefType /\ IssuesType
    /\ grid \in SUBSET Cells
    /\ AuditedType /\ ScoredType /\ HumanType /\ OutputType /\ HistoryType

RoundLimit == AtLeastOne(MaxIterations)

\* The hard iteration ceiling: whatever the auditor, the scorer and the human
\* answer, and whichever gate the loop leaves through and comes back from, no
\* more than max_iterations rounds are scored (one, if it is zero).
IterationCeiling == iter <= RoundLimit

\* run_loop's recursion_limit is above the steps its rounds can take, with
\* every detour, so LangGraph never cuts such a run off before its ceiling.
NeverCutOff == driver = "run_loop" => pc # "aborted"

\* No issue goes to a researcher twice in a run, in whatever rounds it stays
\* addressable, is re-ranked, challenged or left without a bundle.
IssueResearchedOnce == \A i \in Issue : dispatched[i] <= 1

\* An issue is called answered only on evidence that its own researcher
\* brought, folded twice, however many rounds lie between.
AnsweredByEvidence ==
    \A i \in Issue : status[i] = "answered" =>
        evidence[i] >= 2 /\ dispatched[i] >= 1

\* nodes that run on the plan the H7 gate let through
AfterApproval == Nodes \ {"intake", "scope", "clarify", "write_brief",
                          "orchestrator_plan", "plan_audit", "plan_approval"}

\* Research never runs on a grid with two or more cells that the human has not
\* seen, though small re-plans pass without asking and may add up.
UnseenCellsBounded ==
    ~assume /\ pc \in AfterApproval =>
        Cardinality(grid \ shown) < H7MajorDelta

\* Once the router has seen the cap hit, this process starts no further round,
\* not even through the pull gate that still lies on the way out.
CapEndsResearch == cap = "hit" => pc \notin ResearchNodes

\* The loop decides to stop, rather than being stopped by ceiling or cap.
SoftStop ==
    /\ pc = "cos_decision" /\ pc' = "deep_audit"
    /\ decision' \in Soft /\ cap' # "hit" /\ iter < MaxIterations

\* The loop may stop of itself only when it was sent back for rework before (no
\* other step performs the broad expansion), all prerequisites are met, the
\* audit is genuine, nothing of high impact is disputed or left open in the
\* grid, and research is saturated, stalled or closed by the auditor.
SoftStopEarned ==
    [][SoftStop =>
         /\ reworked /\ prereqs = Prereqs
         /\ audit.verdict \in {"continue", "exhausted"} /\ ~audit.degraded
         /\ ~blocking /\ grid \cap HighCells = {}
         /\ \/ AddressableIssues = {} /\ targetsMet
            \/ audit.rec = "synthesize"
            \/ iter > PlateauWindow]_vars

\* Issues that stay addressable although no researcher is sent again: what their
\* researcher found is lost with it, or was found under another issue's title.
Lost == {i \in AddressableIssues : Title[i] \in researched /\ buffer[i] = 0}

\* A round finds something to research as long as the title of an addressable
\* issue was never researched: the issues under way never fill the supervisor's
\* window, and failed researchers only when there are as many as places are left
\* beside one round's issues.
WindowNotClogged ==
    /\ Cardinality(Lost) + TopK < Window
    /\ pc = "research_fanout"
    /\ \E i \in AddressableIssues : Title[i] \notin researched
    => Selected # {}

\* Every run comes to rest, at its end or at a question to the human, however
\* often it is resumed: no cycle of gates and rounds goes on for ever.  Only a
\* checkpointed run may instead be cut off by the recursion limit.
RunSettles ==
    []<>(pc = "end" \/ paused \/ (pc = "aborted" /\ driver # "run_loop"))
-----------------------------------------------------------------------------
(* The refinement mapping to RunLifecycle.                                  *)

Stage ==
    CASE pc \in {"intake", "scope", "clarify", "write_brief"} -> "preparing"
      [] pc \in ResearchNodes                                 -> "research"
      [] pc \in {"anti_premature", "cos_decision"}            -> "judging"
      [] pc \in {"deep_audit", "human_pull", "human_review"}  -> "leaving"
      [] pc = "end"                                           -> "finished"
      [] OTHER                                                -> "cut"

Lifecycle ==
    INSTANCE RunLifecycle WITH
        Limit <- RoundLimit, stage <- Stage, rounds <- iter,
        waiting <- paused, capped <- (cap = "hit"),
        delivered <- (memo # "none")

\* The graph of nodes keeps what a run promises: bounded rounds, none of them
\* after the cap, every round judged, and no end without a memo.
KeepsLifecycle == Lifecycle!Spec
=============================================================================
