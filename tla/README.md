# A TLA+ development of the CN5 research cockpit

The program (`src/src/cn5_research_cos`, Python) is a research "chief of staff":
a LangGraph state machine sends language-model researchers out in rounds, has an
adversarial auditor ("Albert") judge every round, asks a human at a few gates, and
stops with a decision memo when the research is exhausted, stalled, capped or at
its iteration ceiling.  The models say what the deterministic part of it does
whatever the language models answer.

In this document `graph.py` and the like are files below
`src/src/cn5_research_cos`; line numbers are those of the commit modelled.

## 1. Inventory

| component | state it keeps | operations | hard behaviour |
|---|---|---|---|
| control loop, `graph.py`, `state.py` | `GraphState` channels and `ResearchState` | 21 nodes, 4 conditional edges, 3 drivers | gates that leave the loop and come back, interrupt and re-execution, two ceilings and a cap, buffers with reducers |
| decision gates, `decision/*.py` | none (the cap: a context variable) | predicates over the state | order of the tests, stale audit, boundaries |
| grid and cells, `brains/orchestrator.py`, `decision/cell_*.py`, `triangulation.py` | cells and their status | plan, synthesize, classify | contradictory sources, status moving back |
| challenges, `artifacts/challenge_map.py`, `decision/convergence.py` | challenge map, history | upsert, promote, readiness | merging re-raised challenges, rounding |
| fan-out and sessions, `llm/sdk_client.py` | idle sessions, permits | acquire, turn, retry, close | tasks interleave, turns time out, sessions die |
| memo and citations, `synthesis/`, `citation/` | memo, human tasks | assemble, verify, route, gate | partial verification, explicit emission |
| reference store, `brains/reference_store.py`, `brains/internal_doc.py` | files, processed keys | save, scan | files of this run must not be scanned back in |
| clarifier and brief, `sot/` | thread checkpoint, dialogue file, brief versions | step, finalize, amend | one turn per process, two stores |
| auditor, `albert/` | none | audit (subprocess) | timeouts, degraded results |
| command line, `cli.py`, `store.py` | `state.json`, `checkpoint.db` | run, resume, steer, run-auto, clarify | several processes on one run |
| observability, `observability/`, `notify/`, `render/` | debate file, mailbox | append, mail | fail-closed against fail-soft |
| brains, `brains/real.py`, `synthesis.py` | none | prompts | answers of any shape |

The loop calls everything else: the nodes call the brains, the brains call the
session pools, the gates read the challenge map and the grid, the CLI starts the
loop and answers its interrupts through LangGraph's checkpoint, and writes
`state.json` beside it.  `PROJECT.json` lists every component with its status, and
the hazards of the code at their lines, with the properties that watch over them.

What makes each component correct:

* **control loop**: bounded rounds on every path; no research on a plan the human
  has not seen; no new round after the cap; no stop that was not earned; no issue
  dispatched twice or called answered without evidence; every run comes to rest
  with a memo or at a question; a resumed node has its effects once.
* **fan-out and sessions**: permits conserved on every path; no more live sessions
  than permits; no session in two hands; a retry on a live session; an answer
  belongs to the question it was asked for; all tasks finish.
* **challenges**: a closed challenge is not silently reopened; ids are unique; the
  readiness target is met only when most challenges are closed.
* **cells**: a cell is `na` only when public sources are exhausted, `blocked` only on
  a gated source, and the verdict does not depend on the order of bundles.
* **citations and memo**: no emitted memo with an unverified key claim; every
  critical unverified claim has one human task.
* **stores**: a run resumed, steered or crashed in between loses no accepted input.
* **clarifier**: one turn per step, an end by the hard cap, brief versions increase.

## 2. Modules

Four groups.  Each has its specification, an MC module with values for TLC and the
statements of the program's own texts that the code does not keep, and proofs.

| module | what it is |
|---|---|
| `ResearchLoop` | the control loop, one action per node and outcome; seeded bugs (`Bug...`), properties, refinement mapping |
| `RunLifecycle` | the abstract specification: what a run promises to whoever starts it |
| `MCResearchLoop`, `MCClaims` | values for TLC; statements of comments and documents that the code does not keep |
| `ResearchLoopProofs`, `ResearchLoopSafety`, `ResearchLoopWindow`, `ResearchLoopRefinement` | type correctness and lemmas; the safety theorems; the supervisor's window; `ResearchLoop` implements `RunLifecycle` |
| `SessionPool` | one call of `run_research_fanout`: researchers as tasks of one event loop, both semaphores, sessions, turns, retries, the review of the bundles |
| `Fanout` | the abstract specification: one outcome per issue, bundles in the order of the selection |
| `MCSessionPool`, `SessionPoolProofs` | values for TLC; proofs |
| `RunSessions` | the directory of a run: checkpoint and `state.json`, the loop process and a second terminal, crashes |
| `BriefDialogue` | extends `RunSessions` by `cos clarify` and `cos revise-brief`: dialogue file, engine thread, brief versions |
| `MCBriefDialogue`, `BriefDialogueProofs` | values for TLC; proofs |
| `ChallengeMap` | what the auditor returns, mapped onto the contract, merged into the challenge map; convergence predicates |
| `EvidenceIntake` | researchers' bundles, the reducer, fold and scan of the reference folder, citation verification |
| `MemoRounds` | composes the two: rounds of research, fold, audit; at the stop deep audit, citation routing, memo and emission gates; restarts on saved states |
| `MCMemoRounds`, `ChallengeMapProofs`, `MemoRoundsProofs` | values for TLC; proofs |

`ResearchLoop` is the spine.  The other three groups each open one of its nodes:
`SessionPool` what `research_fanout` does inside one step, `RunSessions` what
`artifact_update` and the CLI do with the state it ends a step with, `MemoRounds` what
`collect`, `albert_audit` and `human_review` do with the data `ResearchLoop` abstracts.
They are not one specification: their states multiply, and no guard of one reads
the detail of another.

### How `ResearchLoop` corresponds to the code

* A node together with the conditional edge behind it is one action: LangGraph runs
  both in one super-step.  A node with several outcomes is several actions
  (`PlanApprovalPass`, `PlanApprovalAsk`, `PlanApprovalAnswered`).
* `pc` is the node scheduled next, `steps` LangGraph's step counter of the current
  invocation, `paused` a thread that waits in `interrupt()`.  LangGraph is not part
  of the source; its semantics, from how `graph.py` and `cli.py` use it: the
  super-step of an interrupted node is abandoned (its changes to the state are
  lost, what it did to the outside world is not); `Command(resume=...)` executes
  the node again from its first line in a new invocation with a new step counter;
  a run that reaches `recursion_limit` ends in `GraphRecursionError` (`Abort`); a
  channel with a reducer combines old and new value (`buffer`).
* `driver` is the entry point: `run_loop` (no checkpointer, cap, `assume_brief`
  given by the caller), `run_auto` (cap, auto mode, no H6), `cos_run` (interactive,
  H6, no cap is published by this command).  `Init` has a new run, a run started with
  issues, and `cos run --resume-state` after the first H7 pause.
* The answers of the language models are choices: `Audits` for the auditor, any
  subset of delivered bundles for the researchers, any readiness for the scorer,
  any new cells for the orchestrator.  `Audit` keeps what the loop reads.
* Issues are numbers: `1..NumSeeds` in the order the expander creates them (the
  order of the dictionary), and `Competitor`, the issue a branch adds.  Evidence is
  the number of bundles per issue.
* `stalls` stands for the tail of `readiness_history`: `plateau` only asks whether
  the last three sums never rose.
* Cells keep the status `open`: `classify_grid_cells` (graph.py:528) matches bundles by
  `issue_id == cell.id`, and the researchers' bundles carry ids of issues.  So the
  signature of the grid is its set of cells, and `OpenHighCells` the cells of impact
  4 and more.
* `dispatched`, `reworked` and `shown` are history variables; no guard reads them.

Left to the other models: `cos run --resume` (`RunSessions`) and the reference folder
`collect` scans (`EvidenceIntake`).  Not modelled: the environment override `CN5_COS_EMIT_DESPITE_DEGRADED_AUDIT`,
`explicit_emit` set by a caller, brain bundles without an auditor, orchestrator or
synthesizer (tests inject those), and exceptions raised by a brain outside the fan-out, which end the process.

### How `SessionPool` corresponds to the code

* An action is what a task does between two `await`s, with everything it does there:
  taking a permit, looking at the idle list and beginning the turn is one action
  (`Reuse`, `_checkout` in sdk_client.py), taking a permit and beginning to connect
  another (`Open`).
* A session is a subprocess with a queue of the questions written to it (`stream`); it
  answers them in order.  `TimesOut` leaves the question there, as
  `asyncio.wait_for` does: the next turn on that session reads its answer.
* `RetryOrRaise` is `run_with_retry`: back-off, next attempt, or the exception of the
  last one.  The place in the fan-out's semaphore is kept over the back-off
  (graph.py:428).
* `Ceilings` has the fan-out's own ceiling and one as large as the number of tasks: the
  pool is also used without a fan-out around it.  Without the second, `permits` could
  never run out before `slots`.
* The critique runs after `aclose`, in the order of the selection, by one-shot calls with
  their own retries.
* A connect, a turn (transport, time-out, no structured output), an escalation or a review
  may fail every time it is tried.

### How `RunSessions` and `BriefDialogue` correspond to the code

* `ckpt` is what the checkpointer has of the thread, `snap` the file `state.json` that
  `save_snapshot` writes in place, so that a crash may leave it `torn`.
* A state keeps what the stores tell apart: round, answers, steers given and applied,
  content of the brief, whether the clarify gate was passed.  `Clarify`, `Plan`, `Ask`,
  `Answer`, `Record`, `Commit` are the loop's nodes as the two stores see them:
  `artifact_update` writes the snapshot before its own super-step is checkpointed.
* `Open` is what the gate at hand may ask.  The gates inside the rounds (`Questions`) ask
  what was not answered before.  The clarify gate asks `BriefQuestion` unless
  `--assume-brief` was given, and asks it again after every answer (finding 3).  The flag is
  an input of the thread and stays with the checkpoint, so `run --resume` and `resume` keep
  it; `run --resume-state` starts the thread with its own.  Criteria pinned by hand in
  `state.json`, which pass the gate too, are left to `ResearchLoop`.
* `Resume` runs on any thread with a next node, as `cos resume` does, which tests nothing
  else.  On a thread that crashed rather than paused the answer reaches the gate executed
  first, if one is, and is lost otherwise.
* `cos run`, `run-auto`, `run --resume`, `run --resume-state`, `resume`, `steer`, `init`,
  `clarify`, `revise-brief` are actions or chains of actions with a `Crash` in between.
  A short command holds a loaded copy (`copy`) until it saves it.
* `EngineTurn` is one call of the clarify engine.  The engine is a library (`cn5_ask`):
  it takes a turn also when its thread has stopped, and compiles on every call.
* `kept`, `promised`, `parted`, `unsettled` are history; no guard reads them.

### How `ChallengeMap`, `EvidenceIntake` and `MemoRounds` correspond to the code

* A challenge is known by its place in the map (ids are minted from its length), its
  text by the table `Ratio` of difflib ratios, which need not be symmetric.
  `node_albert_audit` never passes `prior_challenge_id`, so text is all there is.
* A saying is a claim with its quote; a text is the set of sayings it contains to 85 of
  100.  `BundlesOf` composes the four steps of a researcher's bundle: build, escalate
  into documents, review, rank.
* A file's key is name and modification time: `seen` holds the paths whose present key is
  processed, a new save removes the path.  `Listed` is `sorted(rglob("*"))`.
* `Collect` is the whole node: fold, notes written and marked, scan.  A file whose
  conversion raises ends the scan (`ScanAborts`); the node swallows the exception.
* `results` only grows, like the reducer (finding 1).
* In `MemoRounds` any decision may follow an audit; when which one does is
  `ResearchLoop`'s subject.  `Review` is the memo with its routing and gates.
* `Restart` is `cos run --resume-state`, or `cos run -q` under the same id: at any point of
  the run the thread begins again on any state that `save_snapshot` ever wrote, an older
  one too, or on a fresh one.  The buffer `results`, the notes on disk and the files stay;
  `researched`, `blocked`, `evidence`, `seen`, `challenges`, `tasks` and the audit go back.
  Two history variables say what that costs: `reopened` has the issues that may be
  researched again, `unmarked` the notes that lost their mark.  `OwnSourcesDecide` is about
  the issues outside `reopened`, and `EmittedIsHonest` says of the others that sources of
  the same issue decide: the ids of their sources collide.

## 3. Runs

| run | spec | shows |
|---|---|---|
| `loop_gates` | `LiveSpec`, all drivers | the loop is bounded, asks, honours the cap, settles, refines `RunLifecycle` |
| `loop_rounds` | `Spec`, `run_loop` | selection, evidence, recursion limit, conditions of a soft stop |
| `bundle_folded_twice` | `Spec` | finding 1 |
| `mailed_twice` | `Spec` | finding 2 |
| `clarify_for_ever` | `AnsweredSpec` | finding 3 |
| `ceiling_cut_off` | `Spec` | finding 4 |
| `session_pool` | `LiveSpec` | permits, sessions and answers stay apart, nobody is stuck, every step goes on, the fan-out returns, refines `Fanout` |
| `dead_session_reused` | `Spec` | finding 5 |
| `run_directory` | `LiveSpec` | accepted answers survive, the mirror is near, one brief in force, a continued run with an assumed brief finishes |
| `steer_lost` | `Spec` | finding 6 |
| `emission` | `Spec` | the challenge map forgets nothing, evidence is what it says, the emitted memo is honest |
| `dropped_file_lost` | `Spec` | finding 7 |

**`Gates.cfg`** has one seed issue, two cells of which one has high impact, an auditor
that continues, reworks, wraps up or pulls (low or high risk), one queued pull, one
steer, every combination of driver, `assume_brief` and pinned criteria, two rounds and a
recursion limit of 30.  Two rounds are enough to come back through every gate once
and hit ceiling, cap, or neither; a third repeats the second.  The limit of 30 stands
for 200: with it some runs finish and some are cut off, as with 200 and more rounds.
With two cells, H7 asks again after the first approval of an empty grid, and one cell
can slip by unseen.

**`Rounds.cfg`** has four seeds of impact 4, 3, 4, 3, the competitor issue, a window of 4
with two researchers per round (so that selection, window and fan-out all cut
something off, and one issue whose researcher failed fits beside the two of a round: with
two such issues the window does clog, which TLC shows when the hypothesis of
`WindowNotClogged` is weakened by one), failing researchers, an auditor that reworks, wraps up, is degraded or
says nothing, and five rounds, which cover: first dispatch, replay, plateau after
three sums, a branch, and a round after all were dispatched.  Only this
configuration reaches `HumanPush`.  2.33 million states.

**`SessionPool.cfg`** has three tasks, two permits, two attempts, a ceiling of two or three.
Three tasks on two permits is the smallest case in which one waits while two hold,
an idle session can be taken by a third, and a late answer can cross to a task that did
not cause it; two attempts give a retry and a last attempt.  1.34 million states.

**`RunDirectory.cfg`** has one question of the rounds and that of the clarify gate, both
values of `assume_brief`, one steer, two rounds, one crash, two dialogue turns, a window
of 1 and a cap of 2, three brief versions.  Two rounds separate "one ahead" from "two
ahead"; one crash is followed by every way of continuing (a second crash meets the state
of one crash again, except for a torn file, which is as torn as before); three versions
are needed to see that only the last is in force, and two turns reach both ends of the
dialogue.  The bounds on turns, versions and contents are named in the module because the
code has none.  `View` makes one state of those that differ only in what neither a property
of the run nor a later guard reads: the brief inside the two stores, `assume_brief` behind
the gate, the streak after the last turn, the content of superseded versions, `promised`.
1.41 million states.

**`Emission.cfg`** has one issue with one source, one saying, a file of an unsupported type
and one docling cannot read, two challenge texts, two forms an auditor's challenge can
take, two rounds, one failed write and one crash.  One issue suffices: what could cross
between issues crosses between the bundles of two rounds or of a restart, and the seeded
bug that researches an issue twice is found.  The second text restates the first but not
the other way round, which is what tells the order of the comparison, and one ratio is at
the threshold, the other just below.  One challenge has evidence and a numeric confidence,
the other is an answer without evidence and a confidence in words, so that promotion, merge
and high impact occur in each form.  A restart takes one of the two rounds, from any point,
on any state saved before.  The constraint `FewTroubles` lets at most three things go wrong
or come in from outside in one behaviour (failed write, crash, dropped file, challenge,
reopened issue), so that the run takes a minute and a half; without it TLC passes as well,
on 3.28 million states.  `View` leaves out an audit that is replaced before anything reads
it, and the saved states once no restart is left.  The map holds two challenges at most, so
that this run sees the readiness gate shut and open, but not the rounding between; the
theorem does, and no theorem has any of these bounds.  1.25 million states.

`RunDirectory`, `SteerLost`, `Emission` and `DroppedFileLost` do not check for deadlock:
the commands, dialogue turns, rounds and saves of the model are used up and then nothing is
left to do.  The theorems hold without these bounds.

The claims use the smallest instance in which the code disagrees.  `CeilingCutOff.cfg`
uses the real limit of 200, with 20 rounds.

Every property has a seeded bug (`mutants` in `PROJECT.json`, operators `Bug...`) that
the same configuration finds.

`FewTroubles` of `Emission.cfg` is the only constraint; the other bounds are guards of the
specifications, or the code's own: `steps`, `iter` and `emails` by its ceilings, `pulls`
by `MaxPulls`.  In `run_auto` and `cos_run` each resume starts a new invocation, and the
ceiling bounds the rounds across them.

**Fairness.**

* `ResearchLoop.LiveSpec` has weak fairness of `System`: a process that can take its next
  super-step takes it.  Nothing is assumed about the human, about which answer a model
  gives, or about the clock: `RunSettles` must hold when nobody ever answers and when
  the human answers for ever.  Only `AnsweredSpec` adds that he answers, for the claim
  about the clarify gate.
* `SessionPool.LiveSpec` has weak fairness of `Next`: the event loop runs whatever task can
  run, and a turn ends because `wait_for` ends it.  That `connect()` and the fetching of a
  document end is up to the SDK and the HTTP client; the code gives `connect()` no
  timeout.
* `BriefDialogue.LiveSpec`: a loop process that runs goes on; the human starts the run and
  continues it after a crash (weak), and answers what it asks (strong, because a paused
  run may be restarted in between).  Nothing is assumed about the other terminal.  Even so
  `RunFinishes` promises nothing for a run whose brief is not assumed (the clarify gate
  repeats its question) or that is started again and again from `state.json`.

## 4. Findings

1. *Bundles are folded again every round.*  `worker_results` has the reducer
   `operator.add` (state.py:23), so the empty list that `node_intake`, `node_supervisor`
   and `node_collect` return to "clear the per-round worker buffer" (graph.py:338)
   removes nothing.  `collect` folds the bundles of all earlier rounds again: evidence
   is duplicated, and one bundle is enough for `answered`, one round later.
   `AnsweredByEvidence` therefore counts foldings, not bundles.
2. *Two mails in a run.*  `node_human_review` mails before its interrupt, and the mark
   that it did is part of the abandoned super-step; "We email AT MOST ONCE PER RUN"
   (graph.py:918) is broken by one pause.
3. *The clarify gate never converges on answers.*  They are recorded as events
   (graph.py:246); none of the four criteria `clarify_converged` reads is ever set from
   them, against "until all 4 are pinned" (README.md:44 of the repository).  Only
   `--assume-brief` or a state that has them passes.  `RunFinishes` therefore speaks of
   runs with an assumed brief only.
4. *The ceiling does not always wrap up.*  `run_auto` and the CLI pass a recursion limit
   of 200 for any `--max-iterations`, against "always wraps up" (graph.py:1139).

5. *A dead session is handed out again.*  `_checkin` drops a session only when `_client`
   is None (sdk_client.py:850), but a turn that fails leaves it set; the session goes
   back to the idle list and the retry gets it, against "A session that died ... is
   dropped" (sdk_client.py:792).  `SessionsWithinCap` and `FanoutReturns` hold
   nevertheless: what is lost are the attempts.
6. *A steer is lost.*  `cos steer` writes `state.json`; `run --resume` and `resume`
   continue from `checkpoint.db` and overwrite it, against the promise it prints
   (cli.py:331).
7. *A dropped file is lost.*  A file whose conversion raises anything but the two expected
   errors ends the scan; the files before it stay marked although their evidence is gone
   with the call (internal_doc.py:251), against "a dropped file is never silently
   ignored" (convert.py:92).  It also blocks every file sorted after it, in every round.

Further disagreements seen while modelling, without a run of their own:

* H6's option "revise" (graph.py:1041) leads to END like "confirm" (graph.py:1258).
* `human_push` runs only when nothing is addressable (graph.py:1110), and then finds no
  issue to hand over (graph.py:836): its HumanTask is created only if a status
  changes between the two, which no node does.  (`HumanPush` fires in `Rounds.cfg`,
  with an empty `PushTarget`.)
* `cos run` and `cos resume` publish no cap (run_cap.py:64 names run_loop and run_auto),
  so a run resumed after `run-auto` is uncapped.
* The memo "stored for the human to see" (graph.py:893) is lost with the interrupt and
  built anew after his answer.
* Two issues of the same title selected in one batch are both researched, against "a
  query is researched at most once per run" (graph.py:90): the seen-set is read before
  and written after the selection.
* Steers pending at the start are consumed by the loop head before any issue exists
  (graph.py:292, 301).
* An issue whose researcher failed is never tried again and stays in the supervisor's
  window.  `WindowNotClogged` says how many of them it takes for a round that sends
  nobody although a new issue waits: as many as the window has places beside the
  researchers of one round, which is one with the code's window of 4 and three
  researchers (stubs.py:25, graph.py:90).
* The deep audit may turn a high-risk pull, which auto mode must not default, into a
  low-risk one (graph.py:876, 804).
* A task that backs off keeps its place in the fan-out (graph.py:428), against "never holds
  a concurrency slot" (sdk_client.py:865), which is true of the pool's permit alone.
* `connect()` has no timeout, and a session whose connect failed is not registered for
  `aclose`.  After one timed-out turn a session is one answer behind for everyone who
  takes it.  The drop branch of `_checkin` is never taken.
* `cos run -q` ignores what `init`, `clarify` and `steer` left in the directory.  What
  `revise-brief` mirrors into the state of a paused run is overwritten by `resume`.
  `cos resume -a` on a thread that crashed, rather than paused, prints that it answered
  also where no gate took the answer.
* A second end of `cos clarify` overwrites `brief.v1` (clarifier.py:231), against "NEVER
  silently overwrites" (conflict.py:5).  A version without its sidecar, after a crash,
  blocks `revise-brief` until it is removed.  `clarify --question` on an existing thread
  keeps its turns and its streak.
* `worker_results` and `_h7_approved_n` survive `--resume-state` on the same thread.  From
  an older `state.json`, which need not know what the thread has researched since, an issue
  is researched again; its new sources get the ids `S-<issue>-<i>` of the old ones
  (memo.py:111 looks up by id, the last bundle wins), and the claims of the first bundle
  are verified against the texts of the second.  `OwnSourcesDecide` excludes these issues.
* A challenge a human owns is reopened when the auditor raises it again with another
  status, although `convergence.py:25` takes such challenges out of the loop's hands.
  Nobody looks into the references that promote an answer to resolved.
* Readiness can be 5 with an open challenge once there are 11, and the target of 4 is met
  with three open challenges in ten (`TargetIsSevenInTen`); the board shows resolved
  and escalated challenges as pending; nothing sets `escalated_to_human`.
* The critic's remark overwrites the notes that hold the quote (real.py:571); the quote is
  taken from 20000 characters of a document and looked for in its first 2000 (real.py:444).
  Either way a supported claim can end up unverified.
* "memo STILL emits" (memo.py:272) holds for critical claims only: a key claim of an issue
  that is not high-impact blocks, and no human is asked about it.
* The challenges of the deep audit are not recorded.
* A note torn by a failed write is read back as an internal document, though an empty
  one; after a crash has lost the marks as well, a full one (`NotesStayWeb`); so does a
  restart on a state from before the marks.
* The proxy a researcher works on (graph.py:345) has no grid, challenges or documents, so
  internal routing and challenge prompts are never used there.
* The fail-closed error of the stage reporter is swallowed by `_report` (graph.py:194).

## 5. Proofs

TLAPS proves, for every value of the constants that satisfies the modules' named
assumptions:

| theorem | property | argument |
|---|---|---|
| *`ResearchLoopProofs`, `ResearchLoopSafety`, `ResearchLoopWindow`, `ResearchLoopRefinement`* | | |
| `TypeCorrect` | `TypeOK` | inductive as it stands, one step per action |
| `Ceiling` | `IterationCeiling` | `RoundInv`: in research nodes `iter < RoundLimit`, elsewhere `<=` |
| `CapHolds` | `CapEndsResearch` | `CapInv`, from the router and both sides of the pull gate |
| `ResearchedOnce` | `IssueResearchedOnce` | `DispatchInv`: a dispatched issue's title is in `researched` |
| `AnswersEvidenced` | `AnsweredByEvidence` | `EvidenceInv`: status against evidence, evidence and buffer against dispatch |
| `UnseenBounded` | `UnseenCellsBounded` | `ApprovalInv`: `shown` is part of the grid and has `approvedN` cells |
| `LoopNeverCutOff` | `NeverCutOff` | `StepsInv`: `steps <= 5 + 14 * iter` plus an offset per node |
| `StopsEarned` | `SoftStopEarned` | `EarnedInv`: broad expansion only after a branch, stalls at most rounds less one; then a case split of `Decide` |
| `WindowFree` | `WindowNotClogged` | `WindowInv`: what is delivered and folded less than twice is of one round, so at most `TopK` issues; an open issue before the first new one is one of those or lost, so the first new issue is inside the window |
| `Implements` | `KeepsLifecycle` | every step maps to a step of `RunLifecycle` or a stutter, under `TypeOK`, `RoundInv`, `CapInv` |
| *`SessionPoolProofs`* | | |
| `TypeCorrect` | `TypeOK` | `PoolInv`: the counters have their upper bounds only because of `PermitsConserved` |
| `PermitsKept` | `PermitsConserved` | each step moves one task, and `Moved` says what that does to the cardinality of a set of tasks |
| `SessionsExclusive`, `AllClosed` | `SessionExclusive`, `NothingLeftOpen` | `SessInv`: a session carries the name of the attempt that opened it, and exists only for attempts already made |
| `SessionsBounded` | `SessionsWithinCap` | `CapInv`: a session is opened only when none is idle, so the open ones are those of the other holders |
| `CrossedAfterTimeout` | `CrossedOnlyAfterTimeout` | `StreamInv`: a session on which no turn was given up has no open question between turns |
| `AnswersUnique` | `AnswerDeliveredOnce` | `AnswerInv`: no question stands in two queues or twice in one, none that was delivered, none not yet asked |
| `KeepsPromise` | `DeliversInOrder` | every step maps to a step of `Fanout` or a stutter; `OrderInv`: the critique has handled a first part of the delivered tasks, and `bundles` lists some of those in increasing order, so that what is returned is a listing `Fanout` allows |
| `NeverStuck` | `NobodyStuck` | from `PermitsConserved`: if nobody holds a permit there are free ones, then nobody waits for one, then nobody has a place and there are free ones; in the critique, from `OrderInv`, the first delivered task not yet handled is next |
| `StepsBounded` | `EveryStepAdvances` | action by action, from `PoolInv` and `OrderInv`: one task, or the caller, moves on by at least a station, where `attempt`, `tries` and what is handled stay within their bounds |
| *`BriefDialogueProofs`* | | |
| `TypeCorrect` | `TypeOK` | `TypeInv`: an answering process was given a question, a turn under way is within the bound |
| `AnswersStay`, `MirrorAtRest` | `AnswersDurable`, `AtRestMirrored` | `StoreInv`: both at once, since `--resume-state` turns the mirror into the checkpoint |
| `SnapshotNear` | `SnapshotAtMostOneAhead` | `Near`: checkpoint, mirror and the copy of a command bounded by one another, since each may replace the next; a torn mirror is nobody's copy |
| `LatestInForce`, `LatestMirrored` | `OnlyLatestInForce`, `MirrorsLatest` | `VersionsInv` per stage of a brief command, `MirrorInv` |
| *`ChallengeMapProofs`* | | |
| `LiveAreDistinct` | `DistinctLive` | `MapsInv`: the map, and that of every saved state, since a restart makes it the run's; a merge keeps the text, a mint happens only without a match, and no step makes a closed challenge live |
| `ResolvedHaveEvidence` | `ResolvedBacked` | `PendingRaw`: the contract never yields `resolved`, so only the promotion does |
| `MapForgetsNothing` | `NothingForgotten` | unless the run is started anew; a merge replaces one live challenge by one with its text and at least its evidence |
| *`MemoRoundsProofs`* | | |
| `TypeCorrect` | `TypeOK` | `IntakesInv`, `MapsInv`, `MemoInv` with `SavedTasks`: the same of the run and of every saved state |
| `ClaimsDecidedByOwnSources` | `OwnSourcesDecide` | for issues no restart has reopened; `BundleInv`: of those one well-made bundle in the buffer, and every element of the evidence, also in the saved states (`SavedIntake`), is from the buffer or made of a file; so sources of one id are the same source |
| `NotesAreNotIngested` | `NotesStayWeb` | `StoreInv`: every note belongs to a bundle of the buffer, so a step whose writes succeed has just marked it again; `MarkedInv`: until a crash, a note that is not torn is marked or a restart has unmarked it; `SavedWeb`: evidence in a saved state is excused by what is still counted |
| `FilesIngestedOnce` | `IngestedOnce` | `IngestInv`: an unmarked file on disk was saved once more than it was taken in; `SavedIngest`: also by the marks and the evidence of each saved state, whose marks a new save voids |
| `SupplementOnce` | `SupplementAskedOnce` | `Asking`: `Review` appends each text not yet asked for once; `SavedTasks`: a restart brings back such a list |
| `MemoIsHonest` | `EmittedIsHonest` | `MemoInv`, from the gates at `Review`, `OwnSourcesDecide`, and `TargetIsSevenInTen`: rounding does not blur the target; `VerifiedBorneOut`: where a restart has reopened the issue, a claim that verifies is borne out by sources of bundles of that issue |

Why the strengthenings are needed: hardly any of the properties is inductive.  The ceiling
of the loop is tested when a gate is left, up to ten nodes before the counter rises, so the
invariant must carry "not yet at the ceiling" along all research nodes; the recursion
limit needs a potential that says how far into its round a node is; H7 counts cells while
the property speaks of sets, and grids only grow.  In the pool, that an opened session is
new needs that session names follow the attempts; that an answer is unique needs to
speak of the questions still in the queues of dead and abandoned sessions.  In the run
directory, `AnswersDurable` fails without `AtRestMirrored`, because a start from
`state.json` makes it the run.  In the intake, a claim is decided across all bundles, so
the invariant must say that two bundles with a source of the same id came from the same
dispatch, through replays of the buffer, crashes and restarts.  Because a restart may load
any state ever saved, each invariant of this group is stated of the saved states as well,
and the history variables that excuse something only grow.

Assumptions used: `LoopAssumption`, `PoolAssumption`, `DirectoryAssumption`,
`DialogueAssumption`, `ChallengeAssumption`, `IntakeAssumption`, `MemoAssumption`, nothing
else; TLC evaluates each in the run of its group.  They give constants their types; beyond
that, `Cells`, issues, sources, sayings and files are finite, criteria pinned at the start
include a fallback (clarify.py reads the same field), and the dialogue's cap is not below
its window.

Only model-checked: liveness (`RunSettles`, `ClarifyConverges`, `FanoutReturns`,
`RunFinishes`), which is out of this prover's reach.  For the fan-out the two safety halves
of `FanoutReturns` are proved for all constants: before it returns there is always a task,
or the caller, that can move (`NeverStuck`), and each step takes one of them further along
a course of fixed length (`StepsBounded`).  What is left to TLC is the step from there to
termination, which needs `ENABLED` and fairness.

## 6. Not modelled

* **Cell pipeline** (`decision/cell_*.py`, `triangulation.py`, `retrieval_grade.py`): pure
  functions.  In the loop they have no effect: `classify_grid_cells` looks for bundles whose
  `issue_id` is a cell's id, and the fan-out's bundles carry ids of issues.
* **Synchronous `SessionPool`** of the cheap brains: one caller, one session per key.
* **Convergence history, board, the scorer's axes**: sums and renderings.  Whether the
  readiness target is met is a choice in `ResearchLoop`; in `MemoRounds` the scorer's axes
  are, and that of the challenges is computed (`ChallengeReadiness`).
* **Run metrics**: sums; the cap reads them, as the choice `CapReadings`.
* **Stage reporter, rendering, `show`, `watch`, `validate`, `conflict.detect`**: output only.
* **Prompts, model answers, HTTP, docling, mail transport, the auditor's subprocess**: their
  outcomes are the choices of the models.
* **`InternalDocResearcher`**: not reachable from the fan-out's proxy.
* **When the checkpointer serialises** (graph.py:243 changes the state in place before an
  interrupt): LangGraph's code; the models take the checkpoint as of the end of the
  super-step.
* **Scripts**: drivers around the public functions.
