------------------------------- MODULE MemoRounds -------------------------------
(***************************************************************************)
(* The rounds of a run as the memo sees them: research, fold and scan,     *)
(* Albert's audit into the challenge map, the COS decision, and at the     *)
(* stop the deep audit and the memo with its citation routing and its four *)
(* emission gates (synthesis/memo.py, synthesis/gates.py).                 *)
(*                                                                         *)
(* Which decision is taken when is ResearchLoop's subject; here any may    *)
(* be.  A node that is cut off runs again on the state of its checkpoint,  *)
(* so that a crash leaves a trace only where a node writes files: in       *)
(* Collect.  At any time the run may also be started anew, on a state.json *)
(* that may be older than the run (cos run --resume-state) or on an empty  *)
(* state (cos run -q under the same id).  The thread is the same one, and  *)
(* what the reducer has kept on it is still there.                         *)
(***************************************************************************)
EXTENDS EvidenceIntake, ChallengeMap

CONSTANTS
    HighImpact,  \* issues with impact >= risk.HIGH_IMPACT
    MaxRounds    \* bound on the rounds, over all restarts

ASSUME MemoAssumption ==
    /\ HighImpact \subseteq Issues
    /\ MaxRounds \in Nat \ {0}

\* requested_input of a task: a claim's text, or that of node_human_push
InternalData == "internal data"
Request      == Sayings \cup {FileText, InternalData}

Memo == [emitted: BOOLEAN, explicit: BOOLEAN, supplement: SUBSET Request,
         unverified: SUBSET Request]

NoMemo == [emitted |-> FALSE, explicit |-> FALSE, supplement |-> {}, unverified |-> {}]

VARIABLES
    pc, round,
    explicit,  \* stop_reason, which nothing takes back (explicit_emit is never set)
    tasks,     \* human_tasks: HT-001 and so on, with their requested_input
    memo,      \* the memo the run ended with
    saved,     \* the states save_snapshot has written
    \* history, read by no action
    reopened,  \* issues whose title a restart has taken out of researched
    unmarked   \* notes whose mark a restart has taken out of seen

past == <<reopened, unmarked>>
vars == <<pc, round, explicit, tasks, memo, saved, past, intake, dialogue>>

\* research_state, as far as state.json brings it back
State == [researched |-> researched, blocked |-> blocked, evidence |-> evidence, seen |-> seen,
          challenges |-> challenges, audit |-> audit, tasks |-> tasks, explicit |-> explicit]

Fresh == [researched |-> {}, blocked |-> {}, evidence |-> <<>>, seen |-> {},
          challenges |-> <<>>, audit |-> <<>>, tasks |-> <<>>, explicit |-> FALSE]

Snapshot == [researched: SUBSET Issues, blocked: SUBSET Issues, evidence: Seq(Bundle),
             seen: SUBSET Paths, challenges: Seq(Challenge), audit: LastAudit,
             tasks: Seq(Request), explicit: BOOLEAN]

\* Paths with a new mtime: the marks that saved states have for them are void.
Outdated(paths) == saved' = {[s EXCEPT !.seen = @ \ paths] : s \in saved}

Init ==
    /\ IntakeInit
    /\ DialogueInit
    /\ pc = "research"
    /\ round = 1
    /\ explicit = FALSE
    /\ tasks = <<>>
    /\ memo = NoMemo
    /\ saved = {Fresh}
    /\ reopened = {}
    /\ unmarked = {}

--------------------------------------------------------------------------------
(* A round.                                                                    *)

FanOut(i) ==
    /\ pc = "research"
    /\ Research(i)
    /\ UNCHANGED <<pc, round, explicit, tasks, memo, saved, past, dialogue>>

Fold ==
    /\ pc = "research"
    /\ \E w \in WriteOutcomes : Collect(w) /\ Outdated(Written(w))
    /\ pc' = "audit"
    /\ UNCHANGED <<round, explicit, tasks, memo, past, dialogue>>

CrashInFold ==
    /\ pc = "research"
    /\ \E w \in WriteOutcomes : CrashInCollect(w) /\ Outdated(Written(w))
    /\ UNCHANGED <<pc, round, explicit, tasks, memo, past, dialogue>>

\* only the next scan reads the folder: a file saved later in a round is one saved in
\* the next
DropAFile(f) ==
    /\ pc = "research"
    /\ DropFile(f)
    /\ Outdated({Drop(f)})
    /\ UNCHANGED <<pc, round, explicit, tasks, memo, past, dialogue>>

AlbertAudit ==
    /\ pc = "audit"
    /\ AuditArrives
    /\ pc' = "record"
    /\ UNCHANGED <<round, explicit, tasks, memo, saved, past, intake>>

Record ==
    /\ pc = "record"
    /\ Mint \/ Merge
    /\ UNCHANGED <<pc, round, explicit, tasks, memo, saved, past, intake>>

\* artifact_update writes the snapshot; a command that pauses or ends later in the round
\* writes the same state
ArtifactUpdate ==
    /\ pc = "record"
    /\ pending = <<>>
    /\ saved' = saved \cup {State}
    /\ pc' = "decide"
    /\ UNCHANGED <<round, explicit, tasks, memo, past, intake, dialogue>>

\* continue, branch, re-rank, or a pull that was answered
NextRound ==
    /\ pc = "decide"
    /\ round < MaxRounds
    /\ round' = round + 1
    /\ pc' = "research"
    /\ UNCHANGED <<explicit, tasks, memo, saved, past, intake, dialogue>>

\* node_human_push: a task for an addressable issue, and on with the next round
Push(i) ==
    /\ pc = "decide"
    /\ round < MaxRounds
    /\ i \notin blocked
    /\ Cardinality({k \in DOMAIN evidence : evidence[k].from = From(i)}) < 2
    /\ tasks' = Append(tasks, InternalData)
    /\ blocked' = blocked \cup {i}
    /\ round' = round + 1
    /\ pc' = "research"
    /\ UNCHANGED <<explicit, memo, saved, past, researched, results, evidence, seen, store,
                   faults, dialogue>>

\* synthesize or terminal_stop; a hard cap sets stop_reason
Stop ==
    /\ pc = "decide"
    /\ explicit' \in {explicit, TRUE}
    /\ pc' = "deep"
    /\ UNCHANGED <<round, tasks, memo, saved, past, intake, dialogue>>

Deep ==
    /\ pc = "deep"
    /\ DeepAudit
    /\ pc' = "review"
    /\ UNCHANGED <<round, explicit, tasks, memo, saved, past, intake>>

--------------------------------------------------------------------------------
(* The memo.                                                                   *)

\* claims the citation pass does not verify, with the issue of their bundle
Unverified ==
    UNION {{[text |-> c.text, key |-> c.key, from |-> evidence[k].from] :
               c \in {d \in evidence[k].claims : ~Verified(d)}} : k \in DOMAIN evidence}

\* route_citations: decision-critical is what a high-impact issue rests on while the
\* pull posture of the run is high
Critical(high) ==
    {u.text : u \in {v \in Unverified : high /\ v.from \in {From(i) : i \in HighImpact}}}

Asked == {tasks[k] : k \in DOMAIN tasks}

\* seeded bug: what an earlier review asked for is asked for again
BugToAsk(high) == Critical(high)

ToAsk(high) == Critical(high) \ Asked

\* seeded bug: a claim some earlier memo asked about is exempt, too
BugUnverifiedKey(high) == {u.text : u \in {v \in Unverified : v.key}} \ Asked

\* citation_pass, without the texts routed to a supplement
UnverifiedKey(high) == {u.text : u \in {v \in Unverified : v.key}} \ Critical(high)

\* targets_met: every axis at the target, where all but the challenges' is the scorer's word
TargetsMet(scored) ==
    scored /\ (challenges # <<>> => ChallengeReadiness >= ReadinessTarget)

\* check_emission: audit and citation always, convergence and readiness unless explicit
Emits(high, scored) ==
    /\ AuditGenuine
    /\ explicit \/ ~HighImpactUnresolved
    /\ UnverifiedKey(high) = {}
    /\ explicit \/ TargetsMet(scored)

\* risk.classify_pull: a high audit risk, or the state of the issue map, which is left
\* open here, and so are the scorer's axes
Review ==
    /\ pc = "review"
    /\ \E onIssues \in BOOLEAN, scored \in BOOLEAN :
        LET high == HighRisk \/ onIssues
        IN  /\ \E s \in [1..Cardinality(ToAsk(high)) -> ToAsk(high)] :
                 /\ \A j, k \in DOMAIN s : j # k => s[j] # s[k]
                 /\ tasks' = tasks \o s
            /\ memo' = [emitted |-> Emits(high, scored), explicit |-> explicit,
                        supplement |-> Critical(high), unverified |-> UnverifiedKey(high)]
    /\ pc' = "end"
    /\ UNCHANGED <<round, explicit, past, intake, dialogue>>
    /\ saved' = saved \cup {State'}

\* cos run --resume-state, or cos run -q with the id of the run (its Fresh state is in
\* saved from the start): the thread begins again on a state that was saved at some time.
\* state.json need not hold the last one: the process may have died before it was
\* written, and a command that overlaps the loop writes back what it had read.
Restart ==
    /\ round < MaxRounds
    /\ \E s \in saved :
        /\ researched' = s.researched
        /\ blocked' = s.blocked
        /\ evidence' = s.evidence
        /\ seen' = s.seen
        /\ challenges' = s.challenges
        /\ audit' = s.audit
        /\ tasks' = s.tasks
        /\ explicit' = s.explicit
        /\ reopened' = reopened \cup (researched \ s.researched)
        /\ unmarked' = unmarked \cup ((seen \ s.seen) \cap Notes)
    /\ pending' = <<>>
    /\ round' = round + 1
    /\ memo' = NoMemo
    /\ pc' = "research"
    /\ UNCHANGED <<saved, results, store, faults>>

Next ==
    \/ \E i \in Issues : FanOut(i) \/ Push(i)
    \/ \E f \in Files : DropAFile(f)
    \/ Fold \/ CrashInFold
    \/ AlbertAudit \/ Record \/ ArtifactUpdate
    \/ NextRound \/ Stop \/ Deep \/ Review \/ Restart

Spec == Init /\ [][Next]_vars

--------------------------------------------------------------------------------
(* Properties                                                                  *)

\* Every variable has its type.
TypeOK ==
    /\ IntakeTypeOK
    /\ DialogueTypeOK
    /\ pc \in {"research", "audit", "record", "decide", "deep", "review", "end"}
    /\ round \in 1..MaxRounds
    /\ explicit \in BOOLEAN
    /\ tasks \in Seq(Request)
    /\ memo \in Memo
    /\ saved \subseteq Snapshot
    /\ reopened \subseteq Issues
    /\ unmarked \subseteq Notes

\* "pre-mark its note's dedup key processed so the same-run scan does not re-ingest it"
\* (graph.py:482): a source of this run does not come back as internal evidence, which
\* verifies by construction.  It takes a failed write, and that gives an empty note, which
\* backs no claim, unless a crash or a restart had lost the mark the note had.
NotesStayWeb ==
    \A k \in DOMAIN evidence : evidence[k].from \in Notes =>
        /\ writeFaults > 0
        /\ evidence[k].claims = {} \/ crashes > 0 \/ evidence[k].from \in unmarked

Reopened(bundle) == \E i \in reopened : bundle.from = From(i)

\* The memo looks a claim's sources up by id among the sources of all bundles; that
\* decides the claim as the sources of its own bundle would.  It rests on the
\* supervisor's rule to research a title once (graph.py:118), which a restart on a state
\* without the title undoes: the issue is researched again under the same source ids,
\* and of this issue's claims nothing is said here.
OwnSourcesDecide ==
    \A k \in DOMAIN evidence : ~Reopened(evidence[k]) => \A c \in evidence[k].claims :
        Verified(c) = VerifiedBy(c, {s \in evidence[k].sources : s.id \in c.refs})

\* the bundles whose sources may speak for the claims of bundle k
Speaking(k) ==
    IF Reopened(evidence[k]) THEN {j \in DOMAIN evidence : evidence[j].from = evidence[k].from}
    ELSE {k}

BorneOut(c, k) ==
    VerifiedBy(c, {s \in UNION {evidence[j].sources : j \in Speaking(k)} : s.id \in c.refs})

\* An emitted memo rests on a genuine audit, and each key claim of the evidence is
\* borne out by the sources of its own bundle or has gone to a human as a task
\* (synthesis/gates.py:5, memo.py:277), whatever was researched, replayed, ranked
\* away or asked for in earlier rounds and runs.  Where a restart has let an issue be
\* researched again, a source of another bundle of the same issue may do.  Unless the
\* memo was commanded, at most three in ten of Albert's challenges are unresolved, in
\* spite of the rounding (convergence.py:101), and none of high impact.
EmittedIsHonest ==
    (pc = "end" /\ memo.emitted) =>
        /\ AuditGenuine
        /\ memo.explicit \/ /\ ~HighImpactUnresolved
                            /\ 10 * Cardinality(Unresolved) <= 3 * Len(challenges)
        /\ \A k \in DOMAIN evidence : \A c \in evidence[k].claims :
            c.key => \/ BorneOut(c, k)
                     \/ c.text \in memo.supplement /\ \E n \in DOMAIN tasks : tasks[n] = c.text

AskedOnce(list) ==
    \A j, k \in DOMAIN list : (list[j] = list[k] /\ list[j] # InternalData) => j = k

\* A human is asked once for the support of a claim, over the bundles that repeat it, the
\* reviews and the restarts that bring the list of tasks back (memo.py:202).
SupplementAskedOnce == AskedOnce(tasks)

\* Whatever later audits return, the map never loses a challenge, a text or a piece of
\* evidence, and what is resolved is never opened again, unless the run is started anew.
NothingForgotten == [][MapKept \/ Restart]_challenges
================================================================================
