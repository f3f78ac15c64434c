------------------------------ MODULE RunSessions ------------------------------
(***************************************************************************)
(* The directory of one run, and the processes that work on it: at most    *)
(* one loop process (cos run, run-auto, run --resume, run --resume-state,  *)
(* resume) and, in another terminal, one short command at a time (steer;   *)
(* BriefDialogue adds the brief commands).                                 *)
(*                                                                         *)
(* Two stores hold the same ResearchState.  The loop lives on the          *)
(* checkpoint, written after every super-step.  state.json is written by   *)
(* the artifact node in every round, by the loop process when it ends, and *)
(* by the commands, which load it, change it and write it back.            *)
(*                                                                         *)
(* Of the loop remains what the stores tell apart: the clarify gate, a     *)
(* plan that takes in the pending steers, a question to the human, a round *)
(* of research.  ResearchLoop has the rest.                                *)
(***************************************************************************)
EXTENDS Integers, FiniteSets, Sequences

CONSTANTS
    Questions,    \* questions the gates inside the rounds ask, each answered once
    BriefQuestion,\* what the clarify gate asks for, as often as it is reached
    Steers,       \* steers a human may give
    MaxRounds,    \* --max-iterations
    MaxCrashes    \* bound on the processes that die

ASSUME DirectoryAssumption ==
    /\ IsFiniteSet(Questions)
    /\ BriefQuestion \notin Questions
    /\ IsFiniteSet(Steers)
    /\ MaxRounds \in Nat \ {0}
    /\ MaxCrashes \in Nat

NoQuestion == "no question"

\* content of research_brief: nothing, the stub of write_brief, or a SOTBrief
NoBrief == 0
Stub    == 1
Content == Nat \ {0, 1}

Asked == Questions \cup {BriefQuestion}

\* clarified: clarify_converged
State == [round: 0..MaxRounds, answers: SUBSET Asked, steers: SUBSET Steers,
          applied: SUBSET Steers, brief: Nat, clarified: BOOLEAN]

Fresh == [round |-> 0, answers |-> {}, steers |-> {}, applied |-> {}, brief |-> NoBrief,
          clarified |-> FALSE]

\* where a thread stands that has a next node
Unfinished == {"clarify", "plan", "research"}

VARIABLES
    ckpt,     \* checkpoint.db: next node, question it waits with, assume_brief, state
    snap,     \* state.json: "absent", "torn" or "ok", and the state
    pc,       \* the loop process: "none", or what it does next
    given,    \* the answer this process was started with
    cmd,      \* the other terminal: "none", "steer" or "mirror", between load and save
    copy,     \* what that command has loaded and changed
    crashes,
    \* history, read by no action
    kept,     \* questions whose answer a command has accepted
    promised, \* steers accepted before the loop process started
    parted    \* a crash, or the write of an outdated copy, has parted the stores

loop   == <<ckpt, pc, given>>
human  == <<cmd, copy>>
past   == <<kept, promised, parted>>
runVars == <<loop, snap, human, crashes, past>>

RunInit ==
    /\ ckpt = [at |-> "none", ask |-> NoQuestion, assume |-> FALSE, rs |-> Fresh]
    /\ snap = [file |-> "absent", rs |-> Fresh]
    /\ pc = "none"
    /\ given = NoQuestion
    /\ cmd = "none"
    /\ copy = Fresh
    /\ crashes = 0
    /\ kept = {}
    /\ promised = {}
    /\ parted = FALSE

\* steers a command has put into state.json so far
Accepted == IF snap.file = "ok" THEN snap.rs.steers ELSE {}

--------------------------------------------------------------------------------
(* The loop process.                                                           *)

\* cos init: an empty state.json, before anything else is done with the run
InitRun ==
    /\ pc = "none"
    /\ cmd = "none"
    /\ ckpt.at = "none"
    /\ snap.file = "absent"
    /\ snap' = [file |-> "ok", rs |-> Fresh]
    /\ UNCHANGED <<loop, human, crashes, past>>

\* cos run -q, run-auto: a fresh state, whatever the directory holds (the same id used
\* for a second question is another run); --assume-brief stays with the thread
StartRun ==
    /\ pc = "none"
    /\ ckpt.at = "none"
    /\ \E a \in BOOLEAN :
           ckpt' = [at |-> "clarify", ask |-> NoQuestion, assume |-> a, rs |-> Fresh]
    /\ pc' = "loop"
    /\ UNCHANGED <<snap, given, human, crashes, past>>

\* seeded bug: the thread is restarted on the mirror instead of on its checkpoint
BugResumeThread ==
    /\ pc = "none"
    /\ ckpt.at \in Unfinished
    /\ ckpt' = IF snap.file = "ok" THEN [ckpt EXCEPT !.rs = snap.rs] ELSE ckpt
    /\ pc' = IF ckpt.ask = NoQuestion THEN "loop" ELSE "leave"
    /\ promised' = Accepted
    /\ UNCHANGED <<snap, given, human, crashes, kept, parted>>

\* seeded bug: the thread is restarted on a fresh state
BugRestart ==
    /\ pc = "none"
    /\ ckpt.at \in Unfinished
    /\ ckpt' = [ckpt EXCEPT !.rs = Fresh]
    /\ pc' = IF ckpt.ask = NoQuestion THEN "loop" ELSE "leave"
    /\ promised' = Accepted
    /\ UNCHANGED <<snap, given, human, crashes, kept, parted>>

\* cos run --resume: no input, the thread goes on where its checkpoint stands; a
\* thread that waits in interrupt() asks again.
ResumeThread ==
    /\ pc = "none"
    /\ ckpt.at \in Unfinished
    /\ pc' = IF ckpt.ask = NoQuestion THEN "loop" ELSE "leave"
    /\ promised' = Accepted
    /\ UNCHANGED <<ckpt, snap, given, human, crashes, kept, parted>>

\* cos run --resume-state: state.json is the input of the thread, from intake, with
\* the --assume-brief of this command line
ResumeState ==
    /\ pc = "none"
    /\ snap.file = "ok"
    /\ \E a \in BOOLEAN :
           ckpt' = [at |-> "clarify", ask |-> NoQuestion, assume |-> a, rs |-> snap.rs]
    /\ pc' = "loop"
    /\ kept' = IF parted THEN kept \cap snap.rs.answers ELSE kept
    /\ promised' = Accepted
    /\ UNCHANGED <<snap, given, human, crashes, parted>>

\* what the gate asks at which the thread stands
Open == IF ckpt.at = "clarify" THEN IF ckpt.assume THEN {} ELSE {BriefQuestion}
        ELSE IF ckpt.at = "research" THEN Questions \ ckpt.rs.answers
        ELSE {}

\* seeded bug: the command is accepted without an answer
BugResume ==
    /\ pc = "none"
    /\ ckpt.at \in Unfinished
    /\ pc' = IF ckpt.ask = NoQuestion THEN "loop" ELSE "answering"
    /\ promised' = Accepted
    /\ UNCHANGED <<ckpt, snap, given, human, crashes, kept, parted>>

\* cos resume: any thread with a next node.  The answer goes to the node that waits.
\* Where none waits, after a crash, the thread goes on from its checkpoint: the answer
\* reaches the gate that is executed first, if one is, and no other.
Resume ==
    /\ pc = "none"
    /\ ckpt.at \in Unfinished
    /\ given' \in IF ckpt.ask # NoQuestion THEN {ckpt.ask} ELSE Open \cup {NoQuestion}
    /\ pc' = IF given' = NoQuestion THEN "loop" ELSE "answering"
    /\ promised' = Accepted
    /\ UNCHANGED <<ckpt, snap, human, crashes, kept, parted>>

\* the node is executed again, now with the answer, and checkpointed.  An answer to
\* the clarify gate is recorded as an event; it meets none of the four criteria, so
\* the gate is passed only where it was passed before.
Answer ==
    /\ pc = "answering"
    /\ ckpt' = [ckpt EXCEPT
                  !.at = IF @ # "clarify" THEN "research"
                         ELSE IF ckpt.rs.clarified THEN "plan" ELSE "clarify",
                  !.ask = NoQuestion,
                  !.rs.answers = @ \cup {given}]
    /\ pc' = "loop"
    /\ UNCHANGED <<snap, given, human, crashes, past>>

\* node_clarify where the brief is assumed
Clarify ==
    /\ pc = "loop"
    /\ ckpt.at = "clarify"
    /\ ckpt.assume
    /\ ckpt' = [ckpt EXCEPT !.at = "plan", !.rs.clarified = TRUE]
    /\ UNCHANGED <<snap, pc, given, human, crashes, past>>

\* the nodes up to the plan: write_brief writes its stub only where there is no
\* brief, orchestrator_plan consumes the pending steers
Plan ==
    /\ pc = "loop"
    /\ ckpt.at = "plan"
    /\ ckpt' = [ckpt EXCEPT !.at = "research",
                            !.rs.brief = IF @ = NoBrief THEN Stub ELSE @,
                            !.rs.applied = ckpt.rs.steers]
    /\ UNCHANGED <<snap, pc, given, human, crashes, past>>

\* seeded bug: the gates inside the rounds, too, ask what was answered before
BugAsk ==
    /\ pc = "loop"
    /\ \E q \in IF ckpt.at = "research" THEN Questions ELSE Open :
           ckpt' = [ckpt EXCEPT !.ask = q]
    /\ pc' = "leave"
    /\ UNCHANGED <<snap, given, human, crashes, past>>

\* a gate pauses the thread: what the node did to the state is not checkpointed
Ask ==
    /\ pc = "loop"
    /\ \E q \in Open : ckpt' = [ckpt EXCEPT !.ask = q]
    /\ pc' = "leave"
    /\ UNCHANGED <<snap, given, human, crashes, past>>

\* artifact_update: the snapshot is written before the super-step is checkpointed
Record ==
    /\ pc = "loop"
    /\ ckpt.at = "research"
    /\ snap' = [file |-> "ok",
                rs |-> [ckpt.rs EXCEPT !.round = IF @ < MaxRounds THEN @ + 1 ELSE @]]
    /\ pc' = "commit"
    /\ UNCHANGED <<ckpt, given, human, crashes, past>>

\* the decision ends the run, or, below the ceiling, another round begins
Commit ==
    /\ pc = "commit"
    /\ LET rs == [ckpt.rs EXCEPT !.round = IF @ < MaxRounds THEN @ + 1 ELSE @]
       IN  \/ /\ ckpt' = [ckpt EXCEPT !.at = "done", !.rs = rs]
              /\ pc' = "leave"
           \/ /\ rs.round < MaxRounds
              /\ ckpt' = [ckpt EXCEPT !.at = "plan", !.rs = rs]
              /\ pc' = "loop"
    /\ UNCHANGED <<snap, given, human, crashes, past>>

\* seeded bug: a command that ends at a question saves no snapshot
BugLeave ==
    /\ pc = "leave"
    /\ snap' = IF ckpt.ask = NoQuestion THEN [file |-> "ok", rs |-> ckpt.rs] ELSE snap
    /\ pc' = "none"
    /\ given' = NoQuestion
    /\ kept' = kept \cup ({given} \ {NoQuestion})
    /\ promised' = {}
    /\ parted' = FALSE
    /\ UNCHANGED <<ckpt, human, crashes>>

\* the stream has ended, at a question or at the end of the run: save_snapshot,
\* and the command returns
Leave ==
    /\ pc = "leave"
    /\ snap' = [file |-> "ok", rs |-> ckpt.rs]
    /\ pc' = "none"
    /\ given' = NoQuestion
    /\ kept' = kept \cup ({given} \ {NoQuestion})
    /\ promised' = {}
    /\ parted' = FALSE
    /\ UNCHANGED <<ckpt, human, crashes>>

\* The process dies.  A write in progress leaves a file that nobody can load.
Crash ==
    /\ pc # "none"
    /\ crashes < MaxCrashes
    /\ crashes' = crashes + 1
    /\ \/ UNCHANGED snap
       \/ /\ \/ pc = "leave"
             \/ pc = "loop" /\ ckpt.at = "research"
          /\ snap' = [file |-> "torn", rs |-> Fresh]
    /\ pc' = "none"
    /\ given' = NoQuestion
    /\ promised' = {}
    /\ parted' = TRUE
    /\ UNCHANGED <<ckpt, human, kept>>

--------------------------------------------------------------------------------
(* The other terminal.                                                         *)

\* cos steer: load state.json and append the event; on a missing or unreadable
\* file the command ends with an error
Steer(s) ==
    /\ cmd = "none"
    /\ snap.file = "ok"
    /\ s \notin snap.rs.steers
    /\ cmd' = "steer"
    /\ copy' = [snap.rs EXCEPT !.steers = @ \cup {s}]
    /\ UNCHANGED <<loop, snap, crashes, past>>

Progress(rs) == <<rs.round, rs.answers, rs.applied>>

\* save_snapshot, at the end of steer and of the brief commands
SaveCopy ==
    /\ cmd # "none"
    /\ snap' = [file |-> "ok", rs |-> copy]
    /\ cmd' = "none"
    /\ copy' = Fresh
    /\ parted' = (parted \/ snap.file # "ok" \/ Progress(copy) # Progress(snap.rs))
    /\ UNCHANGED <<loop, crashes, kept, promised>>

\* the command dies while it writes, or before
CrashCopy ==
    /\ cmd # "none"
    /\ crashes < MaxCrashes
    /\ crashes' = crashes + 1
    /\ \/ UNCHANGED snap
       \/ snap' = [file |-> "torn", rs |-> Fresh]
    /\ cmd' = "none"
    /\ copy' = Fresh
    /\ parted' = TRUE
    /\ UNCHANGED <<loop, kept, promised>>

LoopProcess == \/ StartRun \/ ResumeThread \/ ResumeState \/ Resume
               \/ Answer \/ Clarify \/ Plan \/ Ask \/ Record \/ Commit \/ Leave \/ Crash

Terminal == InitRun \/ SaveCopy \/ CrashCopy \/ \E s \in Steers : Steer(s)

--------------------------------------------------------------------------------
(* Properties.                                                                 *)

RunTypeOK ==
    /\ ckpt \in [at: {"none", "done"} \cup Unfinished, ask: Asked \cup {NoQuestion},
                 assume: BOOLEAN, rs: State]
    /\ snap \in [file: {"absent", "torn", "ok"}, rs: State]
    /\ pc \in {"none", "loop", "answering", "commit", "leave"}
    /\ given \in Asked \cup {NoQuestion}
    /\ cmd \in {"none", "steer", "mirror"}
    /\ copy \in State
    /\ crashes \in 0..MaxCrashes
    /\ kept \subseteq Asked
    /\ promised \subseteq Steers
    /\ parted \in BOOLEAN

\* An answer that a gate has taken and for which cos resume has returned is never
\* lost again: whatever dies afterwards, however the run is continued, the run still
\* has it.  (Only a start from a state.json that a crash or an outdated write has
\* parted from the run may lose one.)
AnswersDurable == kept \subseteq ckpt.rs.answers

\* state.json never runs more than the round in progress ahead of the checkpoint,
\* so a continued run repeats at most one round that was already shown.
SnapshotAtMostOneAhead ==
    snap.file = "ok" => snap.rs.round <= ckpt.rs.round + 1

\* Between the loop's processes state.json shows where the run stands, unless a
\* crash or a command that overlapped the loop came in between: the "inspectable
\* mirror" of store.py:5.
AtRestMirrored ==
    pc = "none" /\ ~parted /\ ckpt.at # "none" =>
        snap.file = "ok" /\ Progress(snap.rs) = Progress(ckpt.rs)
================================================================================
