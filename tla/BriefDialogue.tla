----------------------------- MODULE BriefDialogue -----------------------------
(***************************************************************************)
(* The commands of the research brief on the run directory of RunSessions: *)
(* cos clarify takes one turn of a dialogue per process (dialogue file,    *)
(* thread of the clarify engine), and writes the first brief when the      *)
(* dialogue has converged or reached its cap; cos revise-brief writes a    *)
(* further version and marks the older ones superseded.  Both then mirror  *)
(* the brief into state.json.                                              *)
(*                                                                         *)
(* The engine (cn5_ask) is a library: a call takes one turn on its thread, *)
(* also when the thread had stopped, and then compiles.                    *)
(***************************************************************************)
EXTENDS RunSessions

CONSTANTS
    StabilityWindow, \* rounds that must agree: 2
    HardCap,         \* turns after which the dialogue is cut off: 12
    MaxTurns,        \* bound on the turns considered
    MaxVersions,     \* bound on the versions considered
    MaxContents      \* bound on the contents a brief may have

ASSUME DialogueAssumption ==
    /\ StabilityWindow \in Nat \ {0}
    /\ HardCap \in Nat
    /\ HardCap >= StabilityWindow
    /\ MaxTurns \in Nat
    /\ MaxVersions \in Nat
    /\ MaxContents \in Nat

VARIABLES
    talk,      \* clarify_dialogue.json has an entry
    turns,     \* engine thread: turns taken
    streak,    \* engine thread: last rounds with 3 of the 4 signals
    briefs,    \* brief.v1, brief.v2, ...: sidecar readable, content, superseded
    cl,        \* the brief command in the other terminal: "none", or what it does next
    mirror,    \* the content it will mirror
    contents,  \* contents used so far
    unsettled  \* history: a version was overwritten or a command died since the last
               \* complete revision

dialogue == <<talk, turns, streak>>
versions == <<briefs, contents>>
briefVars == <<dialogue, versions, cl, mirror, unsettled>>
vars == <<runVars, briefVars>>

Init ==
    /\ RunInit
    /\ talk = FALSE
    /\ turns = 0
    /\ streak = 0
    /\ briefs = <<>>
    /\ cl = "none"
    /\ mirror = NoBrief
    /\ contents = 0
    /\ unsettled = FALSE

Free == cl = "none" /\ cmd = "none"

Draft(c) == [readable |-> TRUE, content |-> c, superseded |-> FALSE]

NextContent == contents + 2

\* clarify --question starts the dialogue file anew, the engine's thread goes on;
\* clarify --answer needs a file to add to.  It is saved before the turn is taken.
Say(question) ==
    /\ Free
    /\ turns < MaxTurns
    /\ question \/ talk
    /\ talk' = TRUE
    /\ cl' = "turn"
    /\ UNCHANGED <<runVars, turns, streak, versions, mirror, unsettled>>

\* the model could not be reached: the entry stays in the file, no turn is taken
TurnFails ==
    /\ cl = "turn"
    /\ cl' = "none"
    /\ UNCHANGED <<runVars, dialogue, versions, mirror, unsettled>>

\* One turn: `active` when at least 3 signals hold.  The engine stops after it,
\* converged or at the cap of this one call, and compiles in any case; the session
\* tells the two apart.  A compile that fails ends the command.
EngineTurn(active, compiles) ==
    /\ cl = "turn"
    /\ turns' = turns + 1
    /\ streak' = IF ~active THEN 0
                 ELSE IF streak < StabilityWindow THEN streak + 1 ELSE streak
    /\ cl' = IF compiles /\ (streak' >= StabilityWindow \/ turns' >= HardCap)
             THEN "finish" ELSE "none"
    /\ UNCHANGED <<runVars, talk, versions, mirror, unsettled>>

\* _finalize_brief: always version 1
WriteFirst ==
    /\ cl = "finish"
    /\ contents < MaxContents
    /\ briefs' = IF briefs = <<>> THEN <<Draft(NextContent)>>
                 ELSE [briefs EXCEPT ![1] = Draft(NextContent)]
    /\ contents' = contents + 1
    /\ mirror' = NextContent
    /\ cl' = "mirror"
    /\ unsettled' = (unsettled \/ briefs # <<>>)
    /\ UNCHANGED <<runVars, dialogue>>

\* cos revise-brief: needs the latest version's sidecar
Revise ==
    /\ Free
    /\ briefs # <<>>
    /\ Len(briefs) < MaxVersions
    /\ briefs[Len(briefs)].readable
    /\ cl' = "revise"
    /\ UNCHANGED <<runVars, dialogue, versions, mirror, unsettled>>

\* seeded bug: the brief that was revised is mirrored, not the revision
BugWriteRevision ==
    /\ cl = "revise"
    /\ contents < MaxContents
    /\ briefs' = Append(briefs, Draft(NextContent))
    /\ contents' = contents + 1
    /\ mirror' = briefs[Len(briefs)].content
    /\ cl' = "supersede"
    /\ UNCHANGED <<runVars, dialogue, unsettled>>

WriteRevision ==
    /\ cl = "revise"
    /\ contents < MaxContents
    /\ briefs' = Append(briefs, Draft(NextContent))
    /\ contents' = contents + 1
    /\ mirror' = NextContent
    /\ cl' = "supersede"
    /\ UNCHANGED <<runVars, dialogue, unsettled>>

\* seeded bug: up_to_version is excluded
BugReached == {v \in 1..(Len(briefs) - 2) : \A w \in 1..v : briefs[w].readable}

\* the older versions that supersede() reaches: it stops with an error at the first
\* one it cannot read
Reached == {v \in 1..(Len(briefs) - 1) : \A w \in 1..v : briefs[w].readable}

Supersede ==
    /\ cl = "supersede"
    /\ briefs' = [v \in 1..Len(briefs) |->
                    IF v \in Reached THEN [briefs[v] EXCEPT !.superseded = TRUE]
                    ELSE briefs[v]]
    /\ IF Reached = 1..(Len(briefs) - 1)
       THEN cl' = "mirror" /\ unsettled' = FALSE /\ UNCHANGED mirror
       ELSE cl' = "none" /\ mirror' = NoBrief /\ UNCHANGED unsettled
    /\ UNCHANGED <<runVars, dialogue, contents>>

\* _mirror_brief_into_state loads state.json; without one there is nothing to do,
\* and one that cannot be read is an error
Mirror ==
    /\ cl = "mirror"
    /\ cl' = "none"
    /\ IF snap.file = "ok"
       THEN cmd' = "mirror" /\ copy' = [snap.rs EXCEPT !.brief = mirror]
       ELSE UNCHANGED human
    /\ mirror' = NoBrief
    /\ UNCHANGED <<loop, snap, crashes, past, dialogue, versions, unsettled>>

\* the command dies, perhaps between the markdown file and the sidecar of the
\* version it writes
CrashBrief ==
    /\ cl # "none"
    /\ crashes < MaxCrashes
    /\ crashes' = crashes + 1
    /\ \/ UNCHANGED briefs
       \/ /\ cl = "finish"
          /\ briefs' = IF briefs = <<>> THEN <<[Draft(NoBrief) EXCEPT !.readable = FALSE]>>
                       ELSE [briefs EXCEPT ![1].readable = FALSE]
       \/ /\ cl = "revise"
          /\ briefs' = Append(briefs, [Draft(NoBrief) EXCEPT !.readable = FALSE])
       \/ /\ cl = "supersede"
          /\ \E v \in Reached : briefs' = [briefs EXCEPT ![v].readable = FALSE]
    /\ cl' = "none"
    /\ mirror' = NoBrief
    /\ unsettled' = TRUE
    /\ UNCHANGED <<loop, snap, human, past, dialogue, contents>>

Brief == \/ \E q \in BOOLEAN : Say(q)
         \/ TurnFails
         \/ \E a, c \in BOOLEAN : EngineTurn(a, c)
         \/ WriteFirst \/ Revise \/ WriteRevision \/ Supersede \/ Mirror
         \/ CrashBrief

\* one command at a time in the other terminal
OtherTerminal == cl = "none" /\ Terminal /\ UNCHANGED briefVars

Next == \/ LoopProcess /\ UNCHANGED briefVars
        \/ OtherTerminal
        \/ Brief

Spec == Init /\ [][Next]_vars

\* A process that runs goes on.  The human starts the run, continues it after a
\* crash, and answers what it asks.
LiveSpec ==
    /\ Spec
    /\ WF_vars((Answer \/ Clarify \/ Plan \/ Ask \/ Record \/ Commit \/ Leave)
                /\ UNCHANGED briefVars)
    /\ WF_vars(StartRun /\ UNCHANGED briefVars)
    /\ WF_vars(ResumeThread /\ UNCHANGED briefVars)
    /\ SF_vars(Resume /\ UNCHANGED briefVars)

--------------------------------------------------------------------------------
(* Properties.                                                                 *)

TypeOK ==
    /\ RunTypeOK
    /\ talk \in BOOLEAN
    /\ turns \in 0..MaxTurns
    /\ streak \in 0..StabilityWindow
    /\ briefs \in Seq([readable: BOOLEAN, content: Nat, superseded: BOOLEAN])
    /\ cl \in {"none", "turn", "finish", "revise", "supersede", "mirror"}
    /\ mirror \in Nat
    /\ contents \in 0..MaxContents
    /\ unsettled \in BOOLEAN

\* "on a new confirm the prior versions are marked superseded" (brief.py:7): with no
\* brief command under way exactly the latest version is in force, also after
\* crashes, as soon as one further revision has gone through.
OnlyLatestInForce ==
    cl = "none" /\ ~unsettled =>
        \A v \in 1..Len(briefs) : briefs[v].superseded <=> v < Len(briefs)

\* What a brief command puts into state.json is the latest version, unless clarify
\* has rewritten version 1 under a later one.
MirrorsLatest ==
    cmd = "mirror" /\ ~unsettled => copy.brief = briefs[Len(briefs)].content

\* The clarify gate lets the run through: the brief is assumed, or was before.
Briefed == ckpt.assume \/ ckpt.rs.clarified

\* A run with an assumed brief (--assume-brief) whose processes die in between is
\* finished by the human who continues it and answers, whatever state the other files
\* are in; only someone who starts it again and again from state.json can keep it from
\* ending.  Without an assumed brief nothing is promised: the clarify gate repeats its
\* question after every answer (ClarifyConverges of MCClaims is refuted by that).
RunFinishes ==
    []<><<ResumeState>>_vars \/ <>[]~Briefed \/ <>(ckpt.at = "done")
================================================================================
