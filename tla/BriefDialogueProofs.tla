--------------------------- MODULE BriefDialogueProofs ---------------------------
(***************************************************************************)
(* The safety properties of the run directory (RunSessions, BriefDialogue) *)
(* for every number of questions, steers, rounds, crashes and versions.    *)
(***************************************************************************)
EXTENDS BriefDialogue, SequenceTheorems, TLAPS

-----------------------------------------------------------------------------
(* Types.                                                                   *)

Counted(rs) == [rs EXCEPT !.round = IF @ < MaxRounds THEN @ + 1 ELSE @]

\* Recording a round keeps the state a state, and everything in it but the round.
LEMMA CountedType ==
    ASSUME NEW rs \in State
    PROVE  /\ Counted(rs) \in State
           /\ Counted(rs).round \in {rs.round, rs.round + 1}
           /\ Counted(rs).answers = rs.answers
           /\ Counted(rs).round < rs.round + 1 => rs.round = MaxRounds
BY DirectoryAssumption DEF State, Counted

LEMMA FreshType == Fresh \in State
BY DirectoryAssumption DEF Fresh, State, NoBrief

CkptType == [at: {"none", "done"} \cup Unfinished, ask: Asked \cup {NoQuestion},
             assume: BOOLEAN, rs: State]

SnapType == [file: {"absent", "torn", "ok"}, rs: State]

LEMMA RunTypes ==
    RunTypeOK => /\ ckpt \in CkptType
                 /\ snap \in SnapType
                 /\ ckpt.rs \in State /\ snap.rs \in State
                 /\ copy \in State
BY DEF RunTypeOK, CkptType, SnapType

\* A resumed process was started with an answer: without that the types are not
\* inductive, because Answer adds what it was given to the answers.
Answering == pc = "answering" => given \in Asked

\* A gate asks one of the questions.
LEMMA OpenType == Open \subseteq Asked
BY DEF Open, Asked

\* A step of the loop process keeps the types.
LEMMA LoopTypes == RunTypeOK /\ Answering /\ LoopProcess => RunTypeOK'
<1> SUFFICES ASSUME RunTypeOK, Answering, LoopProcess PROVE RunTypeOK'
  OBVIOUS
<1>0. /\ ckpt \in CkptType /\ snap \in SnapType /\ copy \in State
      /\ ckpt.rs \in State /\ snap.rs \in State /\ Fresh \in State
      /\ Accepted \subseteq Steers
  BY RunTypes, FreshType DEF Accepted, State
<1>1. CASE StartRun
  <2>1. ckpt' \in CkptType
    BY <1>0, <1>1 DEF StartRun, CkptType, Unfinished
  <2>2. QED
    BY <1>1, <2>1 DEF StartRun, RunTypeOK, CkptType, human, past
<1>2. CASE ResumeThread
  BY <1>0, <1>2 DEF ResumeThread, RunTypeOK, human
<1>3. CASE ResumeState
  <2>1. ckpt' \in CkptType
    BY <1>0, <1>3 DEF ResumeState, CkptType, Unfinished
  <2>2. QED
    BY <1>0, <1>3, <2>1 DEF ResumeState, RunTypeOK, CkptType, human
<1>4. CASE Resume
  <2>1. given' \in Asked \cup {NoQuestion} /\ pc' \in {"loop", "answering"}
    BY <1>0, <1>4, OpenType DEF Resume, CkptType
  <2>2. QED
    BY <1>0, <1>4, <2>1 DEF Resume, RunTypeOK, human
<1>5. CASE Answer
  <2>1. given \in Asked
    BY <1>5 DEF Answer, Answering
  <2>2. [ckpt.rs EXCEPT !.answers = @ \cup {given}] \in State
    BY <1>0, <2>1 DEF State
  <2>3. ckpt' \in CkptType
    BY <1>0, <1>5, <2>2 DEF Answer, CkptType, Unfinished
  <2>4. QED
    BY <1>5, <2>3 DEF Answer, RunTypeOK, CkptType, human, past
<1>6. CASE Plan
  <2>1. ckpt' \in CkptType
    BY <1>0, <1>6 DEF Plan, CkptType, State, NoBrief, Stub, Unfinished
  <2>2. QED
    BY <1>6, <2>1 DEF Plan, RunTypeOK, CkptType, human, past
<1>7. CASE Ask
  <2>1. ckpt' \in CkptType
    BY <1>0, <1>7, OpenType DEF Ask, CkptType
  <2>2. QED
    BY <1>7, <2>1 DEF Ask, RunTypeOK, CkptType, human, past
<1>8. CASE Record
  BY <1>0, <1>8, CountedType DEF Record, RunTypeOK, Counted, human, past
<1>9. CASE Commit
  <2>1. ckpt' \in CkptType
    BY <1>0, <1>9, CountedType DEF Commit, CkptType, Counted, Unfinished
  <2>2. QED
    BY <1>9, <2>1 DEF Commit, RunTypeOK, CkptType, human, past
<1>10. CASE Leave
  BY <1>0, <1>10 DEF Leave, RunTypeOK, human
<1>11. CASE Crash
  <2>1. snap' \in SnapType /\ crashes' \in 0..MaxCrashes
    BY <1>0, <1>11, DirectoryAssumption DEF Crash, SnapType, RunTypeOK
  <2>2. QED
    BY <1>11, <2>1 DEF Crash, RunTypeOK, SnapType, human
<1>12. CASE Clarify
  <2>1. ckpt' \in CkptType
    BY <1>0, <1>12 DEF Clarify, CkptType, State, Unfinished
  <2>2. QED
    BY <1>12, <2>1 DEF Clarify, RunTypeOK, CkptType, human, past
<1> QED
  BY <1>1, <1>2, <1>3, <1>4, <1>5, <1>6, <1>7, <1>8, <1>9, <1>10, <1>11, <1>12
     DEF LoopProcess

LEMMA TerminalTypes == RunTypeOK /\ Terminal => RunTypeOK'
<1> SUFFICES ASSUME RunTypeOK, Terminal PROVE RunTypeOK'
  OBVIOUS
<1>0. /\ ckpt \in CkptType /\ snap \in SnapType /\ copy \in State
      /\ snap.rs \in State /\ Fresh \in State
  BY RunTypes, FreshType
<1>1. CASE InitRun
  BY <1>0, <1>1 DEF InitRun, RunTypeOK, loop, human, past
<1>2. CASE SaveCopy
  BY <1>0, <1>2 DEF SaveCopy, RunTypeOK, loop
<1>3. CASE CrashCopy
  <2>1. snap' \in SnapType /\ crashes' \in 0..MaxCrashes
    BY <1>0, <1>3, DirectoryAssumption DEF CrashCopy, SnapType, RunTypeOK
  <2>2. QED
    BY <1>0, <1>3, <2>1 DEF CrashCopy, RunTypeOK, SnapType, loop
<1>4. ASSUME NEW s \in Steers, Steer(s) PROVE RunTypeOK'
  <2>1. copy' \in State
    BY <1>0, <1>4 DEF Steer, State
  <2>2. QED
    BY <1>4, <2>1 DEF Steer, RunTypeOK, loop, past
<1> QED
  BY <1>1, <1>2, <1>3, <1>4 DEF Terminal

LEMMA RunInitTypes == RunInit => RunTypeOK /\ Answering
<1> SUFFICES ASSUME RunInit PROVE RunTypeOK /\ Answering
  OBVIOUS
<1>1. ckpt \in CkptType /\ snap \in SnapType
  BY FreshType DEF RunInit, CkptType, SnapType
<1>2. parted \in BOOLEAN
  BY DEF RunInit
<1>3. crashes \in 0..MaxCrashes
  BY DirectoryAssumption DEF RunInit
<1>4. QED
  BY <1>1, <1>2, <1>3, FreshType DEF RunInit, RunTypeOK, CkptType, SnapType, Answering

LEMMA AnsweringStep ==
    RunTypeOK /\ Answering /\ (LoopProcess \/ Terminal \/ UNCHANGED runVars)
        => Answering'
<1> SUFFICES ASSUME RunTypeOK, Answering,
                    LoopProcess \/ Terminal \/ UNCHANGED runVars
             PROVE  Answering'
  OBVIOUS
<1>1. CASE LoopProcess
  <2>1. CASE Resume
    <3>1. pc' = "answering" => given' # NoQuestion
      BY <2>1 DEF Resume
    <3>2. RunTypeOK'
      BY <1>1, LoopTypes
    <3>3. QED
      BY <3>1, <3>2 DEF RunTypeOK, Answering
  <2>2. CASE LoopProcess /\ ~Resume
    BY <2>2 DEF LoopProcess, StartRun, ResumeThread, ResumeState, Answer, Clarify, Plan, Ask,
       Record, Commit, Leave, Crash, Answering
  <2>3. QED
    BY <1>1, <2>1, <2>2
<1>2. CASE Terminal
  BY <1>2 DEF Terminal, InitRun, SaveCopy, CrashCopy, Steer, loop, Answering
<1>3. CASE UNCHANGED runVars
  BY <1>3 DEF runVars, loop, Answering
<1> QED
  BY <1>1, <1>2, <1>3

Version == [readable: BOOLEAN, content: Nat, superseded: BOOLEAN]

BriefTypeOK ==
    /\ talk \in BOOLEAN
    /\ turns \in 0..MaxTurns
    /\ streak \in 0..StabilityWindow
    /\ briefs \in Seq(Version)
    /\ cl \in {"none", "turn", "finish", "revise", "supersede", "mirror"}
    /\ mirror \in Nat
    /\ contents \in 0..MaxContents
    /\ unsettled \in BOOLEAN

\* The engine takes a turn only when Say left room for it.
TurnLeft == cl = "turn" => turns < MaxTurns

LEMMA Split ==
    /\ TypeOK <=> RunTypeOK /\ BriefTypeOK
    /\ TypeOK' <=> RunTypeOK' /\ BriefTypeOK'
<1>1. TypeOK <=> RunTypeOK /\ BriefTypeOK
  BY DEF TypeOK, BriefTypeOK, Version
<1>2. TypeOK' <=> RunTypeOK' /\ BriefTypeOK'
  BY DEF TypeOK, BriefTypeOK, Version
<1>3. QED
  BY <1>1, <1>2

LEMMA FirstVersion == ASSUME NEW v \in Version PROVE <<v>> \in Seq(Version)
OBVIOUS

LEMMA DraftType == ASSUME NEW c \in Nat PROVE Draft(c) \in Version
BY DEF Draft, Version

\* A brief command keeps the types, its own and those of the run.
LEMMA BriefTypes == TypeOK /\ TurnLeft /\ Brief => TypeOK' /\ TurnLeft'
<1> SUFFICES ASSUME RunTypeOK, BriefTypeOK, TurnLeft, Brief
             PROVE  RunTypeOK' /\ BriefTypeOK' /\ TurnLeft'
  BY Split
<1>0. UNCHANGED runVars => RunTypeOK'
  BY DEF runVars, loop, human, past, RunTypeOK
<1>1. ASSUME NEW q \in BOOLEAN, Say(q) PROVE RunTypeOK' /\ BriefTypeOK' /\ TurnLeft'
  BY <1>0, <1>1, DialogueAssumption DEF Say, BriefTypeOK, TurnLeft, versions
<1>2. CASE TurnFails
  BY <1>0, <1>2 DEF TurnFails, BriefTypeOK, TurnLeft, dialogue, versions
<1>3. ASSUME NEW a \in BOOLEAN, NEW c \in BOOLEAN, EngineTurn(a, c)
      PROVE  RunTypeOK' /\ BriefTypeOK' /\ TurnLeft'
  BY <1>0, <1>3, DialogueAssumption DEF EngineTurn, BriefTypeOK, TurnLeft, versions
<1>4. CASE WriteFirst
  <2>1. NextContent \in Nat /\ Draft(NextContent) \in Version
    BY DraftType, DialogueAssumption DEF NextContent, BriefTypeOK
  <2>2. briefs' \in Seq(Version)
    <3>1. CASE briefs = <<>>
      BY <1>4, <2>1, <3>1, FirstVersion DEF WriteFirst
    <3>2. CASE briefs # <<>>
      <4>1. 1 \in 1..Len(briefs)
        BY <3>2, EmptySeq DEF BriefTypeOK
      <4>2. QED
        BY <1>4, <2>1, <3>2, <4>1, ExceptSeq DEF WriteFirst, BriefTypeOK
    <3>3. QED
      BY <3>1, <3>2
  <2>3. QED
    BY <1>0, <1>4, <2>1, <2>2, DialogueAssumption
       DEF WriteFirst, BriefTypeOK, TurnLeft, dialogue
<1>5. CASE Revise
  BY <1>0, <1>5 DEF Revise, BriefTypeOK, TurnLeft, dialogue, versions
<1>6. CASE WriteRevision
  <2>1. NextContent \in Nat /\ Draft(NextContent) \in Version
    BY DraftType, DialogueAssumption DEF NextContent, BriefTypeOK
  <2>2. QED
    BY <1>0, <1>6, <2>1, DialogueAssumption DEF WriteRevision, BriefTypeOK, TurnLeft, dialogue
<1>7. CASE Supersede
  <2>1. /\ briefs \in [1..Len(briefs) -> Version]
        /\ Len(briefs) \in Nat
        /\ \A x \in Version : [x EXCEPT !.superseded = TRUE] \in Version
    BY LenProperties DEF BriefTypeOK, Version
  <2>2. briefs' \in [1..Len(briefs) -> Version]
    BY <1>7, <2>1 DEF Supersede
  <2>3. briefs' \in Seq(Version)
    BY <2>1, <2>2, SeqDef
  <2>4. /\ cl' \in {"mirror", "none"}
        /\ mirror' \in {mirror, NoBrief}
    BY <1>7 DEF Supersede
  <2>7. unsettled' \in BOOLEAN
    BY <1>7 DEF Supersede, BriefTypeOK
  <2>5. UNCHANGED <<runVars, dialogue, contents>>
    BY <1>7 DEF Supersede
  <2>6. QED
    BY <1>0, <2>3, <2>4, <2>5, <2>7 DEF BriefTypeOK, TurnLeft, dialogue, NoBrief
<1>8. CASE Mirror
  <2>1. copy' \in State /\ cmd' \in {"none", "steer", "mirror"}
    BY <1>8, RunTypes DEF Mirror, State, human, RunTypeOK, BriefTypeOK
  <2>2. QED
    BY <1>8, <2>1 DEF Mirror, RunTypeOK, loop, past, BriefTypeOK, TurnLeft, dialogue, versions,
       NoBrief
<1>9. CASE CrashBrief
  <2>1. [Draft(NoBrief) EXCEPT !.readable = FALSE] \in Version
    BY DEF Draft, Version, NoBrief
  <2>2. briefs' \in Seq(Version)
    <3>1. ASSUME NEW v \in 1..Len(briefs), briefs' = [briefs EXCEPT ![v].readable = FALSE]
          PROVE  briefs' \in Seq(Version)
      <4>1. \A x \in Version : [x EXCEPT !.readable = FALSE] \in Version
        BY DEF Version
      <4>2. briefs[v] \in Version
        BY ElementOfSeq DEF BriefTypeOK
      <4>3. QED
        BY <3>1, <4>1, <4>2, ExceptSeq DEF BriefTypeOK
    <3>2. briefs # <<>> => 1 \in 1..Len(briefs)
      BY EmptySeq DEF BriefTypeOK
    <3>3. Reached \subseteq 1..Len(briefs)
      BY LenProperties DEF BriefTypeOK, Reached
    <3>4. \/ briefs' = briefs
          \/ briefs' = <<[Draft(NoBrief) EXCEPT !.readable = FALSE]>>
          \/ briefs' = Append(briefs, [Draft(NoBrief) EXCEPT !.readable = FALSE])
          \/ \E v \in 1..Len(briefs) : briefs' = [briefs EXCEPT ![v].readable = FALSE]
      BY <1>9, <3>2, <3>3 DEF CrashBrief
    <3>5. CASE briefs' = briefs
      BY <3>5 DEF BriefTypeOK
    <3>6. CASE briefs' = <<[Draft(NoBrief) EXCEPT !.readable = FALSE]>>
      BY <2>1, <3>6, FirstVersion
    <3>7. CASE briefs' = Append(briefs, [Draft(NoBrief) EXCEPT !.readable = FALSE])
      BY <2>1, <3>7, AppendProperties DEF BriefTypeOK
    <3>8. QED
      BY <3>1, <3>4, <3>5, <3>6, <3>7
  <2>3. QED
    BY <1>9, <2>2, DirectoryAssumption
       DEF CrashBrief, RunTypeOK, BriefTypeOK, TurnLeft, NoBrief, loop, human, past, dialogue
<1> QED
  BY <1>1, <1>2, <1>3, <1>4, <1>5, <1>6, <1>7, <1>8, <1>9 DEF Brief

TypeInv == TypeOK /\ Answering /\ TurnLeft

LEMMA TypeStep == TypeInv /\ [Next]_vars => TypeInv'
<1> SUFFICES ASSUME TypeInv, [Next]_vars PROVE TypeInv'
  OBVIOUS
<1>0. RunTypeOK /\ BriefTypeOK /\ TypeOK
  BY Split DEF TypeInv
<1>1. UNCHANGED briefVars => BriefTypeOK' /\ TurnLeft'
  BY <1>0 DEF briefVars, dialogue, versions, BriefTypeOK, TurnLeft, TypeInv
<1>2. CASE LoopProcess /\ UNCHANGED briefVars
  BY <1>0, <1>1, <1>2, LoopTypes, AnsweringStep, Split DEF TypeInv
<1>3. CASE OtherTerminal
  BY <1>0, <1>1, <1>3, TerminalTypes, AnsweringStep, Split DEF TypeInv, OtherTerminal
<1>4. CASE Brief
  <2>1. pc' = pc /\ given' = given
    BY <1>4 DEF Brief, Say, TurnFails, EngineTurn, WriteFirst, Revise, WriteRevision,
       Supersede, Mirror, CrashBrief, runVars, loop
  <2>2. QED
    BY <1>0, <1>4, <2>1, BriefTypes DEF TypeInv, Answering
<1>5. CASE UNCHANGED vars
  <2>1. RunTypeOK' /\ UNCHANGED runVars /\ UNCHANGED briefVars
    BY <1>0, <1>5 DEF vars, runVars, loop, human, past, RunTypeOK
  <2>2. QED
    BY <1>0, <1>1, <2>1, AnsweringStep, Split DEF TypeInv
<1> QED
  BY <1>2, <1>3, <1>4, <1>5 DEF Next

LEMMA TypeStart == Init => TypeInv
<1> SUFFICES ASSUME Init PROVE TypeInv
  OBVIOUS
<1>1. talk \in BOOLEAN /\ unsettled \in BOOLEAN
  BY DEF Init
<1>2. BriefTypeOK /\ TurnLeft
  BY <1>1, DialogueAssumption, EmptySeq DEF Init, BriefTypeOK, TurnLeft, NoBrief
<1>3. QED
  BY <1>2, RunInitTypes, Split DEF Init, TypeInv

\* Every variable has its type: the checkpoint, the snapshot and the copy of a command
\* are states of a run, and versions and counters stay within their bounds.
THEOREM TypeCorrect == Spec => []TypeOK
<1>1. TypeInv => TypeOK
  BY DEF TypeInv
<1>2. QED
  BY TypeStart, TypeStep, <1>1, PTL DEF Spec

-----------------------------------------------------------------------------
(* The two stores.                                                          *)

\* Before the first super-step nothing has been asked or answered.
Unstarted == ckpt.at = "none" => /\ pc = "none"
                                 /\ kept = {}
                                 /\ ckpt.ask = NoQuestion
                                 /\ ckpt.rs = Fresh

\* The answer a process was started with is in the checkpoint as soon as the node
\* that waited has been executed again.
GivenIn == /\ pc = "none" => given = NoQuestion
           /\ pc # "answering" => given \in ckpt.rs.answers \cup {NoQuestion}

\* AnswersDurable alone is not inductive: Leave adds what was given, ResumeState
\* replaces the checkpoint by the mirror.
StoreInv == Unstarted /\ GivenIn /\ AtRestMirrored /\ AnswersDurable

LEMMA StoreStart == Init => StoreInv
BY DEF Init, RunInit, StoreInv, Unstarted, GivenIn, AtRestMirrored, AnswersDurable, Fresh

LEMMA StoreKept == StoreInv /\ UNCHANGED <<loop, snap, past>> => StoreInv'
BY DEF StoreInv, loop, past, Unstarted, GivenIn, AtRestMirrored, AnswersDurable, Progress

LEMMA StoreLoop == TypeInv /\ StoreInv /\ LoopProcess => StoreInv'
<1> SUFFICES ASSUME TypeInv, StoreInv, LoopProcess PROVE StoreInv'
  OBVIOUS
<1> USE DEF StoreInv, Unstarted, GivenIn, AtRestMirrored, AnswersDurable
<1>0. /\ ckpt \in CkptType /\ snap \in SnapType
      /\ ckpt.rs \in State /\ snap.rs \in State
  BY Split, RunTypes DEF TypeInv
<1>1. CASE StartRun
  <2>1. ckpt'.at = "clarify" /\ ckpt'.rs = Fresh /\ kept' = {} /\ pc' = "loop"
    BY <1>1 DEF StartRun, past
  <2>2. given' = NoQuestion
    BY <1>1 DEF StartRun
  <2>3. QED
    BY <2>1, <2>2
<1>2. CASE ResumeThread
  BY <1>2 DEF ResumeThread, Unfinished, human
<1>3. CASE ResumeState
  <2>1. ckpt.at # "none" /\ ~parted => kept \subseteq snap.rs.answers
    BY <1>3 DEF ResumeState, Progress
  <2>2. parted => kept' \subseteq snap.rs.answers
    BY <1>3 DEF ResumeState
  <2>3. kept' \subseteq kept
    BY <1>3 DEF ResumeState
  <2>4. kept' \subseteq snap.rs.answers
    BY <1>3, <2>1, <2>2, <2>3 DEF ResumeState
  <2>5. QED
    BY <1>3, <2>4 DEF ResumeState, human
<1>4. CASE Resume
  <2>1. pc' # "none" /\ (pc' # "answering" => given' = NoQuestion)
    BY <1>4 DEF Resume
  <2>2. UNCHANGED <<ckpt, kept>> /\ ckpt.at # "none"
    BY <1>4 DEF Resume, Unfinished
  <2>3. QED
    BY <2>1, <2>2
<1>5. CASE Answer
  BY <1>0, <1>5 DEF Answer, CkptType, State, human, past
<1>6. CASE Plan
  BY <1>0, <1>6 DEF Plan, CkptType, State, human, past
<1>12. CASE Clarify
  BY <1>0, <1>12 DEF Clarify, CkptType, State, human, past
<1>7. CASE Ask
  BY <1>0, <1>7 DEF Ask, CkptType, human, past
<1>8. CASE Record
  BY <1>8 DEF Record, human, past
<1>9. CASE Commit
  <2>1. Counted(ckpt.rs).answers = ckpt.rs.answers
    BY <1>0, CountedType
  <2>2. ckpt'.at # "none" /\ ckpt'.rs = Counted(ckpt.rs) /\ pc' # "none"
    BY <1>0, <1>9 DEF Commit, CkptType, Counted
  <2>3. QED
    BY <1>9, <2>1, <2>2 DEF Commit, human, past
<1>10. CASE Leave
  BY <1>10 DEF Leave, human, Progress
<1>11. CASE Crash
  BY <1>11 DEF Crash, human
<1> QED
  BY <1>1, <1>2, <1>3, <1>4, <1>5, <1>6, <1>7, <1>8, <1>9, <1>10, <1>11, <1>12
     DEF LoopProcess

LEMMA StoreTerminal == TypeInv /\ StoreInv /\ Terminal => StoreInv'
<1> SUFFICES ASSUME TypeInv, StoreInv, Terminal PROVE StoreInv'
  OBVIOUS
<1>1. CASE InitRun
  BY <1>1 DEF InitRun, StoreInv, Unstarted, GivenIn, AtRestMirrored, AnswersDurable, loop,
     human, past
<1>2. CASE SaveCopy
  BY <1>2 DEF SaveCopy, StoreInv, Unstarted, GivenIn, AtRestMirrored, AnswersDurable, loop,
     Progress
<1>3. CASE CrashCopy
  BY <1>3 DEF CrashCopy, StoreInv, Unstarted, GivenIn, AtRestMirrored, AnswersDurable, loop
<1>4. ASSUME NEW s \in Steers, Steer(s) PROVE StoreInv'
  BY <1>4, StoreKept DEF Steer
<1> QED
  BY <1>1, <1>2, <1>3, <1>4 DEF Terminal

\* The brief commands leave the loop and state.json alone; only SaveCopy writes it.
LEMMA BriefLeaves == Brief => UNCHANGED <<loop, snap, past>>
BY DEF Brief, Say, TurnFails, EngineTurn, WriteFirst, Revise, WriteRevision, Supersede,
   Mirror, CrashBrief, runVars

LEMMA StoreStep == TypeInv /\ StoreInv /\ [Next]_vars => StoreInv'
<1> SUFFICES ASSUME TypeInv, StoreInv, [Next]_vars PROVE StoreInv'
  OBVIOUS
<1>1. CASE Brief \/ UNCHANGED vars
  BY <1>1, BriefLeaves, StoreKept DEF vars, runVars
<1> QED
  BY <1>1, StoreLoop, StoreTerminal DEF Next, OtherTerminal

\* An answer for which cos resume has returned is in the checkpoint for ever, however
\* the processes die and are started again.
THEOREM AnswersStay == Spec => []AnswersDurable
<1>1. TypeInv /\ StoreInv => AnswersDurable
  BY DEF StoreInv
<1>2. QED
  BY TypeStart, TypeStep, StoreStart, StoreStep, <1>1, PTL DEF Spec

\* Between the processes state.json shows where the run stands, unless a crash or an
\* outdated write came in between.
THEOREM MirrorAtRest == Spec => []AtRestMirrored
<1>1. TypeInv /\ StoreInv => AtRestMirrored
  BY DEF StoreInv
<1>2. QED
  BY TypeStart, TypeStep, StoreStart, StoreStep, <1>1, PTL DEF Spec

-----------------------------------------------------------------------------
(* Rounds.                                                                  *)

\* A command's copy was read from state.json, so it is bounded like it, and it may
\* replace it: all three have to be compared with one another.
Near == /\ snap.rs.round <= ckpt.rs.round + 1
        /\ copy.round <= ckpt.rs.round + 1
        /\ snap.file = "ok" => copy.round <= snap.rs.round + 1

LEMMA NearStart == Init => Near
BY DEF Init, RunInit, Near, Fresh

LEMMA NearLoop == TypeInv /\ StoreInv /\ Near /\ LoopProcess => Near'
<1> SUFFICES ASSUME TypeInv, StoreInv, Near, LoopProcess PROVE Near'
  OBVIOUS
<1>0. /\ ckpt \in CkptType /\ snap \in SnapType
      /\ ckpt.rs \in State /\ snap.rs \in State
      /\ snap.rs.round \in Nat /\ ckpt.rs.round \in Nat /\ copy.round \in Nat
  BY Split, RunTypes, DirectoryAssumption DEF TypeInv, State
<1>1. Counted(ckpt.rs).round \in {ckpt.rs.round, ckpt.rs.round + 1}
  BY <1>0, CountedType
<1>2. CASE StartRun
  BY <1>0, <1>2 DEF StartRun, StoreInv, Unstarted, Near, Fresh, human
<1>3. CASE ResumeThread \/ Resume
  BY <1>0, <1>3 DEF ResumeThread, Resume, Near, human
<1>4. CASE ResumeState
  BY <1>0, <1>4 DEF ResumeState, Near, human
<1>5. CASE Answer
  BY <1>0, <1>5 DEF Answer, Near, human, State
<1>6. CASE Plan
  BY <1>0, <1>6 DEF Plan, CkptType, State, Near, human
<1>12. CASE Clarify
  BY <1>0, <1>12 DEF Clarify, CkptType, State, Near, human
<1>7. CASE Ask
  BY <1>0, <1>7 DEF Ask, CkptType, Near, human
<1>8. CASE Record
  <2>1. snap'.rs = Counted(ckpt.rs) /\ UNCHANGED <<ckpt, human>>
    BY <1>8 DEF Record, Counted
  <2>2. QED
    BY <1>0, <1>1, <2>1 DEF Near, human
<1>9. CASE Commit
  <2>1. ckpt'.rs = Counted(ckpt.rs) /\ UNCHANGED <<snap, human>>
    BY <1>0, <1>9 DEF Commit, CkptType, Counted
  <2>2. QED
    BY <1>0, <1>1, <2>1 DEF Near, human
<1>10. CASE Leave
  BY <1>0, <1>10 DEF Leave, Near, human
<1>11. CASE Crash
  BY <1>0, <1>11 DEF Crash, Near, Fresh, human
<1> QED
  BY <1>2, <1>3, <1>4, <1>5, <1>6, <1>7, <1>8, <1>9, <1>10, <1>11, <1>12 DEF LoopProcess

LEMMA NearStep == TypeInv /\ StoreInv /\ Near /\ [Next]_vars => Near'
<1> SUFFICES ASSUME TypeInv, StoreInv, Near, [Next]_vars PROVE Near'
  OBVIOUS
<1>0. /\ snap \in SnapType /\ snap.rs \in State
      /\ snap.rs.round \in Nat /\ ckpt.rs.round \in Nat /\ copy.round \in Nat
  BY Split, RunTypes, DirectoryAssumption DEF TypeInv, State
<1>1. CASE InitRun
  BY <1>0, <1>1 DEF InitRun, StoreInv, Unstarted, Near, Fresh, loop, human
<1>2. CASE SaveCopy \/ CrashCopy
  BY <1>0, <1>2 DEF SaveCopy, CrashCopy, Near, Fresh, loop
<1>3. ASSUME NEW s \in Steers, Steer(s) PROVE Near'
  <2>1. copy'.round = snap.rs.round /\ UNCHANGED <<loop, snap>>
    BY <1>0, <1>3 DEF Steer, State
  <2>2. QED
    BY <1>0, <2>1 DEF Near, loop
<1>4. CASE Mirror
  <2>1. copy'.round \in {copy.round, snap.rs.round} /\ UNCHANGED <<loop, snap>>
    BY <1>0, <1>4 DEF Mirror, State, human
  <2>2. QED
    BY <1>0, <2>1 DEF Near, loop
<1>5. CASE UNCHANGED <<ckpt, snap, copy>>
  BY <1>5 DEF Near
<1>6. CASE Brief /\ ~Mirror
  BY <1>5, <1>6 DEF Brief, Say, TurnFails, EngineTurn, WriteFirst, Revise, WriteRevision,
     Supersede, CrashBrief, runVars, loop, human
<1>7. CASE UNCHANGED vars
  BY <1>5, <1>7 DEF vars, runVars, loop, human
<1> QED
  BY <1>1, <1>2, <1>3, <1>4, <1>6, <1>7, NearLoop DEF Next, OtherTerminal, Terminal

\* state.json never shows more than the round in progress beyond the checkpoint.
THEOREM SnapshotNear == Spec => []SnapshotAtMostOneAhead
<1>1. Near => SnapshotAtMostOneAhead
  BY DEF Near, SnapshotAtMostOneAhead
<1>2. QED
  BY TypeStart, TypeStep, StoreStart, StoreStep, NearStart, NearStep, <1>1, PTL DEF Spec

-----------------------------------------------------------------------------
(* The versions of the brief.                                               *)

Last == briefs[Len(briefs)]

\* The latest version is never marked superseded.  Nothing but a complete revision
\* makes the others so, and it needs them readable: a version that cannot be read
\* leaves `unsettled` set.
VersionsInv ==
    /\ briefs # <<>> => ~Last.superseded
    /\ ~unsettled => \A v \in 1..Len(briefs) : briefs[v].readable
    /\ cl \in {"revise", "supersede"} => briefs # <<>>
    /\ cl = "supersede" => Last.readable
    /\ ~unsettled /\ cl # "supersede" =>
          \A v \in 1..Len(briefs) : briefs[v].superseded <=> v < Len(briefs)

\* What is carried from the brief into state.json, over two steps of the command.
MirrorInv ==
    /\ cl # "none" => cmd = "none"
    /\ cl = "supersede" => mirror = Last.content
    /\ cl = "mirror" /\ ~unsettled => briefs # <<>> /\ mirror = Last.content
    /\ cmd = "mirror" /\ ~unsettled => copy.brief = Last.content

LEMMA VersionsStart == Init => VersionsInv /\ MirrorInv
BY EmptySeq DEF Init, RunInit, VersionsInv, MirrorInv

\* A sequence of versions, its length and its members.
LEMMA Versions ==
    BriefTypeOK => /\ Len(briefs) \in Nat
                   /\ briefs # <<>> => Len(briefs) \in 1..Len(briefs)
                   /\ briefs = <<>> => Len(briefs) = 0
                   /\ briefs \in [1..Len(briefs) -> Version]
                   /\ \A v \in 1..Len(briefs) : briefs[v] \in Version
<1> SUFFICES ASSUME BriefTypeOK
             PROVE  /\ Len(briefs) \in Nat
                    /\ briefs # <<>> => Len(briefs) \in 1..Len(briefs)
                    /\ briefs = <<>> => Len(briefs) = 0
                    /\ briefs \in [1..Len(briefs) -> Version]
                    /\ \A v \in 1..Len(briefs) : briefs[v] \in Version
  OBVIOUS
<1>1. briefs \in Seq(Version)
  BY DEF BriefTypeOK
<1>2. QED
  BY <1>1, LenProperties, EmptySeq, ElementOfSeq

LEMMA LastIndex == ASSUME NEW n \in Nat, NEW v \in 1..n, ~(v < n) PROVE v = n
OBVIOUS

LEMMA VersionsBrief ==
    TypeInv /\ VersionsInv /\ MirrorInv /\ Brief => VersionsInv' /\ MirrorInv'
<1> SUFFICES ASSUME TypeInv, VersionsInv, MirrorInv, Brief
             PROVE  VersionsInv' /\ MirrorInv'
  OBVIOUS
<1> USE DEF VersionsInv, MirrorInv, Last
<1>0. /\ BriefTypeOK
      /\ Len(briefs) \in Nat
      /\ briefs # <<>> => Len(briefs) \in 1..Len(briefs)
      /\ briefs = <<>> => Len(briefs) = 0
      /\ briefs \in Seq(Version)
      /\ briefs \in [1..Len(briefs) -> Version]
      /\ \A v \in 1..Len(briefs) : briefs[v] \in Version
  BY Split, Versions DEF TypeInv, BriefTypeOK
<1>1. ASSUME NEW q \in BOOLEAN, Say(q) PROVE VersionsInv' /\ MirrorInv'
  BY <1>1 DEF Say, Free, versions, runVars, human
<1>2. CASE TurnFails
  BY <1>2 DEF TurnFails, versions, runVars, human
<1>3. ASSUME NEW a \in BOOLEAN, NEW c \in BOOLEAN, EngineTurn(a, c)
      PROVE  VersionsInv' /\ MirrorInv'
  BY <1>3 DEF EngineTurn, versions, runVars, human
<1>4. CASE WriteFirst
  <2>1. CASE briefs = <<>>
    <3>1. briefs' = <<Draft(NextContent)>> /\ unsettled' = unsettled
      BY <1>0, <1>4, <2>1 DEF WriteFirst, BriefTypeOK
    <3>2. /\ Len(briefs') = 1 /\ briefs'[1] = Draft(NextContent) /\ briefs' # <<>>
          /\ \A v \in 1..Len(briefs') : v = 1
      BY <3>1
    <3>3. QED
      BY <1>4, <3>1, <3>2 DEF WriteFirst, Draft, runVars, human
  <2>2. CASE briefs # <<>>
    <3>1. briefs' = [briefs EXCEPT ![1] = Draft(NextContent)] /\ unsettled' = TRUE
      BY <1>4, <2>2 DEF WriteFirst
    <3>2. Len(briefs') = Len(briefs) /\ briefs' # <<>>
      BY <1>0, <2>2, <3>1
    <3>3. Last' \in {Last, Draft(NextContent)}
      BY <1>0, <2>2, <3>1, <3>2
    <3>4. ~Last'.superseded
      BY <2>2, <3>3 DEF Draft
    <3>5. QED
      BY <1>4, <3>1, <3>2, <3>4 DEF WriteFirst, runVars, human
  <2>3. QED
    BY <2>1, <2>2
<1>5. CASE Revise
  BY <1>5 DEF Revise, Free, versions, runVars, human
<1>6. CASE WriteRevision
  <2>1. briefs' = Append(briefs, Draft(NextContent))
    BY <1>6 DEF WriteRevision
  <2>2. /\ Len(briefs') = Len(briefs) + 1
        /\ briefs'[Len(briefs')] = Draft(NextContent)
        /\ \A v \in 1..Len(briefs) : briefs'[v] = briefs[v]
        /\ briefs' # <<>>
    BY <1>0, <2>1
  <2>3. ~unsettled => \A v \in 1..Len(briefs') : briefs'[v].readable
    BY <1>0, <2>2 DEF Draft
  <2>4. QED
    BY <1>6, <2>2, <2>3 DEF WriteRevision, Draft, runVars, human
<1>7. CASE Supersede
  <2>1. /\ briefs' \in [1..Len(briefs) -> Version]
        /\ \A v \in 1..Len(briefs) :
              /\ briefs'[v].readable = briefs[v].readable
              /\ briefs'[v].content = briefs[v].content
              /\ briefs'[v].superseded <=> v \in Reached \/ briefs[v].superseded
    <3>1. \A x \in Version : /\ [x EXCEPT !.superseded = TRUE] \in Version
                             /\ [x EXCEPT !.superseded = TRUE].readable = x.readable
                             /\ [x EXCEPT !.superseded = TRUE].content = x.content
                             /\ [x EXCEPT !.superseded = TRUE].superseded = TRUE
      BY DEF Version
    <3>2. \A v \in 1..Len(briefs) : 
             briefs'[v] = IF v \in Reached THEN [briefs[v] EXCEPT !.superseded = TRUE]
                          ELSE briefs[v]
      BY <1>7 DEF Supersede
    <3>3. briefs' \in [1..Len(briefs) -> Version]
      BY <1>0, <1>7, <3>1 DEF Supersede
    <3>4. ASSUME NEW v \in 1..Len(briefs)
          PROVE  /\ briefs'[v].readable = briefs[v].readable
                 /\ briefs'[v].content = briefs[v].content
                 /\ briefs'[v].superseded <=> v \in Reached \/ briefs[v].superseded
      <4>1. briefs[v] \in Version
        BY <1>0
      <4>2. CASE v \in Reached
        BY <3>1, <3>2, <4>1, <4>2
      <4>3. CASE v \notin Reached
        BY <3>2, <4>3
      <4>4. QED
        BY <4>2, <4>3
    <3>5. QED
      BY <3>3, <3>4
  <2>2. Len(briefs') = Len(briefs)
    BY <1>0, <2>1, LenProperties, SeqDef
  <2>3. /\ briefs # <<>> /\ briefs' # <<>>
        /\ Len(briefs) \in 1..Len(briefs)
        /\ Len(briefs) \notin Reached
    BY <1>0, <1>7, <2>2, EmptySeq DEF Supersede, Reached
  <2>4. ~Last'.superseded /\ Last'.content = Last.content
    BY <2>1, <2>2, <2>3
  <2>5. ~unsettled => Reached = 1..(Len(briefs) - 1)
    BY <1>0 DEF Reached
  <2>6. CASE Reached = 1..(Len(briefs) - 1)
    <3>1. cl' = "mirror" /\ mirror' = mirror
      BY <1>7, <2>6 DEF Supersede
    <3>2. \A v \in 1..Len(briefs) : v < Len(briefs) => v \in Reached
      BY <1>0, <2>6
    <3>3. \A v \in 1..Len(briefs') : briefs'[v].superseded <=> v < Len(briefs')
      <4> SUFFICES ASSUME NEW v \in 1..Len(briefs)
                   PROVE  briefs'[v].superseded <=> v < Len(briefs)
        BY <2>2
      <4>1. CASE v < Len(briefs)
        BY <2>1, <3>2, <4>1
      <4>2. CASE ~(v < Len(briefs))
        <5>1. v = Len(briefs)
          BY <1>0, <4>2, LastIndex
        <5>2. QED
          BY <2>2, <2>4, <4>2, <5>1
      <4>3. QED
        BY <4>1, <4>2
    <3>4. \A v \in 1..Len(briefs') : briefs'[v].readable
      <4> SUFFICES ASSUME NEW v \in 1..Len(briefs) PROVE briefs'[v].readable
        BY <2>2
      <4>1. CASE v < Len(briefs)
        <5>1. v \in Reached /\ v \in 1..v
          BY <3>2, <4>1
        <5>2. QED
          BY <2>1, <5>1 DEF Reached
      <4>2. CASE ~(v < Len(briefs))
        <5>1. v = Len(briefs)
          BY <1>0, <4>2, LastIndex
        <5>2. QED
          BY <1>7, <2>1, <5>1 DEF Supersede
      <4>3. QED
        BY <4>1, <4>2
    <3>5. QED
      BY <1>7, <2>3, <2>4, <3>1, <3>3, <3>4 DEF Supersede, runVars, human
  <2>7. CASE Reached # 1..(Len(briefs) - 1)
    BY <1>7, <2>3, <2>4, <2>5, <2>7 DEF Supersede, runVars, human
  <2>8. QED
    BY <2>6, <2>7
<1>8. CASE Mirror
  <2>1. UNCHANGED <<briefs, unsettled>> /\ cl' = "none" /\ cl = "mirror"
    BY <1>8 DEF Mirror, versions
  <2>2. snap.rs \in State
    BY Split, RunTypes DEF TypeInv
  <2>3. snap.file = "ok" => copy'.brief = mirror
    BY <1>8, <2>2 DEF Mirror, State
  <2>4. snap.file # "ok" => cmd' = "none"
    BY <1>8 DEF Mirror, human
  <2>5. QED
    BY <2>1, <2>3, <2>4
<1>9. CASE CrashBrief
  <2>1. cl' = "none" /\ unsettled' = TRUE /\ cmd' = "none"
    BY <1>9 DEF CrashBrief, human
  <2>2. briefs' # <<>> => ~Last'.superseded
    <3>1. ASSUME NEW v \in 1..Len(briefs), briefs' = [briefs EXCEPT ![v].readable = FALSE]
          PROVE  ~Last'.superseded
      <4>1. \A x \in Version : [x EXCEPT !.readable = FALSE].superseded = x.superseded
        BY DEF Version
      <4>2. Len(briefs') = Len(briefs) /\ briefs # <<>>
        BY <1>0, <3>1
      <4>3. Last'.superseded = Last.superseded
        BY <1>0, <3>1, <4>1, <4>2
      <4>4. QED
        BY <4>2, <4>3
    <3>2. CASE briefs' = briefs
      BY <3>2
    <3>3. CASE briefs' = <<[Draft(NoBrief) EXCEPT !.readable = FALSE]>>
      <4>1. Last' = [Draft(NoBrief) EXCEPT !.readable = FALSE]
        BY <3>3
      <4>2. QED
        BY <4>1 DEF Draft
    <3>4. CASE briefs' = Append(briefs, [Draft(NoBrief) EXCEPT !.readable = FALSE])
      <4>1. Last' = [Draft(NoBrief) EXCEPT !.readable = FALSE]
        BY <1>0, <3>4
      <4>2. QED
        BY <4>1 DEF Draft
    <3>5. Reached \subseteq 1..Len(briefs) /\ (briefs # <<>> => 1 \in 1..Len(briefs))
      BY <1>0 DEF Reached
    <3>6. QED
      BY <1>9, <3>1, <3>2, <3>3, <3>4, <3>5 DEF CrashBrief
  <2>3. QED
    BY <2>1, <2>2
<1> QED
  BY <1>1, <1>2, <1>3, <1>4, <1>5, <1>6, <1>7, <1>8, <1>9 DEF Brief

LEMMA VersionsStep ==
    TypeInv /\ VersionsInv /\ MirrorInv /\ [Next]_vars => VersionsInv' /\ MirrorInv'
<1> SUFFICES ASSUME TypeInv, VersionsInv, MirrorInv, [Next]_vars
             PROVE  VersionsInv' /\ MirrorInv'
  OBVIOUS
<1>1. UNCHANGED briefVars => VersionsInv'
  BY DEF briefVars, versions, VersionsInv, Last
<1>2. CASE LoopProcess /\ UNCHANGED briefVars
  <2>1. UNCHANGED human
    BY <1>2 DEF LoopProcess, StartRun, ResumeThread, ResumeState, Resume, Answer, Clarify,
       Plan, Ask, Record, Commit, Leave, Crash
  <2>2. QED
    BY <1>1, <1>2, <2>1 DEF briefVars, versions, human, MirrorInv, Last
<1>3. CASE OtherTerminal
  <2>1. cmd' = "mirror" => UNCHANGED human
    BY <1>3 DEF OtherTerminal, Terminal, InitRun, SaveCopy, CrashCopy, Steer, human
  <2>2. QED
    BY <1>1, <1>3, <2>1 DEF OtherTerminal, briefVars, versions, human, MirrorInv, Last
<1>4. CASE UNCHANGED vars
  BY <1>1, <1>4 DEF vars, runVars, briefVars, versions, human, MirrorInv, Last
<1> QED
  BY <1>2, <1>3, <1>4, VersionsBrief DEF Next

\* As soon as one revision has gone through, exactly the latest version is in force.
THEOREM LatestInForce == Spec => []OnlyLatestInForce
<1>1. VersionsInv => OnlyLatestInForce
  BY DEF VersionsInv, OnlyLatestInForce
<1>2. QED
  BY TypeStart, TypeStep, VersionsStart, VersionsStep, <1>1, PTL DEF Spec

\* What a brief command carries into state.json is the latest version.
THEOREM LatestMirrored == Spec => []MirrorsLatest
<1>1. MirrorInv => MirrorsLatest
  BY DEF MirrorInv, MirrorsLatest, Last
<1>2. QED
  BY TypeStart, TypeStep, VersionsStart, VersionsStep, <1>1, PTL DEF Spec
=============================================================================
