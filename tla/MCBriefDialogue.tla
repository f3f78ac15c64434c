---------------------------- MODULE MCBriefDialogue ----------------------------
(***************************************************************************)
(* BriefDialogue with values for TLC, and a statement of the program's     *)
(* texts that the code does not keep.                                      *)
(***************************************************************************)
EXTENDS BriefDialogue

Unread(rs) == [rs EXCEPT !.brief = NoBrief]

\* What the properties of the run directory can tell apart.  No property reads the brief
\* in the two stores (MirrorsLatest reads that of the copy), --assume-brief is read at the
\* gate it is for, the streak until the last turn considered, the content of a version
\* while it is the latest, and `promised` by SteerReachesPlan alone.
View == <<[ckpt EXCEPT !.rs = Unread(@), !.assume = @ /\ ckpt.at = "clarify"],
          [snap EXCEPT !.rs = Unread(@)],
          IF cmd = "mirror" THEN copy ELSE Unread(copy),
          IF turns < MaxTurns THEN dialogue ELSE <<turns>>,
          [v \in DOMAIN briefs |->
              IF v = Len(briefs) THEN briefs[v] ELSE [briefs[v] EXCEPT !.content = NoBrief]],
          pc, given, cmd, crashes, kept, parted, cl, mirror, contents, unsettled>>

\* cos steer says of the event it has written: "the next round of the next cos run
\* --resume / run-auto will re-rank" (cli.py:331, translated).  So a plan made by a
\* process started after the steer was accepted has taken it in.
SteerReachesPlan == [][Plan => promised \subseteq ckpt'.rs.applied]_vars
================================================================================
