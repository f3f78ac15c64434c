----------------------------- MODULE MCMemoRounds -----------------------------
(***************************************************************************)
(* MemoRounds with values for TLC, and a statement of the program's        *)
(* comments that the code does not keep.                                   *)
(***************************************************************************)
EXTENDS MemoRounds

\* t2 restates t1, but not the other way round: the ratio is not symmetric
MCTexts == {"t1", "t2"}
MCRatio == [p \in MCTexts \X MCTexts |->
    CASE p[1] = p[2]            -> 100
      [] p = <<"t2", "t1">>     -> 85
      [] OTHER                  -> 84]

MCRaw == {
    [text |-> "t1", status |-> "needs_bu_judgment", confidence |-> "number", number |-> 4,
     refs |-> {"e1"}],
    [text |-> "t2", status |-> "answered", confidence |-> "high", number |-> 0, refs |-> {}]}

\* b.rar has an unsupported extension, c.docx is an Office file docling cannot read
MCKind == [f \in Files |-> CASE f = "a.md" -> "readable"
                             [] f = "b.rar" -> "reported"
                             [] OTHER -> "raises"]
MCPosition == [p \in Paths |-> CASE p = Drop("a.md")       -> 1
                                  [] p = Drop("b.rar")      -> 2
                                  [] p = Drop("c.docx")     -> 3
                                  [] p = Note("i1", "0")    -> 4
                                  [] OTHER                  -> 5]

\* Bound on what goes wrong or comes in from outside in one behaviour, all kinds together:
\* failed writes, crashes in node_collect, files saved by a human, challenges, issues a
\* restart makes researchable again.
MaxTroubles == 3

FewTroubles ==
    writeFaults + crashes + Cardinality({f \in Files : drops[f] > 0}) + Len(challenges)
        + Cardinality(reopened) <= MaxTroubles

\* States that differ only in what nothing will read count as one: an audit before the deep
\* audit replaces it, also after a restart, and saved states when no restart is left.
Reread == IF round < MaxRounds THEN {[s EXCEPT !.audit = <<>>] : s \in saved} ELSE {}

View ==
    <<pc, round, explicit, tasks, memo, Reread, past, intake, challenges, pending,
      IF pc \in {"review", "end"} THEN audit ELSE <<>>>>

\* "a dropped file is never silently ignored" (convert.py:92): what is marked as
\* processed is in the evidence.
ProcessedReachesEvidence ==
    \A p \in seen \cap Dropped : \E k \in DOMAIN evidence : evidence[k].from = p
================================================================================
