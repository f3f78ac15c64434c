--------------------------- MODULE MCResearchLoop ---------------------------
(* Instances of ResearchLoop for TLC.                                      *)
EXTENDS ResearchLoop

Result(v, r, risk, deg, expl) ==
    [verdict |-> v, rec |-> r, highRisk |-> risk, degraded |-> deg,
     explained |-> expl]

Going    == Result("continue", "continue_research", FALSE, FALSE, TRUE)
Silent   == Result("continue", "continue_research", FALSE, FALSE, FALSE)
Rework   == Result("rework", "branch", FALSE, FALSE, TRUE)
Wrap     == Result("exhausted", "synthesize", FALSE, FALSE, TRUE)
AskLow   == Result("continue", "pull_human", FALSE, FALSE, TRUE)
AskHigh  == Result("continue", "pull_human", TRUE, FALSE, TRUE)
\* a degraded flag handed through by the contract
Degraded == Result("continue", "synthesize", FALSE, TRUE, TRUE)

MCSilent   == {Silent}
MCSteady   == {Going, Rework}
MCClosing  == {Rework, Wrap, Degraded, Silent}
MCGates    == {Going, Rework, Wrap, AskLow, AskHigh}

MCImpact   == [i \in 1..NumSeeds |-> IF i % 2 = 1 THEN 4 ELSE 3]
MCLowImpact == [i \in 1..NumSeeds |-> 3]
MCTitle    == [i \in Issue |-> i]
MCTitles   == Issue
MCNoIssue  == {{}}
MCSecond   == {{}, {2}}
MCSteerFirst == {{}, {1}}
MCFirst    == {1}
=============================================================================
