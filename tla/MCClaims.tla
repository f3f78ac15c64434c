------------------------------ MODULE MCClaims ------------------------------
(***************************************************************************)
(* What comments, docstrings and documents of the repository say of the    *)
(* control loop and the code does not do.  Each statement is checked by a  *)
(* run of its own, which TLC ends with a counterexample; README.md tells   *)
(* what each of them shows.                                                *)
(***************************************************************************)
EXTENDS MCResearchLoop

\* graph.py:338, node_supervisor: "then clear the per-round worker buffer".
\* If it did, collect would fold a bundle into the evidence once, and no issue
\* could have more bundles than times it was sent to a researcher.
BundleFoldedOnce == \A i \in Issue : evidence[i] <= dispatched[i]

\* graph.py:918, above _notify_needs_supplement: "We email AT MOST ONCE PER
\* RUN".  The mailbox gets no second mail, however often the run is resumed.
EmailAtMostOnce == emails <= 1

\* A human who answers, whenever he is asked.
AnsweredSpec == LiveSpec /\ WF_vars(Human)

\* README.md:44, the H0 gate (node_clarify): "the cockpit ASKS, the human
\* ANSWERS - until all 4 are pinned".  With a human who always answers the gate
\* is therefore left, and a brief is written.
ClarifyConverges == <>(pc \notin {"intake", "scope", "clarify"})

\* graph.py:1139, _route: "HARD iteration ceiling - always wraps up".  A run is
\* never cut off before it has wrapped up.
CeilingAlwaysWrapsUp == pc # "aborted"
=============================================================================
