-------------------------------- MODULE Fanout ---------------------------------
(***************************************************************************)
(* What run_research_fanout promises to the control loop: every selected   *)
(* issue is settled once, with a bundle or without one, whatever the order *)
(* in which the researchers finish; when all are settled the bundles come  *)
(* back in the order of the selection.                                     *)
(***************************************************************************)
EXTENDS Naturals, FiniteSets

CONSTANT NumTasks   \* issues selected, named by their place in the selection

Tasks == 1..NumTasks

VARIABLES outcome,  \* "pending", "bundle" or "dropped", for each task
          result    \* <<>> before the return, then <<the bundles>>

vars == <<outcome, result>>

\* the tasks of S, all of them, in the order of the selection
Listings(S) == {s \in [1..Cardinality(S) -> S] :
                  \A j, k \in 1..Cardinality(S) : j < k => s[j] < s[k]}

Init == /\ outcome = [t \in Tasks |-> "pending"]
        /\ result = <<>>

Settle(t) == /\ outcome[t] = "pending"
             /\ \E o \in {"bundle", "dropped"} : outcome' = [outcome EXCEPT ![t] = o]
             /\ UNCHANGED result

Return == /\ result = <<>>
          /\ \A t \in Tasks : outcome[t] # "pending"
          /\ \E s \in Listings({t \in Tasks : outcome[t] = "bundle"}) : result' = <<s>>
          /\ UNCHANGED outcome

Next == Return \/ \E t \in Tasks : Settle(t)

Spec == Init /\ [][Next]_vars
================================================================================
