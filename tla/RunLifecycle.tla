---------------------------- MODULE RunLifecycle ----------------------------
(***************************************************************************)
(* What a research run promises to whoever starts it, without its nodes,   *)
(* its brains or its state: it prepares, researches in rounds, judges      *)
(* after every round whether to go on, and leaves through a gate to hand   *)
(* over a memo.  At most Limit rounds are run; once the cap is hit this    *)
(* process starts no further round; it may wait for a human before a round *)
(* or on the way out, and only the human's answer ends the wait.           *)
(***************************************************************************)
EXTENDS Naturals

CONSTANT Limit      \* rounds, a positive number

VARIABLES
    stage,      \* where the run is
    rounds,     \* rounds completed
    waiting,    \* for a human
    capped,     \* the cap was hit in this process
    delivered   \* a memo was handed over

vars == <<stage, rounds, waiting, capped, delivered>>

Stages == {"preparing", "research", "judging", "leaving", "finished", "cut"}

Init ==
    /\ stage = "preparing" /\ rounds = 0
    /\ waiting = FALSE /\ capped = FALSE /\ delivered = FALSE

\* Research starts, at first or again, only with a round and the cap to spare.
StartRound ==
    /\ ~waiting /\ rounds < Limit
    /\ stage \in {"preparing", "judging", "leaving"}
    /\ ~capped'
    /\ stage' = "research"
    /\ UNCHANGED <<rounds, waiting, delivered>>

EndRound ==
    /\ ~waiting /\ stage = "research" /\ rounds < Limit
    /\ stage' = "judging" /\ rounds' = rounds + 1
    /\ UNCHANGED <<waiting, capped, delivered>>

Leave ==
    /\ ~waiting /\ stage = "judging"
    /\ stage' = "leaving"
    /\ capped' \in BOOLEAN /\ (capped => capped')
    /\ UNCHANGED <<rounds, waiting, delivered>>

\* On the way out the cap may be found hit as well.
NoticeCap ==
    /\ ~waiting /\ stage = "leaving" /\ capped' = TRUE
    /\ UNCHANGED <<stage, rounds, waiting, delivered>>

Deliver ==
    /\ ~waiting /\ stage = "leaving"
    /\ stage' = "finished" /\ delivered' = TRUE
    /\ UNCHANGED <<rounds, waiting, capped>>

Ask ==
    /\ ~waiting /\ stage \in {"preparing", "research", "leaving"}
    /\ waiting' = TRUE
    /\ UNCHANGED <<stage, rounds, capped, delivered>>

\* The answer starts a new process, which knows nothing of the cap.
Answer ==
    /\ waiting /\ waiting' = FALSE /\ capped' = FALSE
    /\ \/ UNCHANGED <<stage, delivered>>
       \/ /\ stage = "preparing" \/ (stage = "leaving" /\ rounds < Limit)
          /\ stage' = "research" /\ UNCHANGED delivered
       \/ /\ stage = "leaving"
          /\ stage' = "finished" /\ delivered' = TRUE
    /\ UNCHANGED rounds

\* The recursion limit.
Cut ==
    /\ ~waiting /\ stage \notin {"finished", "cut"}
    /\ stage' = "cut"
    /\ UNCHANGED <<rounds, waiting, capped, delivered>>

Next ==
    \/ StartRound \/ EndRound \/ Leave \/ NoticeCap \/ Deliver
    \/ Ask \/ Answer \/ Cut

Spec == Init /\ [][Next]_vars
=============================================================================
