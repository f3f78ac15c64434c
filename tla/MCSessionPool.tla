----------------------------- MODULE MCSessionPool -----------------------------
(***************************************************************************)
(* SessionPool with values for TLC, and a statement of its comments that   *)
(* the code does not keep.                                                 *)
(***************************************************************************)
EXTENDS SessionPool

\* The fan-out's own ceiling, and the pool used without one.
MCCeilings == {Cap, NumTasks}

\* "A session that died ... is dropped instead of being returned to the idle
\* list" (sdk_client.py:792): no session whose subprocess is gone waits there for
\* the next task.
DeadSessionDropped == \A i \in 1..Len(idle) : sess[idle[i]] # "dead"
================================================================================
