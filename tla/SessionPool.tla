------------------------------ MODULE SessionPool ------------------------------
(***************************************************************************)
(* One call of run_research_fanout with the real brains: the researchers   *)
(* of the selected issues run as tasks of one event loop, each asks its    *)
(* question through AsyncSessionPool.run_with_retry, reads the documents   *)
(* it found, and the bundles are reviewed one after the other when all     *)
(* tasks have ended.                                                       *)
(*                                                                         *)
(* An action is what a task does between two awaits.  All researchers use  *)
(* the same model, tools and schema, so the pool has one key.              *)
(*                                                                         *)
(* A session is a subprocess.  It answers the questions written to it in   *)
(* their order; a turn that is given up on time leaves its question there. *)
(* The session opened by attempt a of task t, and the question asked in    *)
(* that attempt, are both named <<t, a>>.                                  *)
(***************************************************************************)
EXTENDS Naturals, FiniteSets, Sequences

CONSTANTS
    NumTasks,         \* issues selected
    Cap,              \* CN5_COS_MAX_CONCURRENT
    Ceilings,         \* ceilings around the researchers: Cap in the fan-out,
                      \* NumTasks where the pool is used without it
    MaxAttempts,      \* attempts of run_with_retry
    OneShotAttempts   \* attempts of a call without a session

ASSUME PoolAssumption ==
    /\ NumTasks \in Nat
    /\ Cap \in Nat \ {0}
    /\ Ceilings \subseteq Nat \ {0}
    /\ MaxAttempts \in Nat \ {0}
    /\ OneShotAttempts \in Nat \ {0}

Tasks   == 1..NumTasks
Attempt == 1..MaxAttempts
Session == Tasks \X Attempt
Turn    == Tasks \X Attempt
None    == <<0, 0>>

\* where a task may be: waiting for its place in the fan-out, for a permit of
\* the pool, for connect(), for the answer; asleep before a retry; reading
\* documents; ended
Waits     == {"slot", "permit", "backoff"}
WithPermit == {"connect", "turn"}
Ended     == {"delivered", "raised"}
TaskPc    == Waits \cup WithPermit \cup {"escalate"} \cup Ended

VARIABLES
    ceiling,    \* size of the semaphore around the researchers
    pc, attempt, hold, answer,     \* of each task
    slots, permits,                      \* free places, free permits
    sess, stream,                        \* state and open questions of a session
    idle, all,                           \* free-list; sessions aclose will close
    phase, stage, tries, handled, bundles,  \* of run_research_fanout itself
    abandoned                            \* history: live sessions with a turn given up

task    == <<pc, attempt, hold, answer>>
pool    == <<permits, sess, stream, idle, all>>
caller  == <<phase, stage, tries, handled, bundles>>
vars    == <<ceiling, task, slots, pool, caller, abandoned>>

Init ==
    /\ ceiling \in Ceilings
    /\ pc = [t \in Tasks |-> "slot"]
    /\ attempt = [t \in Tasks |-> 1]
    /\ hold = [t \in Tasks |-> None]
    /\ answer = [t \in Tasks |-> None]
    /\ slots = ceiling
    /\ permits = Cap
    /\ sess = [s \in Session |-> "unborn"]
    /\ stream = [s \in Session |-> <<>>]
    /\ idle = <<>>
    /\ all = {}
    /\ phase = "gather"
    /\ stage = "review"
    /\ tries = 0
    /\ handled = {}
    /\ bundles = <<>>
    /\ abandoned = {}

--------------------------------------------------------------------------------
(* A task: _guarded, research_async, run_with_retry, _PoolAcquire.             *)

\* async with sem, in _guarded
TakeSlot(t) ==
    /\ pc[t] = "slot"
    /\ slots > 0
    /\ slots' = slots - 1
    /\ pc' = [pc EXCEPT ![t] = "permit"]
    /\ UNCHANGED <<ceiling, attempt, hold, answer, pool, caller, abandoned>>

\* Seeded bug: the session is taken from the list but not off it.
BugReuse(t) ==
    /\ pc[t] = "permit"
    /\ permits > 0
    /\ idle # <<>>
    /\ permits' = permits - 1
    /\ hold' = [hold EXCEPT ![t] = idle[Len(idle)]]
    /\ pc' = [pc EXCEPT ![t] = "turn"]
    /\ UNCHANGED <<ceiling, attempt, answer, slots, sess, stream, idle, all, caller,
                   abandoned>>

\* A permit, then a session from the end of the idle list: no await between
\* them, and the turn begins at once.
Reuse(t) ==
    /\ pc[t] = "permit"
    /\ permits > 0
    /\ idle # <<>>
    /\ permits' = permits - 1
    /\ hold' = [hold EXCEPT ![t] = idle[Len(idle)]]
    /\ idle' = SubSeq(idle, 1, Len(idle) - 1)
    /\ pc' = [pc EXCEPT ![t] = "turn"]
    /\ UNCHANGED <<ceiling, attempt, answer, slots, sess, stream, all, caller,
                   abandoned>>

\* Seeded bug: a new session without a look at the idle ones.
BugOpen(t) ==
    /\ pc[t] = "permit"
    /\ permits > 0
    /\ permits' = permits - 1
    /\ hold' = [hold EXCEPT ![t] = <<t, attempt[t]>>]
    /\ sess' = [sess EXCEPT ![<<t, attempt[t]>>] = "connecting"]
    /\ pc' = [pc EXCEPT ![t] = "connect"]
    /\ UNCHANGED <<ceiling, attempt, answer, slots, stream, idle, all, caller, abandoned>>

\* A permit, and no idle session: connect a new one.
Open(t) ==
    /\ pc[t] = "permit"
    /\ permits > 0
    /\ idle = <<>>
    /\ permits' = permits - 1
    /\ hold' = [hold EXCEPT ![t] = <<t, attempt[t]>>]
    /\ sess' = [sess EXCEPT ![<<t, attempt[t]>>] = "connecting"]
    /\ pc' = [pc EXCEPT ![t] = "connect"]
    /\ UNCHANGED <<ceiling, attempt, answer, slots, stream, idle, all, caller,
                   abandoned>>

\* Seeded bug: the session is not registered for aclose.
BugConnected(t) ==
    /\ pc[t] = "connect"
    /\ sess' = [sess EXCEPT ![hold[t]] = "live"]
    /\ pc' = [pc EXCEPT ![t] = "turn"]
    /\ UNCHANGED <<ceiling, attempt, hold, answer, slots, permits, stream, idle, all,
                   caller, abandoned>>

Connected(t) ==
    /\ pc[t] = "connect"
    /\ sess' = [sess EXCEPT ![hold[t]] = "live"]
    /\ all' = all \cup {hold[t]}
    /\ pc' = [pc EXCEPT ![t] = "turn"]
    /\ UNCHANGED <<ceiling, attempt, hold, answer, slots, permits, stream, idle,
                   caller, abandoned>>

\* Seeded bug: one attempt too many.
BugRetryOrRaise(t) ==
    IF attempt[t] <= MaxAttempts
    THEN /\ pc' = [pc EXCEPT ![t] = "backoff"]
         /\ UNCHANGED slots
    ELSE /\ pc' = [pc EXCEPT ![t] = "raised"]
         /\ slots' = slots + 1

\* Seeded bug: an exception keeps the place in the fan-out.
BugKeepsPlace(t) ==
    /\ pc' = [pc EXCEPT ![t] = IF attempt[t] < MaxAttempts THEN "backoff" ELSE "raised"]
    /\ UNCHANGED slots

\* The attempt failed and the permit is free: sleep before the next attempt, or
\* let the exception leave _guarded, which frees the place.
RetryOrRaise(t) ==
    IF attempt[t] < MaxAttempts
    THEN /\ pc' = [pc EXCEPT ![t] = "backoff"]
         /\ UNCHANGED slots
    ELSE /\ pc' = [pc EXCEPT ![t] = "raised"]
         /\ slots' = slots + 1

\* Seeded bug: a failed connect keeps the permit.
BugConnectFails(t) ==
    /\ pc[t] = "connect"
    /\ hold' = [hold EXCEPT ![t] = None]
    /\ sess' = [sess EXCEPT ![hold[t]] = "unborn"]
    /\ RetryOrRaise(t)
    /\ UNCHANGED <<ceiling, attempt, answer, permits, stream, idle, all, caller, abandoned>>

\* connect() raised in _checkout: nobody keeps the object.
ConnectFails(t) ==
    /\ pc[t] = "connect"
    /\ permits' = permits + 1
    /\ hold' = [hold EXCEPT ![t] = None]
    /\ sess' = [sess EXCEPT ![hold[t]] = "unborn"]
    /\ RetryOrRaise(t)
    /\ UNCHANGED <<ceiling, attempt, answer, stream, idle, all, caller, abandoned>>

\* _client is not None
HasClient(s) == sess[s] \in {"connecting", "live", "dead"}

\* __aexit__: _checkin and the permit, whatever the turn ended with
GiveBack(t) ==
    /\ permits' = permits + 1
    /\ hold' = [hold EXCEPT ![t] = None]
    /\ IF HasClient(hold[t])
       THEN idle' = Append(idle, hold[t]) /\ UNCHANGED all
       ELSE all' = all \ {hold[t]} /\ UNCHANGED idle

\* what the session still has to answer when the turn of t has been written to it
Asked(t) == Append(stream[hold[t]], <<t, attempt[t]>>)

\* Seeded bug: the answer is read but stays in the session's stream.
BugAnswered(t) ==
    /\ pc[t] = "turn"
    /\ sess[hold[t]] = "live"
    /\ answer' = [answer EXCEPT ![t] = Head(Asked(t))]
    /\ stream' = [stream EXCEPT ![hold[t]] = Asked(t)]
    /\ GiveBack(t)
    /\ attempt' = [attempt EXCEPT ![t] = 1]
    /\ pc' = [pc EXCEPT ![t] = "escalate"]
    /\ UNCHANGED <<ceiling, slots, sess, caller, abandoned>>

Answered(t) ==
    /\ pc[t] = "turn"
    /\ sess[hold[t]] = "live"
    /\ answer' = [answer EXCEPT ![t] = Head(Asked(t))]
    /\ stream' = [stream EXCEPT ![hold[t]] = Tail(Asked(t))]
    /\ GiveBack(t)
    /\ attempt' = [attempt EXCEPT ![t] = 1]
    /\ pc' = [pc EXCEPT ![t] = "escalate"]
    /\ UNCHANGED <<ceiling, slots, sess, caller, abandoned>>

\* Seeded bug: an answer without structured output is not read to its end.
BugNoOutput(t) ==
    /\ pc[t] = "turn"
    /\ sess[hold[t]] = "live"
    /\ stream' = [stream EXCEPT ![hold[t]] = Asked(t)]
    /\ GiveBack(t)
    /\ RetryOrRaise(t)
    /\ UNCHANGED <<ceiling, attempt, answer, sess, caller, abandoned>>

\* the answer has no structured output: _finish_turn raises
NoOutput(t) ==
    /\ pc[t] = "turn"
    /\ sess[hold[t]] = "live"
    /\ stream' = [stream EXCEPT ![hold[t]] = Tail(Asked(t))]
    /\ GiveBack(t)
    /\ RetryOrRaise(t)
    /\ UNCHANGED <<ceiling, attempt, answer, sess, caller, abandoned>>

\* wait_for gives up: the question stays with the session
TimesOut(t) ==
    /\ pc[t] = "turn"
    /\ sess[hold[t]] = "live"
    /\ stream' = [stream EXCEPT ![hold[t]] = Asked(t)]
    /\ abandoned' = abandoned \cup {hold[t]}
    /\ GiveBack(t)
    /\ RetryOrRaise(t)
    /\ UNCHANGED <<ceiling, attempt, answer, sess, caller>>

\* the subprocess is gone, or was gone already
TurnFails(t) ==
    /\ pc[t] = "turn"
    /\ sess' = [sess EXCEPT ![hold[t]] = "dead"]
    /\ stream' = [stream EXCEPT ![hold[t]] = <<>>]
    /\ GiveBack(t)
    /\ RetryOrRaise(t)
    /\ abandoned' = abandoned \ {hold[t]}
    /\ UNCHANGED <<ceiling, attempt, answer, caller>>

\* Seeded bug: the attempts are not counted.
BugWakeUp(t) ==
    /\ pc[t] = "backoff"
    /\ pc' = [pc EXCEPT ![t] = "permit"]
    /\ UNCHANGED <<ceiling, attempt, hold, answer, slots, pool, caller, abandoned>>

WakeUp(t) ==
    /\ pc[t] = "backoff"
    /\ attempt' = [attempt EXCEPT ![t] = @ + 1]
    /\ pc' = [pc EXCEPT ![t] = "permit"]
    /\ UNCHANGED <<ceiling, hold, answer, slots, pool, caller, abandoned>>

\* _escalate_async read the documents, in one round: no later one finds a new one.
Deliver(t) ==
    /\ pc[t] = "escalate"
    /\ pc' = [pc EXCEPT ![t] = "delivered"]
    /\ slots' = slots + 1
    /\ UNCHANGED <<ceiling, attempt, hold, answer, pool, caller, abandoned>>

\* building the bundle or extracting from a document raised: nothing catches it
\* before gather
EscalationRaises(t) ==
    /\ pc[t] = "escalate"
    /\ pc' = [pc EXCEPT ![t] = "raised"]
    /\ slots' = slots + 1
    /\ answer' = [answer EXCEPT ![t] = None]
    /\ UNCHANGED <<ceiling, attempt, hold, pool, caller, abandoned>>

--------------------------------------------------------------------------------
(* run_research_fanout: the end of gather, then the critique.                  *)

Delivered == {t \in Tasks : pc[t] = "delivered"}

\* gather has all results; aclose disconnects what _checkout registered.  The
\* coroutines are gone, and their counters with them.
CloseAll ==
    /\ phase = "gather"
    /\ \A t \in Tasks : pc[t] \in Ended
    /\ phase' = "critique"
    /\ sess' = [s \in Session |-> IF s \in all THEN "closed" ELSE sess[s]]
    /\ stream' = [s \in Session |-> IF s \in all THEN <<>> ELSE stream[s]]
    /\ idle' = <<>>
    /\ all' = {}
    /\ attempt' = [t \in Tasks |-> 1]
    /\ abandoned' = {}
    /\ UNCHANGED <<ceiling, pc, hold, answer, slots, permits, stage, tries, handled,
                   bundles>>

\* Seeded bug: the bundles are taken in any order.
BugCurrent(t) == /\ phase = "critique"
                 /\ t \in Delivered \ handled

\* t is the next bundle in the order of the selection
Current(t) == /\ phase = "critique"
              /\ t \in Delivered \ handled
              /\ \A u \in Delivered \ handled : t <= u

\* source_critic.review, then compressor.compress: each a one-shot call
CritiqueAnswered(t) ==
    /\ Current(t)
    /\ tries' = 0
    /\ IF stage = "review"
       THEN stage' = "compress" /\ UNCHANGED <<handled, bundles>>
       ELSE /\ stage' = "review"
            /\ handled' = handled \cup {t}
            /\ bundles' = Append(bundles, t)
    /\ UNCHANGED <<ceiling, task, slots, pool, phase, abandoned>>

\* Seeded bug: the retry has no stop condition.
BugCritiqueRetried(t) ==
    /\ Current(t)
    /\ tries' = (tries + 1) % OneShotAttempts
    /\ UNCHANGED <<ceiling, task, slots, pool, phase, stage, handled, bundles, abandoned>>

\* a transport error, retried by tenacity
CritiqueRetried(t) ==
    /\ Current(t)
    /\ tries + 1 < OneShotAttempts
    /\ tries' = tries + 1
    /\ UNCHANGED <<ceiling, task, slots, pool, phase, stage, handled, bundles, abandoned>>

\* the last attempt failed, there was no structured output, or ranking raised:
\* this bundle is dropped
CritiqueRaises(t) ==
    /\ Current(t)
    /\ tries' = 0
    /\ stage' = "review"
    /\ handled' = handled \cup {t}
    /\ UNCHANGED <<ceiling, task, slots, pool, phase, bundles, abandoned>>

Return ==
    /\ phase = "critique"
    /\ handled = Delivered
    /\ phase' = "returned"
    /\ UNCHANGED <<ceiling, task, slots, pool, stage, tries, handled, bundles, abandoned>>

Returned == phase = "returned" /\ UNCHANGED vars

Researcher(t) ==
    \/ TakeSlot(t)  \/ Reuse(t)     \/ Open(t)
    \/ Connected(t) \/ ConnectFails(t)
    \/ Answered(t)  \/ NoOutput(t)  \/ TimesOut(t) \/ TurnFails(t) \/ WakeUp(t)
    \/ Deliver(t) \/ EscalationRaises(t)

Critique(t) == CritiqueAnswered(t) \/ CritiqueRetried(t) \/ CritiqueRaises(t)

Next == \/ \E t \in Tasks : Researcher(t) \/ Critique(t)
        \/ CloseAll
        \/ Return
        \/ Returned

Spec == Init /\ [][Next]_vars

\* The event loop runs every task that can run; a turn ends because wait_for ends
\* it.  That connect() and the fetching of a document end is up to the SDK and the
\* HTTP client: sdk_client.py gives connect() no timeout.
LiveSpec == Spec /\ WF_vars(Next)

--------------------------------------------------------------------------------
(* Properties.                                                                 *)

TypeOK ==
    /\ ceiling \in Ceilings
    /\ pc \in [Tasks -> TaskPc]
    /\ attempt \in [Tasks -> Attempt]
    /\ hold \in [Tasks -> Session \cup {None}]
    /\ answer \in [Tasks -> Turn \cup {None}]
    /\ slots \in 0..ceiling
    /\ permits \in 0..Cap
    /\ sess \in [Session -> {"unborn", "connecting", "live", "dead", "closed"}]
    /\ stream \in [Session -> Seq(Turn)]
    /\ idle \in Seq(Session)
    /\ all \subseteq Session
    /\ phase \in {"gather", "critique", "returned"}
    /\ stage \in {"review", "compress"}
    /\ tries \in 0..(OneShotAttempts - 1)
    /\ handled \subseteq Tasks
    /\ bundles \in Seq(Tasks)
    /\ abandoned \subseteq Session

Holders == {t \in Tasks : pc[t] \in WithPermit}
Running == {t \in Tasks : pc[t] \notin {"slot"} \cup Ended}
InUse   == {s \in Session : sess[s] \in {"connecting", "live", "dead"}}

\* No exit of the pool and of the fan-out's semaphore, on any of the ways out of
\* an attempt, loses a permit or frees it twice ("a failed call never leaks a
\* permit", sdk_client.py:790).
PermitsConserved ==
    /\ permits + Cardinality(Holders) = Cap
    /\ slots + Cardinality(Running) = ceiling

\* A session is in one hand only: two tasks never hold the same one, an idle one
\* is held by nobody and is listed once, although connects and check-ins interleave.
SessionExclusive ==
    /\ \A t, u \in Tasks : hold[t] = hold[u] /\ hold[t] # None => t = u
    /\ \A i, j \in 1..Len(idle) : idle[i] = idle[j] => i = j
    /\ \A t \in Tasks, i \in 1..Len(idle) : idle[i] # hold[t]

\* Permits bound the turns; that they also bound the subprocesses, idle ones
\* included, needs that a session is opened only when none is idle
\* ("allow up to MAX_CONCURRENT LIVE sessions", sdk_client.py:785).
SessionsWithinCap == Cardinality(InUse) <= Cap

\* A researcher is given the answer to another question only by a session on which
\* an earlier turn timed out (from then on that session is one answer behind, for
\* every task that takes it); other sessions keep questions and answers together.
CrossedOnlyAfterTimeout ==
    [][\A t \in Tasks : answer'[t] # answer[t] =>
          answer'[t] \in {None, <<t, attempt[t]>>} \/ hold[t] \in abandoned]_vars

\* Even then no answer makes two bundles: two issues never report the same one.
AnswerDeliveredOnce ==
    \A t, u \in Tasks : answer[t] = answer[u] /\ answer[t] # None => t = u

\* After aclose no session that ever connected is still open, dropped or crashed
\* ones included.
NothingLeftOpen == phase # "gather" => InUse = {}

\* The fan-out implements the promise the control loop relies on: one outcome for
\* every issue, and bundles in the order of the selection, not of the finish.
F == INSTANCE Fanout WITH
        outcome <- [t \in Tasks |->
                      IF \E i \in 1..Len(bundles) : bundles[i] = t THEN "bundle"
                      ELSE IF pc[t] = "raised" \/ t \in handled THEN "dropped"
                      ELSE "pending"],
        result <- IF phase = "returned" THEN <<bundles>> ELSE <<>>

DeliversInOrder == F!Spec

\* Tasks never wait for each other in a circle: as long as one has not ended, one is at
\* work or finds free what it waits for, although a task that backs off keeps its place
\* while others wait for one (graph.py:428), and one with a place may wait for a permit.
\* Afterwards the critique has a next bundle until it returns.
NobodyStuck ==
    /\ phase = "gather" /\ (\E t \in Tasks : pc[t] \notin Ended) =>
          \E t \in Tasks : \/ pc[t] \in WithPermit \cup {"backoff", "escalate"}
                           \/ pc[t] = "permit" /\ permits > 0
                           \/ pc[t] = "slot" /\ slots > 0
    /\ phase = "critique" => handled = Delivered \/ \E t \in Tasks : Current(t)

\* How far a task is on its way: four stations in each attempt, then the documents and
\* the end.  How far the caller is: two calls for each bundle, of so many tries each.
Station(x) == CASE x = "slot" -> 0 [] x = "permit" -> 1 [] x = "connect" -> 2
                [] x = "turn" -> 3 [] x = "backoff" -> 4
Way        == 4 * MaxAttempts + 2
Position(t) == IF pc[t] \in Ended THEN Way
               ELSE IF pc[t] = "escalate" THEN Way - 1
               ELSE 4 * (attempt[t] - 1) + Station(pc[t])
Calls(n)   == 2 * OneShotAttempts * n
CallerPosition ==
    CASE phase = "gather" -> 0
      [] phase = "critique" -> 1 + Calls(Cardinality(handled))
                                 + (IF stage = "compress" THEN OneShotAttempts ELSE 0) + tries
      [] phase = "returned" -> 1 + Calls(NumTasks + 1)

\* No retry on any level starts over for ever: every step takes one task, or the caller,
\* a station further on a way of fixed length, and moves nobody back.  With NobodyStuck
\* this bounds the steps of a fan-out by NumTasks * Way + 1 + Calls(NumTasks + 1).
EveryStepAdvances ==
    [][\/ /\ \E t \in Tasks : /\ Position(t) < Position(t)' /\ Position(t)' <= Way
                              /\ \A u \in Tasks \ {t} : Position(u)' = Position(u)
          /\ CallerPosition' = CallerPosition
       \/ /\ CallerPosition < CallerPosition'
          /\ CallerPosition' <= 1 + Calls(NumTasks + 1)
          /\ \A t \in Tasks : Position(t)' = Position(t)]_vars

\* No failure, at any await, makes tasks wait for each other for ever: the fan-out
\* returns.
FanoutReturns == <>(phase = "returned")
================================================================================
