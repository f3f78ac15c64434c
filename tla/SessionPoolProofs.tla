---------------------------- MODULE SessionPoolProofs ----------------------------
(***************************************************************************)
(* The safety properties of SessionPool for every number of tasks, permits *)
(* and attempts: types and permits, sessions, answers.                     *)
(***************************************************************************)
EXTENDS SessionPool, FiniteSetTheorems, FunctionTheorems, SequenceTheorems,
        WellFoundedInduction, TLAPS

-----------------------------------------------------------------------------
(* Types.                                                                   *)

\* TypeOK without the upper bounds of the two counters, which follow from the
\* conservation of permits.
CountersOpen ==
    /\ ceiling \in Ceilings
    /\ pc \in [Tasks -> TaskPc]
    /\ attempt \in [Tasks -> Attempt]
    /\ hold \in [Tasks -> Session \cup {None}]
    /\ answer \in [Tasks -> Turn \cup {None}]
    /\ slots \in Nat
    /\ permits \in Nat
    /\ sess \in [Session -> {"unborn", "connecting", "live", "dead", "closed"}]
    /\ stream \in [Session -> Seq(Turn)]
    /\ idle \in Seq(Session)
    /\ all \subseteq Session
    /\ phase \in {"gather", "critique", "returned"}
    /\ stage \in {"review", "compress"}
    /\ tries \in 0..(OneShotAttempts - 1)
    /\ handled \subseteq Tasks
    /\ bundles \in Seq(Tasks)
    /\ abandoned \subseteq Session

\* A task holds a session exactly while it has a permit; one that sleeps has an
\* attempt left; the critique begins when all have ended.
TaskInv ==
    /\ \A t \in Tasks : pc[t] \in WithPermit <=> hold[t] # None
    /\ \A t \in Tasks : pc[t] = "backoff" => attempt[t] < MaxAttempts
    /\ phase # "gather" => \A t \in Tasks : pc[t] \in Ended

LEMMA NoneIsNone == None \notin Session
BY DEF None, Session, Tasks, Attempt

\* What a session still has to answer is never empty when a turn has been written to it.
LEMMA AskedType ==
    ASSUME NEW t \in Tasks, CountersOpen, hold[t] \in Session
    PROVE  /\ <<t, attempt[t]>> \in Turn
           /\ Asked(t) \in Seq(Turn)
           /\ Asked(t) # <<>>
           /\ Head(Asked(t)) \in Turn
           /\ Tail(Asked(t)) \in Seq(Turn)
<1>1. <<t, attempt[t]>> \in Turn /\ stream[hold[t]] \in Seq(Turn)
  BY DEF CountersOpen, Turn
<1>2. Asked(t) \in Seq(Turn) /\ Asked(t) # <<>>
  BY <1>1, AppendProperties DEF Asked
<1>3. QED
  BY <1>1, <1>2, HeadTailProperties

LEMMA PcTypes ==
    /\ {"connect", "turn", "backoff", "escalate", "permit", "slot", "delivered", "raised"}
          = TaskPc
    /\ WithPermit = {"connect", "turn"}
    /\ Ended = {"delivered", "raised"}
BY DEF TaskPc, Waits, WithPermit, Ended

\* The ways out of a failed attempt, and of a session.
LEMMA RetryTypes ==
    ASSUME NEW t \in Tasks, CountersOpen, RetryOrRaise(t)
    PROVE  /\ pc' \in [Tasks -> TaskPc] /\ slots' \in Nat
           /\ pc'[t] \in {"backoff", "raised"}
           /\ pc'[t] = "backoff" => attempt[t] < MaxAttempts
           /\ \A u \in Tasks \ {t} : pc'[u] = pc[u]
<1>1. CASE attempt[t] < MaxAttempts
  BY <1>1, PcTypes DEF RetryOrRaise, CountersOpen
<1>2. CASE ~(attempt[t] < MaxAttempts)
  <2>1. slots' = slots + 1 /\ pc' = [pc EXCEPT ![t] = "raised"]
    BY <1>2 DEF RetryOrRaise
  <2>2. pc' \in [Tasks -> TaskPc] /\ pc'[t] = "raised" /\ \A u \in Tasks \ {t} : pc'[u] = pc[u]
    BY <2>1, PcTypes DEF CountersOpen
  <2>3. slots' \in Nat
    BY <2>1 DEF CountersOpen
  <2>4. QED
    BY <2>2, <2>3
<1>3. QED
  BY <1>1, <1>2

LEMMA GiveBackTypes ==
    ASSUME NEW t \in Tasks, CountersOpen, hold[t] \in Session, GiveBack(t)
    PROVE  /\ permits' \in Nat
           /\ hold' \in [Tasks -> Session \cup {None}]
           /\ hold'[t] = None
           /\ \A u \in Tasks \ {t} : hold'[u] = hold[u]
           /\ idle' \in Seq(Session)
           /\ all' \subseteq Session
<1>1. Append(idle, hold[t]) \in Seq(Session)
  BY AppendProperties DEF CountersOpen
<1>2. QED
  <2>1. idle' \in {idle, Append(idle, hold[t])} /\ all' \in {all, all \ {hold[t]}}
    BY DEF GiveBack
  <2>2. permits' = permits + 1 /\ hold' = [hold EXCEPT ![t] = None]
    BY DEF GiveBack
  <2>3. permits' \in Nat
    BY <2>2 DEF CountersOpen
  <2>4. /\ hold' \in [Tasks -> Session \cup {None}] /\ hold'[t] = None
        /\ \A u \in Tasks \ {t} : hold'[u] = hold[u]
    BY <2>2 DEF CountersOpen
  <2>5. idle' \in Seq(Session) /\ all' \subseteq Session
    BY <1>1, <2>1 DEF CountersOpen
  <2>6. QED
    BY <2>3, <2>4, <2>5

LEMMA ResearcherTypes ==
    ASSUME CountersOpen, TaskInv, NEW t \in Tasks, Researcher(t)
    PROVE  CountersOpen' /\ TaskInv'
<1>0. pc[t] \in WithPermit => hold[t] \in Session
  BY DEF CountersOpen, TaskInv
<1>1. phase = "gather" \/ pc[t] \in Ended
  BY DEF CountersOpen, TaskInv
<1>2. CASE TakeSlot(t)
  BY <1>1, <1>2, PcTypes DEF TakeSlot, CountersOpen, TaskInv, pool, caller
<1>3. CASE Reuse(t)
  <2>1. idle[Len(idle)] \in Session /\ SubSeq(idle, 1, Len(idle) - 1) \in Seq(Session)
    <3>1. idle \in Seq(Session) /\ idle # <<>>
      BY <1>3 DEF Reuse, CountersOpen
    <3>2. Len(idle) \in Nat \ {0}
      BY <3>1, EmptySeq
    <3>3. \A i \in 1..Len(idle) : idle[i] \in Session
      BY <3>1, ElementOfSeq
    <3>4. QED
      BY <3>2, <3>3, SubSeqProperties
  <2>2. QED
    BY <1>1, <1>3, <2>1, PcTypes, NoneIsNone DEF Reuse, CountersOpen, TaskInv, caller
<1>4. CASE Open(t)
  <2>1. <<t, attempt[t]>> \in Session
    BY DEF CountersOpen, Session
  <2>2. /\ sess' \in [Session -> {"unborn", "connecting", "live", "dead", "closed"}]
        /\ hold' \in [Tasks -> Session \cup {None}]
        /\ pc' \in [Tasks -> TaskPc]
        /\ permits' \in Nat
    BY <1>4, <2>1, PcTypes DEF Open, CountersOpen
  <2>3. CountersOpen'
    BY <1>4, <2>2 DEF Open, CountersOpen, caller
  <2>4. QED
    BY <1>1, <1>4, <2>1, <2>3, PcTypes, NoneIsNone DEF Open, CountersOpen, TaskInv, caller
<1>5. CASE Connected(t)
  BY <1>0, <1>1, <1>5, PcTypes DEF Connected, CountersOpen, TaskInv, caller
<1>6. CASE ConnectFails(t)
  <2>1. pc[t] = "connect" /\ hold[t] \in Session
    BY <1>0, <1>6, PcTypes DEF ConnectFails
  <2>2. RetryOrRaise(t)
    BY <1>6 DEF ConnectFails
  <2>3. /\ sess' \in [Session -> {"unborn", "connecting", "live", "dead", "closed"}]
        /\ hold' \in [Tasks -> Session \cup {None}]
        /\ permits' \in Nat
    BY <1>6, <2>1 DEF ConnectFails, CountersOpen
  <2>4. CountersOpen'
    BY <1>6, <2>2, <2>3, RetryTypes DEF ConnectFails, CountersOpen, caller
  <2>5. /\ hold'[t] = None /\ \A u \in Tasks \ {t} : hold'[u] = hold[u]
        /\ attempt' = attempt /\ phase' = phase /\ phase = "gather"
    BY <1>1, <1>6, <2>1, PcTypes DEF ConnectFails, CountersOpen, caller
  <2>6. QED
    BY <2>2, <2>4, <2>5, RetryTypes, PcTypes DEF TaskInv
<1>7. ASSUME pc[t] = "turn", GiveBack(t), RetryOrRaise(t),
             stream' \in [Session -> Seq(Turn)],
             sess' \in [Session -> {"unborn", "connecting", "live", "dead", "closed"}],
             abandoned' \subseteq Session,
             UNCHANGED <<ceiling, attempt, answer, caller>>
      PROVE  CountersOpen' /\ TaskInv'
  <2>1. hold[t] \in Session
    BY <1>0, <1>7, PcTypes
  <2>2. QED
    BY <1>1, <1>7, <2>1, RetryTypes, GiveBackTypes, PcTypes DEF CountersOpen, TaskInv, caller
<1>8. CASE Answered(t)
  <2>1. pc[t] = "turn" /\ hold[t] \in Session /\ GiveBack(t)
    BY <1>0, <1>8, PcTypes DEF Answered
  <2>2. answer' \in [Tasks -> Turn \cup {None}] /\ stream' \in [Session -> Seq(Turn)]
    BY <1>8, <2>1, AskedType DEF Answered, CountersOpen
  <2>3. 1 \in Attempt
    BY PoolAssumption DEF Attempt
  <2>4. QED
    BY <1>1, <1>8, <2>1, <2>2, <2>3, GiveBackTypes, PcTypes
       DEF Answered, CountersOpen, TaskInv, caller
<1>9. CASE NoOutput(t)
  <2>1. pc[t] = "turn" /\ hold[t] \in Session
    BY <1>0, <1>9, PcTypes DEF NoOutput
  <2>2. stream' \in [Session -> Seq(Turn)]
    BY <1>9, <2>1, AskedType DEF NoOutput, CountersOpen
  <2>3. QED
    BY <1>7, <1>9, <2>2 DEF NoOutput, CountersOpen
<1>10. CASE TimesOut(t)
  <2>1. pc[t] = "turn" /\ hold[t] \in Session
    BY <1>0, <1>10, PcTypes DEF TimesOut
  <2>2. stream' \in [Session -> Seq(Turn)] /\ abandoned' \subseteq Session
    BY <1>10, <2>1, AskedType DEF TimesOut, CountersOpen
  <2>3. QED
    BY <1>7, <1>10, <2>2 DEF TimesOut, CountersOpen
<1>11. CASE TurnFails(t)
  <2>1. <<>> \in Seq(Turn)
    BY EmptySeq
  <2>2. /\ stream' \in [Session -> Seq(Turn)]
        /\ sess' \in [Session -> {"unborn", "connecting", "live", "dead", "closed"}]
        /\ abandoned' \subseteq Session
    BY <1>11, <2>1 DEF TurnFails, CountersOpen
  <2>3. QED
    BY <1>7, <1>11, <2>2 DEF TurnFails
<1>12. CASE WakeUp(t)
  <2>1. attempt[t] + 1 \in Attempt
    BY <1>12, PoolAssumption DEF WakeUp, CountersOpen, TaskInv, Attempt
  <2>2. QED
    BY <1>1, <1>12, <2>1, PcTypes DEF WakeUp, CountersOpen, TaskInv, pool, caller
<1>13. CASE Deliver(t)
  BY <1>1, <1>13, PcTypes DEF Deliver, CountersOpen, TaskInv, pool, caller
<1>14. CASE EscalationRaises(t)
  BY <1>1, <1>14, PcTypes DEF EscalationRaises, CountersOpen, TaskInv, pool, caller
<1> QED
  BY <1>2, <1>3, <1>4, <1>5, <1>6, <1>8, <1>9, <1>10, <1>11, <1>12, <1>13, <1>14
     DEF Researcher

LEMMA CritiqueTypes ==
    ASSUME CountersOpen, TaskInv, NEW t \in Tasks, Critique(t)
    PROVE  CountersOpen' /\ TaskInv'
<1>1. Append(bundles, t) \in Seq(Tasks) /\ 0 \in 0..(OneShotAttempts - 1)
  BY AppendProperties, PoolAssumption DEF CountersOpen
<1>2. UNCHANGED <<ceiling, task, slots, pool, phase, abandoned>>
  BY DEF Critique, CritiqueAnswered, CritiqueRetried, CritiqueRaises
<1>3. /\ stage' \in {"review", "compress"}
      /\ handled' \subseteq Tasks
      /\ bundles' \in Seq(Tasks)
  BY <1>1 DEF Critique, CritiqueAnswered, CritiqueRetried, CritiqueRaises, CountersOpen
<1>4. tries' \in 0..(OneShotAttempts - 1)
  BY <1>1, PoolAssumption
     DEF Critique, CritiqueAnswered, CritiqueRetried, CritiqueRaises, CountersOpen
<1>5. QED
  BY <1>2, <1>3, <1>4 DEF CountersOpen, TaskInv, task, pool

LEMMA CloseTypes == CountersOpen /\ TaskInv /\ CloseAll => CountersOpen' /\ TaskInv'
<1> SUFFICES ASSUME CountersOpen, TaskInv, CloseAll PROVE CountersOpen' /\ TaskInv'
  OBVIOUS
<1>1. 1 \in Attempt /\ <<>> \in Seq(Session) /\ <<>> \in Seq(Turn)
  BY PoolAssumption, EmptySeq DEF Attempt
<1>2. attempt' \in [Tasks -> Attempt]
  BY <1>1 DEF CloseAll
<1>3. sess' \in [Session -> {"unborn", "connecting", "live", "dead", "closed"}]
  BY DEF CloseAll, CountersOpen
<1>4. stream' \in [Session -> Seq(Turn)]
  BY <1>1 DEF CloseAll, CountersOpen
<1>5. \A u \in Tasks : pc[u] # "backoff"
  BY PcTypes DEF CloseAll
<1>6. QED
  BY <1>1, <1>2, <1>3, <1>4, <1>5 DEF CloseAll, CountersOpen, TaskInv

LEMMA PoolStart == Init => CountersOpen /\ TaskInv
<1> SUFFICES ASSUME Init PROVE CountersOpen /\ TaskInv
  OBVIOUS
<1>1. /\ 1 \in Attempt /\ 0 \in 0..(OneShotAttempts - 1)
      /\ <<>> \in Seq(Session) /\ <<>> \in Seq(Turn) /\ <<>> \in Seq(Tasks)
  BY PoolAssumption, EmptySeq DEF Attempt
<1>2. QED
  BY <1>1, PoolAssumption, PcTypes DEF Init, CountersOpen, TaskInv

LEMMA PoolStep == CountersOpen /\ TaskInv /\ [Next]_vars => CountersOpen' /\ TaskInv'
<1> SUFFICES ASSUME CountersOpen, TaskInv, [Next]_vars PROVE CountersOpen' /\ TaskInv'
  OBVIOUS
<1>1. CASE Return
  BY <1>1 DEF Return, CountersOpen, TaskInv, task, pool
<1>2. CASE UNCHANGED vars
  BY <1>2 DEF vars, task, pool, caller, CountersOpen, TaskInv
<1> QED
  BY <1>1, <1>2, ResearcherTypes, CritiqueTypes, CloseTypes DEF Next, Returned

-----------------------------------------------------------------------------
(* Permits.                                                                 *)

One(b) == IF b THEN 1 ELSE 0

\* what a task at x has of the pool's permits and of the fan-out's places
PermitAt(x) == One(x \in WithPermit)
PlaceAt(x)  == One(x \notin {"slot"} \cup Ended)

LEMMA TasksFinite ==
    /\ IsFiniteSet(Tasks)
    /\ \A S \in SUBSET Tasks : IsFiniteSet(S) /\ Cardinality(S) \in Nat
<1>1. IsFiniteSet(Tasks)
  BY PoolAssumption, FS_Interval DEF Tasks
<1>2. QED
  BY <1>1, FS_Subset, FS_CardinalityType

\* One task joins or leaves a set of tasks.
LEMMA Counted ==
    ASSUME NEW S \in SUBSET Tasks, NEW T, NEW t \in Tasks,
           T = S \cup {t} \/ T = S \ {t}
    PROVE  Cardinality(T) = Cardinality(S) + One(t \in T) - One(t \in S)
<1>1. IsFiniteSet(S) /\ Cardinality(S) \in Nat
  BY TasksFinite
<1>2. CASE T = S \cup {t}
  BY <1>1, <1>2, FS_AddElement DEF One
<1>3. CASE T = S \ {t}
  BY <1>1, <1>3, FS_RemoveElement DEF One
<1> QED
  BY <1>2, <1>3

\* A task that moves on changes the two counts by itself alone.
LEMMA Moved ==
    ASSUME CountersOpen, NEW t \in Tasks, NEW x \in TaskPc, pc' = [pc EXCEPT ![t] = x]
    PROVE  /\ Cardinality(Holders') = Cardinality(Holders) + PermitAt(x) - PermitAt(pc[t])
           /\ Cardinality(Running') = Cardinality(Running) + PlaceAt(x) - PlaceAt(pc[t])
<1>1. /\ pc'[t] = x
      /\ \A u \in Tasks \ {t} : pc'[u] = pc[u]
  BY DEF CountersOpen
<1>2. Holders \in SUBSET Tasks /\ (Holders' = Holders \cup {t} \/ Holders' = Holders \ {t})
  BY <1>1 DEF Holders
<1>3. Running \in SUBSET Tasks /\ (Running' = Running \cup {t} \/ Running' = Running \ {t})
  BY <1>1 DEF Running
<1>4. /\ t \in Holders' <=> x \in WithPermit
      /\ t \in Holders <=> pc[t] \in WithPermit
      /\ t \in Running' <=> x \notin {"slot"} \cup Ended
      /\ t \in Running <=> pc[t] \notin {"slot"} \cup Ended
  BY <1>1 DEF Holders, Running
<1>5. Cardinality(Holders') = Cardinality(Holders) + One(t \in Holders') - One(t \in Holders)
  BY <1>2, Counted
<1>6. Cardinality(Running') = Cardinality(Running) + One(t \in Running') - One(t \in Running)
  BY <1>3, Counted
<1>7. QED
  BY <1>4, <1>5, <1>6 DEF One, PermitAt, PlaceAt

LEMMA Counts == /\ Cardinality(Holders) \in Nat
                /\ Cardinality(Running) \in Nat
BY TasksFinite DEF Holders, Running

LEMMA At ==
    /\ PermitAt("slot") = 0 /\ PermitAt("permit") = 0 /\ PermitAt("backoff") = 0
    /\ PermitAt("connect") = 1 /\ PermitAt("turn") = 1
    /\ PermitAt("escalate") = 0 /\ PermitAt("delivered") = 0 /\ PermitAt("raised") = 0
    /\ PlaceAt("slot") = 0 /\ PlaceAt("permit") = 1 /\ PlaceAt("backoff") = 1
    /\ PlaceAt("connect") = 1 /\ PlaceAt("turn") = 1
    /\ PlaceAt("escalate") = 1 /\ PlaceAt("delivered") = 0 /\ PlaceAt("raised") = 0
BY DEF PermitAt, PlaceAt, One, WithPermit, Ended

LEMMA PermitsResearcher ==
    ASSUME CountersOpen, TaskInv, PermitsConserved, NEW t \in Tasks, Researcher(t)
    PROVE  PermitsConserved'
<1>0. /\ permits \in Nat /\ slots \in Nat
      /\ Cardinality(Holders) \in Nat /\ Cardinality(Running) \in Nat
      /\ Cap \in Nat /\ ceiling \in Nat
      /\ pc[t] \in TaskPc
  BY Counts, PoolAssumption DEF CountersOpen
<1>1. ceiling' = ceiling
  BY DEF Researcher, TakeSlot, Reuse, Open, Connected,
     ConnectFails, Answered, NoOutput, TimesOut, TurnFails, WakeUp, Deliver, EscalationRaises
<1>2. ASSUME NEW x \in TaskPc, pc' = [pc EXCEPT ![t] = x],
             permits' = permits + PermitAt(pc[t]) - PermitAt(x),
             slots' = slots + PlaceAt(pc[t]) - PlaceAt(x)
      PROVE  PermitsConserved'
  <2>1. /\ PermitAt(x) \in Nat /\ PermitAt(pc[t]) \in Nat
        /\ PlaceAt(x) \in Nat /\ PlaceAt(pc[t]) \in Nat
    BY DEF One, PermitAt, PlaceAt
  <2>2. /\ Cardinality(Holders') = Cardinality(Holders) + PermitAt(x) - PermitAt(pc[t])
        /\ Cardinality(Running') = Cardinality(Running) + PlaceAt(x) - PlaceAt(pc[t])
    BY <1>2, Moved
  <2>3. QED
    BY <1>0, <1>1, <1>2, <2>1, <2>2 DEF PermitsConserved
<1>3. ASSUME pc[t] \in WithPermit, permits' = permits + 1, RetryOrRaise(t)
      PROVE  PermitsConserved'
  <2>1. PermitAt(pc[t]) = 1 /\ PlaceAt(pc[t]) = 1
    BY <1>3, PcTypes, At
  <2>2. \/ pc' = [pc EXCEPT ![t] = "backoff"] /\ slots' = slots
        \/ pc' = [pc EXCEPT ![t] = "raised"] /\ slots' = slots + 1
    BY <1>3 DEF RetryOrRaise
  <2>3. /\ permits' = permits + 1 - 0
        /\ slots' = slots => slots' = slots + 1 - 1
        /\ slots' = slots + 1 => slots' = slots + 1 - 0
    BY <1>0, <1>3
  <2>4. QED
    BY <1>2, <2>1, <2>2, <2>3, PcTypes, At
<1>4. CASE TakeSlot(t)
  <2>1. permits' = permits + 0 - 0 /\ slots' = slots + 0 - 1
    BY <1>0, <1>4 DEF TakeSlot, pool
  <2>2. QED
    BY <1>2, <1>4, <2>1, PcTypes, At DEF TakeSlot
<1>5. CASE Reuse(t)
  <2>1. permits' = permits + 0 - 1 /\ slots' = slots + 1 - 1
    BY <1>0, <1>5 DEF Reuse
  <2>2. QED
    BY <1>2, <1>5, <2>1, PcTypes, At DEF Reuse
<1>6. CASE Open(t)
  <2>1. permits' = permits + 0 - 1 /\ slots' = slots + 1 - 1
    BY <1>0, <1>6 DEF Open
  <2>2. QED
    BY <1>2, <1>6, <2>1, PcTypes, At DEF Open
<1>7. CASE Connected(t)
  <2>1. permits' = permits + 1 - 1 /\ slots' = slots + 1 - 1
    BY <1>0, <1>7 DEF Connected
  <2>2. QED
    BY <1>2, <1>7, <2>1, PcTypes, At DEF Connected
<1>8. CASE ConnectFails(t)
  BY <1>3, <1>8, PcTypes DEF ConnectFails
<1>9. CASE Answered(t)
  <2>1. permits' = permits + 1 - 0 /\ slots' = slots + 1 - 1
    BY <1>0, <1>9 DEF Answered, GiveBack
  <2>2. QED
    BY <1>2, <1>9, <2>1, PcTypes, At DEF Answered
<1>10. CASE NoOutput(t) \/ TimesOut(t) \/ TurnFails(t)
  BY <1>3, <1>10, PcTypes DEF NoOutput, TimesOut, TurnFails, GiveBack
<1>11. CASE WakeUp(t)
  <2>1. permits' = permits + 0 - 0 /\ slots' = slots + 1 - 1
    BY <1>0, <1>11 DEF WakeUp, pool
  <2>2. QED
    BY <1>2, <1>11, <2>1, PcTypes, At DEF WakeUp
<1>12. CASE Deliver(t)
  <2>1. permits' = permits + 0 - 0 /\ slots' = slots + 1 - 0
    BY <1>0, <1>12 DEF Deliver, pool
  <2>2. QED
    BY <1>2, <1>12, <2>1, PcTypes, At DEF Deliver
<1>13. CASE EscalationRaises(t)
  <2>1. permits' = permits + 0 - 0 /\ slots' = slots + 1 - 0
    BY <1>0, <1>13 DEF EscalationRaises, pool
  <2>2. QED
    BY <1>2, <1>13, <2>1, PcTypes, At DEF EscalationRaises
<1> QED
  BY <1>4, <1>5, <1>6, <1>7, <1>8, <1>9, <1>10, <1>11, <1>12, <1>13 DEF Researcher

LEMMA PermitsStart == Init => PermitsConserved
<1> SUFFICES ASSUME Init PROVE PermitsConserved
  OBVIOUS
<1>1. Holders = {} /\ Running = {}
  BY PcTypes DEF Init, Holders, Running
<1>2. QED
  BY <1>1, FS_EmptySet, PoolAssumption DEF Init, PermitsConserved

LEMMA PermitsStep ==
    CountersOpen /\ TaskInv /\ PermitsConserved /\ [Next]_vars => PermitsConserved'
<1> SUFFICES ASSUME CountersOpen, TaskInv, PermitsConserved, [Next]_vars
             PROVE  PermitsConserved'
  OBVIOUS
<1>1. UNCHANGED <<pc, permits, slots, ceiling>> => PermitsConserved'
  BY DEF PermitsConserved, Holders, Running
<1>2. ASSUME NEW t \in Tasks, Critique(t) PROVE PermitsConserved'
  BY <1>1, <1>2 DEF Critique, CritiqueAnswered, CritiqueRetried, CritiqueRaises, task, pool
<1>3. CASE CloseAll
  BY <1>1, <1>3 DEF CloseAll
<1>4. CASE Return
  BY <1>1, <1>4 DEF Return, task, pool
<1>5. CASE UNCHANGED vars
  BY <1>1, <1>5 DEF vars, task, pool
<1> QED
  BY <1>2, <1>3, <1>4, <1>5, PermitsResearcher DEF Next, Returned

PoolInv == CountersOpen /\ TaskInv /\ PermitsConserved

LEMMA PoolInvStart == Init => PoolInv
BY PoolStart, PermitsStart DEF PoolInv

LEMMA PoolInvStep == PoolInv /\ [Next]_vars => PoolInv'
BY PoolStep, PermitsStep DEF PoolInv

LEMMA PoolInvTypes == PoolInv => TypeOK
<1> SUFFICES ASSUME PoolInv PROVE TypeOK
  OBVIOUS
<1>1. slots \in 0..ceiling /\ permits \in 0..Cap
  BY Counts, PoolAssumption DEF PoolInv, CountersOpen, PermitsConserved
<1>2. QED
  BY <1>1 DEF PoolInv, CountersOpen, TypeOK

\* Every variable has its type; above all, neither semaphore ever has more free places
\* than it was made with.
THEOREM TypeCorrect == Spec => []TypeOK
BY PoolInvStart, PoolInvStep, PoolInvTypes, PTL DEF Spec

\* On every way out of an attempt exactly one permit comes back, and on every way out of
\* a researcher exactly one place.
THEOREM PermitsKept == Spec => []PermitsConserved
<1>1. PoolInv => PermitsConserved
  BY DEF PoolInv
<1>2. QED
  BY PoolInvStart, PoolInvStep, <1>1, PTL DEF Spec

-----------------------------------------------------------------------------
(* Sessions.                                                                *)

\* What a task holds is being connected, or is open and registered for aclose.
HeldInv ==
    \A t \in Tasks : /\ pc[t] = "connect" => sess[hold[t]] = "connecting"
                     /\ pc[t] = "turn" => sess[hold[t]] \in {"live", "dead"} /\ hold[t] \in all

\* So is what lies idle.
IdleInv == \A i \in 1..Len(idle) : sess[idle[i]] \in {"live", "dead"} /\ idle[i] \in all

\* The session a task may still open does not exist yet.
BornInv ==
    \A t \in Tasks, a \in Attempt :
        (\/ pc[t] \in {"slot", "permit"} /\ a >= attempt[t]
         \/ pc[t] \in {"connect", "turn", "backoff"} /\ a > attempt[t])
            => sess[<<t, a>>] = "unborn"

\* No session in use is lost from sight: somebody holds it or it lies idle.
SeenInv ==
    \A s \in InUse : (\E t \in Tasks : hold[t] = s) \/ (\E i \in 1..Len(idle) : idle[i] = s)

SessInv == SessionExclusive /\ HeldInv /\ IdleInv /\ BornInv /\ SeenInv /\ NothingLeftOpen

LEMMA SessStart == Init => SessInv
<1> SUFFICES ASSUME Init PROVE SessInv
  OBVIOUS
<1>1. Len(idle) = 0 /\ InUse = {}
  BY EmptySeq DEF Init, InUse
<1>2. \A t \in Tasks : hold[t] = None /\ pc[t] = "slot"
  BY DEF Init
<1>3. \A s \in Session : sess[s] = "unborn"
  BY DEF Init
<1>4. \A t \in Tasks, a \in Attempt : <<t, a>> \in Session
  BY DEF Session
<1>5. phase = "gather"
  BY DEF Init
<1>6. QED
  BY <1>1, <1>2, <1>3, <1>4, <1>5
     DEF SessInv, SessionExclusive, HeldInv, IdleInv, BornInv, SeenInv, NothingLeftOpen

LEMMA IdleSeq ==
    CountersOpen => /\ Len(idle) \in Nat
                    /\ \A i \in 1..Len(idle) : idle[i] \in Session
                    /\ idle # <<>> => Len(idle) \in 1..Len(idle)
                    /\ idle = <<>> => Len(idle) = 0
<1> SUFFICES ASSUME CountersOpen
             PROVE  /\ Len(idle) \in Nat
                    /\ \A i \in 1..Len(idle) : idle[i] \in Session
                    /\ idle # <<>> => Len(idle) \in 1..Len(idle)
                    /\ idle = <<>> => Len(idle) = 0
  OBVIOUS
<1>1. idle \in Seq(Session)
  BY DEF CountersOpen
<1>2. QED
  BY <1>1, LenProperties, EmptySeq, ElementOfSeq

LEMMA SessReuse ==
    ASSUME CountersOpen, TaskInv, SessInv, NEW t \in Tasks, Reuse(t)
    PROVE  SessInv'
<1>0. /\ Len(idle) \in 1..Len(idle)
      /\ Len(idle) \in Nat
      /\ idle[Len(idle)] \in Session
      /\ idle[Len(idle)] # None
      /\ hold[t] = None
      /\ pc[t] = "permit"
  BY IdleSeq, NoneIsNone, PcTypes DEF Reuse, TaskInv
<1>1. /\ Len(idle') = Len(idle) - 1
      /\ \A i \in 1..Len(idle') : i \in 1..Len(idle) /\ i # Len(idle) /\ idle'[i] = idle[i]
  <2>1. idle' = SubSeq(idle, 1, Len(idle) - 1)
    BY DEF Reuse
  <2>2. \A i \in 1..(Len(idle) - 1) : idle[i] \in Session
    BY <1>0, IdleSeq
  <2>3. /\ 1 \in Int /\ Len(idle) - 1 \in Int
        /\ Len(idle) - 1 - 1 + 1 = Len(idle) - 1
        /\ ~(1 <= Len(idle) - 1) => Len(idle) - 1 = 0
    BY <1>0
  <2>4. /\ Len(idle') = IF 1 <= Len(idle) - 1 THEN Len(idle) - 1 - 1 + 1 ELSE 0
        /\ \A i \in 1..(Len(idle) - 1 - 1 + 1) : idle'[i] = idle[1 + i - 1]
    BY <2>1, <2>2, <2>3, SubSeqProperties
  <2>5. Len(idle') = Len(idle) - 1
    BY <2>3, <2>4
  <2>6. \A i \in 1..(Len(idle) - 1) : /\ i \in 1..Len(idle) /\ i # Len(idle)
                                      /\ 1 + i - 1 = i
    BY <1>0
  <2>7. \A i \in 1..(Len(idle) - 1) : idle'[i] = idle[i]
    BY <2>3, <2>4, <2>6
  <2>8. QED
    BY <2>5, <2>6, <2>7
<1>2. /\ hold'[t] = idle[Len(idle)] /\ pc'[t] = "turn"
      /\ \A u \in Tasks \ {t} : hold'[u] = hold[u] /\ pc'[u] = pc[u]
      /\ UNCHANGED <<sess, all, attempt, phase>>
  BY DEF Reuse, CountersOpen, caller
<1>3. \A u \in Tasks : hold[u] # idle[Len(idle)]
  BY <1>0 DEF SessInv, SessionExclusive
<1>4. SessionExclusive'
  <2>1. \A u, v \in Tasks : hold'[u] = hold'[v] /\ hold'[u] # None => u = v
    BY <1>0, <1>2, <1>3 DEF SessInv, SessionExclusive
  <2>2. \A i, j \in 1..Len(idle') : idle'[i] = idle'[j] => i = j
    BY <1>1 DEF SessInv, SessionExclusive
  <2>3. \A u \in Tasks, i \in 1..Len(idle') : idle'[i] # hold'[u]
    BY <1>0, <1>1, <1>2 DEF SessInv, SessionExclusive
  <2>4. QED
    BY <2>1, <2>2, <2>3 DEF SessionExclusive
<1>5. HeldInv'
  BY <1>0, <1>2 DEF SessInv, HeldInv, IdleInv
<1>6. IdleInv'
  BY <1>1, <1>2 DEF SessInv, IdleInv
<1>7. BornInv'
  BY <1>0, <1>2 DEF SessInv, BornInv, CountersOpen, Attempt
<1>8. SeenInv'
  <2> SUFFICES ASSUME NEW s \in InUse
               PROVE  (\E u \in Tasks : hold'[u] = s) \/ (\E i \in 1..Len(idle') : idle'[i] = s)
    BY <1>2 DEF SeenInv, InUse
  <2>1. CASE \E u \in Tasks : hold[u] = s
    <3>1. s # None
      BY NoneIsNone DEF InUse
    <3>2. QED
      BY <1>0, <1>2, <2>1, <3>1
  <2>2. ASSUME NEW i \in 1..Len(idle), idle[i] = s
        PROVE  (\E u \in Tasks : hold'[u] = s) \/ (\E j \in 1..Len(idle') : idle'[j] = s)
    <3>1. CASE i = Len(idle)
      BY <1>2, <2>2, <3>1
    <3>2. CASE i # Len(idle)
      <4>1. i \in 1..Len(idle')
        BY <1>0, <1>1, <3>2
      <4>2. QED
        BY <1>1, <2>2, <4>1
    <3>3. QED
      BY <3>1, <3>2
  <2>3. QED
    BY <2>1, <2>2 DEF SessInv, SeenInv
<1>9. NothingLeftOpen'
  BY <1>2 DEF SessInv, NothingLeftOpen, InUse
<1> QED
  BY <1>4, <1>5, <1>6, <1>7, <1>8, <1>9 DEF SessInv

LEMMA SessOpen ==
    ASSUME CountersOpen, TaskInv, SessInv, NEW t \in Tasks, Open(t)
    PROVE  SessInv'
<1> DEFINE s == <<t, attempt[t]>>
<1>0. /\ s \in Session /\ s # None
      /\ pc[t] = "permit" /\ hold[t] = None /\ attempt[t] \in Attempt
      /\ Len(idle) = 0 /\ idle' = idle
      /\ phase = "gather"
  <2>1. s \in Session /\ s # None /\ attempt[t] \in Attempt
    BY NoneIsNone DEF CountersOpen, Session
  <2>2. pc[t] = "permit" /\ idle = <<>> /\ idle' = idle
    BY DEF Open
  <2>3. hold[t] = None /\ phase = "gather"
    BY <2>2, PcTypes DEF TaskInv
  <2>4. QED
    BY <2>1, <2>2, <2>3, IdleSeq
<1>1. sess[s] = "unborn"
  BY <1>0 DEF SessInv, BornInv, Attempt
<1>2. /\ hold'[t] = s /\ pc'[t] = "connect"
      /\ \A u \in Tasks \ {t} : hold'[u] = hold[u] /\ pc'[u] = pc[u]
      /\ sess'[s] = "connecting"
      /\ \A r \in Session \ {s} : sess'[r] = sess[r]
      /\ UNCHANGED <<all, attempt, phase>>
  BY <1>0 DEF Open, CountersOpen, caller
<1>3. \A u \in Tasks : hold[u] # s
  BY <1>0, <1>1, PcTypes DEF SessInv, HeldInv, TaskInv
<1>4. SessionExclusive'
  BY <1>0, <1>2, <1>3 DEF SessInv, SessionExclusive
<1>5. HeldInv'
  <2> SUFFICES ASSUME NEW u \in Tasks \ {t}, pc[u] \in {"connect", "turn"}
               PROVE  hold[u] \in Session \ {s}
    BY <1>2 DEF SessInv, HeldInv
  <2>1. QED
    BY <1>3, PcTypes DEF TaskInv, CountersOpen
<1>6. IdleInv' /\ NothingLeftOpen'
  BY <1>0, <1>2 DEF IdleInv, NothingLeftOpen
<1>7. BornInv'
  <2> SUFFICES ASSUME NEW u \in Tasks, NEW a \in Attempt,
                      \/ pc'[u] \in {"slot", "permit"} /\ a >= attempt[u]
                      \/ pc'[u] \in {"connect", "turn", "backoff"} /\ a > attempt[u]
               PROVE  sess'[<<u, a>>] = "unborn"
    BY <1>2 DEF BornInv
  <2>1. <<u, a>> \in Session \ {s}
    BY <1>0, <1>2 DEF Session, Attempt
  <2>2. sess[<<u, a>>] = "unborn"
    <3>1. CASE u = t
      BY <1>0, <1>2, <3>1 DEF SessInv, BornInv, Attempt
    <3>2. CASE u # t
      BY <1>2, <3>2 DEF SessInv, BornInv
    <3>3. QED
      BY <3>1, <3>2
  <2>3. QED
    BY <1>2, <2>1, <2>2
<1>8. SeenInv'
  <2> SUFFICES ASSUME NEW r \in Session, sess'[r] \in {"connecting", "live", "dead"}
               PROVE  \E u \in Tasks : hold'[u] = r
    BY DEF SeenInv, InUse
  <2>1. CASE r = s
    BY <1>2, <2>1
  <2>2. CASE r # s
    <3>1. r \in InUse /\ r # None
      BY <1>2, <2>2, NoneIsNone DEF InUse
    <3>2. \E u \in Tasks : hold[u] = r
      BY <1>0, <3>1 DEF SessInv, SeenInv
    <3>3. QED
      BY <1>0, <1>2, <3>1, <3>2
  <2>3. QED
    BY <2>1, <2>2
<1> QED
  BY <1>4, <1>5, <1>6, <1>7, <1>8 DEF SessInv

\* The end of an attempt that had a permit: the other tasks keep what they have.
LEMMA SessConnected ==
    ASSUME CountersOpen, TaskInv, SessInv, NEW t \in Tasks, Connected(t)
    PROVE  SessInv'
<1>0. /\ pc[t] = "connect" /\ hold[t] \in Session /\ hold[t] # None
      /\ sess[hold[t]] = "connecting"
      /\ phase = "gather"
  <2>1. pc[t] = "connect"
    BY DEF Connected
  <2>2. hold[t] # None /\ phase = "gather"
    BY <2>1, PcTypes DEF TaskInv
  <2>3. QED
    BY <2>1, <2>2 DEF SessInv, HeldInv, CountersOpen
<1>1. /\ pc'[t] = "turn"
      /\ \A u \in Tasks \ {t} : pc'[u] = pc[u]
      /\ sess'[hold[t]] = "live"
      /\ \A r \in Session \ {hold[t]} : sess'[r] = sess[r]
      /\ all' = all \cup {hold[t]}
      /\ UNCHANGED <<hold, idle, attempt, phase>>
  BY <1>0 DEF Connected, CountersOpen, caller
<1>2. SessionExclusive' /\ NothingLeftOpen'
  BY <1>0, <1>1 DEF SessInv, SessionExclusive, NothingLeftOpen
<1>3. HeldInv'
  <2> SUFFICES ASSUME NEW u \in Tasks \ {t}, pc[u] \in {"connect", "turn"}
               PROVE  hold[u] \in Session \ {hold[t]}
    BY <1>0, <1>1 DEF SessInv, HeldInv
  <2>1. hold[u] \in Session /\ hold[u] # None
    BY PcTypes DEF TaskInv, CountersOpen
  <2>2. QED
    BY <1>0, <2>1 DEF SessInv, SessionExclusive
<1>4. IdleInv'
  <2> SUFFICES ASSUME NEW i \in 1..Len(idle) PROVE idle[i] \in Session \ {hold[t]}
    BY <1>1 DEF SessInv, IdleInv
  <2>1. QED
    BY IdleSeq DEF SessInv, SessionExclusive
<1>5. BornInv'
  <2> SUFFICES ASSUME NEW u \in Tasks, NEW a \in Attempt,
                      \/ pc'[u] \in {"slot", "permit"} /\ a >= attempt[u]
                      \/ pc'[u] \in {"connect", "turn", "backoff"} /\ a > attempt[u]
               PROVE  sess'[<<u, a>>] = "unborn"
    BY <1>1 DEF BornInv
  <2>1. sess[<<u, a>>] = "unborn" /\ <<u, a>> \in Session
    BY <1>0, <1>1 DEF SessInv, BornInv, Session
  <2>2. QED
    BY <1>0, <1>1, <2>1
<1>6. SeenInv'
  BY <1>0, <1>1 DEF SessInv, SeenInv, InUse
<1> QED
  BY <1>2, <1>3, <1>4, <1>5, <1>6 DEF SessInv

LEMMA SessConnectFails ==
    ASSUME CountersOpen, TaskInv, SessInv, NEW t \in Tasks, ConnectFails(t)
    PROVE  SessInv'
<1>0. /\ pc[t] = "connect" /\ hold[t] \in Session /\ hold[t] # None
      /\ phase = "gather"
  <2>1. pc[t] = "connect"
    BY DEF ConnectFails
  <2>2. hold[t] # None /\ phase = "gather"
    BY <2>1, PcTypes DEF TaskInv
  <2>3. QED
    BY <2>1, <2>2 DEF CountersOpen
<1>1. /\ hold'[t] = None /\ pc'[t] \in {"backoff", "raised"}
      /\ \A u \in Tasks \ {t} : hold'[u] = hold[u] /\ pc'[u] = pc[u]
      /\ sess'[hold[t]] = "unborn"
      /\ \A r \in Session \ {hold[t]} : sess'[r] = sess[r]
      /\ UNCHANGED <<all, idle, attempt, phase>>
  BY <1>0, RetryTypes DEF ConnectFails, CountersOpen, caller
<1>2. SessionExclusive'
  <2>1. \A u, v \in Tasks : hold'[u] = hold'[v] /\ hold'[u] # None => u = v
    BY <1>1 DEF SessInv, SessionExclusive
  <2>2. \A u \in Tasks, i \in 1..Len(idle) : idle[i] # hold'[u]
    BY <1>1, IdleSeq, NoneIsNone DEF SessInv, SessionExclusive
  <2>3. QED
    BY <1>1, <2>1, <2>2 DEF SessInv, SessionExclusive
<1>3. HeldInv'
  <2> SUFFICES ASSUME NEW u \in Tasks \ {t}, pc[u] \in {"connect", "turn"}
               PROVE  hold[u] \in Session \ {hold[t]}
    BY <1>0, <1>1 DEF SessInv, HeldInv
  <2>1. hold[u] \in Session /\ hold[u] # None
    BY PcTypes DEF TaskInv, CountersOpen
  <2>2. QED
    BY <1>0, <2>1 DEF SessInv, SessionExclusive
<1>4. IdleInv'
  <2> SUFFICES ASSUME NEW i \in 1..Len(idle) PROVE idle[i] \in Session \ {hold[t]}
    BY <1>1 DEF SessInv, IdleInv
  <2>1. QED
    BY IdleSeq DEF SessInv, SessionExclusive
<1>5. BornInv'
  <2> SUFFICES ASSUME NEW u \in Tasks, NEW a \in Attempt,
                      \/ pc'[u] \in {"slot", "permit"} /\ a >= attempt[u]
                      \/ pc'[u] \in {"connect", "turn", "backoff"} /\ a > attempt[u]
               PROVE  sess'[<<u, a>>] = "unborn"
    BY <1>1 DEF BornInv
  <2>1. sess[<<u, a>>] = "unborn" /\ <<u, a>> \in Session
    BY <1>0, <1>1 DEF SessInv, BornInv, Session
  <2>2. QED
    BY <1>0, <1>1, <2>1
<1>6. SeenInv'
  <2> SUFFICES ASSUME NEW s \in InUse, s # hold[t]
               PROVE  \/ \E u \in Tasks : hold'[u] = s
                      \/ \E i \in 1..Len(idle) : idle[i] = s
    BY <1>0, <1>1 DEF SeenInv, InUse
  <2>1. QED
    BY <1>1 DEF SessInv, SeenInv
<1>7. NothingLeftOpen'
  BY <1>0, <1>1 DEF NothingLeftOpen
<1> QED
  BY <1>2, <1>3, <1>4, <1>5, <1>6, <1>7 DEF SessInv

\* A turn that ends, in whatever way: the session goes back to the idle list.
LEMMA SessTurnEnds ==
    ASSUME CountersOpen, TaskInv, SessInv, NEW t \in Tasks,
           pc[t] = "turn", GiveBack(t),
           sess' \in {sess, [sess EXCEPT ![hold[t]] = "dead"]},
           pc'[t] \in {"backoff", "raised", "escalate"},
           pc'[t] = "backoff" => attempt'[t] = attempt[t],
           \A u \in Tasks \ {t} : pc'[u] = pc[u] /\ attempt'[u] = attempt[u],
           phase' = phase
    PROVE  SessInv'
<1>0. /\ hold[t] \in Session /\ hold[t] # None
      /\ sess[hold[t]] \in {"live", "dead"} /\ hold[t] \in all
      /\ phase = "gather"
  <2>1. hold[t] # None /\ phase = "gather"
    BY PcTypes DEF TaskInv
  <2>2. QED
    BY <2>1 DEF SessInv, HeldInv, CountersOpen
<1>1. HasClient(hold[t])
  BY <1>0 DEF HasClient
<1>2. idle' = Append(idle, hold[t]) /\ all' = all /\ hold' = [hold EXCEPT ![t] = None]
  BY <1>1 DEF GiveBack
<1>3. /\ hold'[t] = None
      /\ \A u \in Tasks \ {t} : hold'[u] = hold[u]
  BY <1>2 DEF CountersOpen
<1>4. /\ Len(idle') = Len(idle) + 1
      /\ idle'[Len(idle) + 1] = hold[t]
      /\ \A i \in 1..Len(idle) : idle'[i] = idle[i]
      /\ \A i \in 1..Len(idle') : i \in 1..Len(idle) \/ i = Len(idle) + 1
      /\ 1..Len(idle) \subseteq 1..Len(idle')
      /\ Len(idle) + 1 \in 1..Len(idle')
  <2>1. idle \in Seq(Session) /\ Len(idle) \in Nat
    BY IdleSeq DEF CountersOpen
  <2>2. QED
    BY <1>0, <1>2, <2>1, AppendProperties
<1>5. /\ sess'[hold[t]] \in {"live", "dead"}
      /\ \A r \in Session \ {hold[t]} : sess'[r] = sess[r]
  BY <1>0 DEF CountersOpen
<1>6. /\ \A i \in 1..Len(idle) : idle[i] \in Session \ {hold[t]}
      /\ \A u \in Tasks \ {t} : hold[u] # hold[t]
  BY <1>0, IdleSeq DEF SessInv, SessionExclusive
<1>7. SessionExclusive'
  <2>1. \A u, v \in Tasks : hold'[u] = hold'[v] /\ hold'[u] # None => u = v
    BY <1>3 DEF SessInv, SessionExclusive
  <2>2. \A i, j \in 1..Len(idle') : idle'[i] = idle'[j] => i = j
    BY <1>4, <1>6 DEF SessInv, SessionExclusive
  <2>3. ASSUME NEW u \in Tasks, NEW i \in 1..Len(idle') PROVE idle'[i] # hold'[u]
    <3>1. idle'[i] \in Session
      BY <1>0, <1>4, <1>6
    <3>2. CASE u = t
      BY <1>3, <3>1, <3>2, NoneIsNone
    <3>3. CASE u # t
      BY <1>3, <1>4, <1>6, <3>3 DEF SessInv, SessionExclusive
    <3>4. QED
      BY <3>2, <3>3
  <2>4. QED
    BY <2>1, <2>2, <2>3 DEF SessionExclusive
<1>8. HeldInv'
  <2> SUFFICES ASSUME NEW u \in Tasks \ {t}, pc[u] \in {"connect", "turn"}
               PROVE  hold[u] \in Session \ {hold[t]}
    BY <1>2, <1>3, <1>5 DEF SessInv, HeldInv
  <2>1. hold[u] \in Session
    BY PcTypes DEF TaskInv, CountersOpen
  <2>2. QED
    BY <1>6, <2>1
<1>9. IdleInv'
  BY <1>0, <1>2, <1>4, <1>5, <1>6 DEF SessInv, IdleInv
<1>10. BornInv'
  <2> SUFFICES ASSUME NEW u \in Tasks, NEW a \in Attempt,
                      \/ pc'[u] \in {"slot", "permit"} /\ a >= attempt'[u]
                      \/ pc'[u] \in {"connect", "turn", "backoff"} /\ a > attempt'[u]
               PROVE  sess'[<<u, a>>] = "unborn"
    BY DEF BornInv
  <2>1. \/ pc[u] \in {"slot", "permit"} /\ a >= attempt[u]
        \/ pc[u] \in {"connect", "turn", "backoff"} /\ a > attempt[u]
    OBVIOUS
  <2>2. sess[<<u, a>>] = "unborn" /\ <<u, a>> \in Session
    BY <2>1 DEF SessInv, BornInv, Session
  <2>3. QED
    BY <1>0, <1>5, <2>2
<1>11. SeenInv'
  <2> SUFFICES ASSUME NEW s \in Session, sess'[s] \in {"connecting", "live", "dead"}
               PROVE  \/ \E u \in Tasks : hold'[u] = s
                      \/ \E i \in 1..Len(idle') : idle'[i] = s
    BY DEF SeenInv, InUse
  <2>1. CASE s = hold[t]
    BY <1>4, <2>1
  <2>2. CASE s # hold[t]
    <3>1. s \in InUse
      BY <1>5, <2>2 DEF InUse
    <3>2. QED
      BY <1>3, <1>4, <2>2, <3>1 DEF SessInv, SeenInv
  <2>3. QED
    BY <2>1, <2>2
<1>12. NothingLeftOpen'
  BY <1>0 DEF NothingLeftOpen
<1> QED
  BY <1>7, <1>8, <1>9, <1>10, <1>11, <1>12 DEF SessInv

LEMMA SessResearcher ==
    ASSUME CountersOpen, TaskInv, SessInv, NEW t \in Tasks, Researcher(t)
    PROVE  SessInv'
<1>0. pc[t] \in Ended \/ phase = "gather"
  BY DEF TaskInv
<1>1. ASSUME UNCHANGED <<hold, pool, phase>>,
             \A u \in Tasks \ {t} : pc'[u] = pc[u] /\ attempt'[u] = attempt[u],
             \/ pc[t] = "slot" /\ pc'[t] = "permit" /\ attempt'[t] = attempt[t]
             \/ pc[t] = "backoff" /\ pc'[t] = "permit" /\ attempt'[t] = attempt[t] + 1
             \/ pc[t] = "escalate" /\ pc'[t] \in Ended
      PROVE  SessInv'
  <2>1. SessionExclusive' /\ IdleInv' /\ SeenInv' /\ NothingLeftOpen'
    BY <1>1 DEF SessInv, SessionExclusive, IdleInv, SeenInv, InUse, NothingLeftOpen, pool
  <2>2. pc'[t] \notin {"connect", "turn"}
    BY <1>1, PcTypes
  <2>3. HeldInv'
    BY <1>1, <2>2 DEF SessInv, HeldInv, pool
  <2>4. BornInv'
    <3> SUFFICES ASSUME NEW u \in Tasks, NEW a \in Attempt,
                        \/ pc'[u] \in {"slot", "permit"} /\ a >= attempt'[u]
                        \/ pc'[u] \in {"connect", "turn", "backoff"} /\ a > attempt'[u]
                 PROVE  sess[<<u, a>>] = "unborn"
      BY <1>1 DEF BornInv, pool
    <3>1. attempt[u] \in Nat /\ a \in Nat
      BY DEF CountersOpen, Attempt
    <3>2. CASE u = t
      BY <1>1, <3>1, <3>2, PcTypes DEF SessInv, BornInv
    <3>3. CASE u # t
      BY <1>1, <3>3 DEF SessInv, BornInv
    <3>4. QED
      BY <3>2, <3>3
  <2>5. QED
    BY <2>1, <2>3, <2>4 DEF SessInv
<1>2. CASE TakeSlot(t)
  BY <1>1, <1>2, PcTypes DEF TakeSlot, CountersOpen, caller
<1>3. CASE WakeUp(t)
  BY <1>1, <1>3, PcTypes DEF WakeUp, CountersOpen, caller
<1>4. CASE Deliver(t)
  BY <1>1, <1>4, PcTypes DEF Deliver, CountersOpen, caller
<1>5. CASE EscalationRaises(t)
  BY <1>1, <1>5, PcTypes DEF EscalationRaises, CountersOpen, caller
<1>6. CASE Answered(t)
  <2>1. /\ pc[t] = "turn" /\ GiveBack(t) /\ pc'[t] = "escalate" /\ sess' = sess
        /\ phase' = phase
        /\ \A u \in Tasks \ {t} : pc'[u] = pc[u] /\ attempt'[u] = attempt[u]
    BY <1>6 DEF Answered, CountersOpen, caller
  <2>2. QED
    BY <2>1, SessTurnEnds
<1>7. CASE NoOutput(t) \/ TimesOut(t) \/ TurnFails(t)
  <2>1. /\ pc[t] = "turn" /\ GiveBack(t) /\ RetryOrRaise(t)
        /\ sess' \in {sess, [sess EXCEPT ![hold[t]] = "dead"]}
        /\ phase' = phase /\ attempt' = attempt
    BY <1>7 DEF NoOutput, TimesOut, TurnFails, caller
  <2>2. QED
    BY <2>1, SessTurnEnds, RetryTypes
<1> QED
  BY <1>2, <1>3, <1>4, <1>5, <1>6, <1>7, SessReuse, SessOpen, SessConnected, SessConnectFails
     DEF Researcher

LEMMA SessClose ==
    ASSUME CountersOpen, TaskInv, SessInv, CloseAll
    PROVE  SessInv'
<1>1. \A t \in Tasks : hold[t] = None /\ pc[t] \in Ended
  BY PcTypes DEF CloseAll, TaskInv
<1>2. Len(idle') = 0 /\ hold' = hold /\ pc' = pc
  BY EmptySeq DEF CloseAll
<1>3. InUse' = {}
  <2> SUFFICES ASSUME NEW s \in Session, sess'[s] \in {"connecting", "live", "dead"}
               PROVE  FALSE
    BY DEF InUse
  <2>1. s \notin all /\ s \in InUse
    BY DEF CloseAll, InUse
  <2>2. \E i \in 1..Len(idle) : idle[i] = s
    BY <1>1, <2>1, NoneIsNone DEF SessInv, SeenInv, InUse
  <2>3. QED
    BY <2>1, <2>2 DEF SessInv, IdleInv
<1>4. QED
  BY <1>1, <1>2, <1>3, PcTypes
     DEF SessInv, SessionExclusive, HeldInv, IdleInv, BornInv, SeenInv, NothingLeftOpen

LEMMA SessStep == PoolInv /\ SessInv /\ [Next]_vars => SessInv'
<1> SUFFICES ASSUME CountersOpen, TaskInv, SessInv, [Next]_vars PROVE SessInv'
  BY DEF PoolInv
<1>1. UNCHANGED <<task, pool>> /\ (phase' # "gather" => phase # "gather") => SessInv'
  BY DEF SessInv, SessionExclusive, HeldInv, IdleInv, BornInv, SeenInv, InUse,
     NothingLeftOpen, task, pool
<1>2. ASSUME NEW t \in Tasks, Critique(t) PROVE SessInv'
  BY <1>1, <1>2 DEF Critique, CritiqueAnswered, CritiqueRetried, CritiqueRaises
<1>3. CASE Return
  BY <1>1, <1>3 DEF Return
<1>4. CASE UNCHANGED vars
  BY <1>1, <1>4 DEF vars, caller
<1> QED
  BY <1>2, <1>3, <1>4, SessResearcher, SessClose DEF Next, Returned

\* However connects, check-ins and failures interleave, a session is in one hand only.
THEOREM SessionsExclusive == Spec => []SessionExclusive
<1>1. SessInv => SessionExclusive
  BY DEF SessInv
<1>2. QED
  BY PoolInvStart, PoolInvStep, SessStart, SessStep, <1>1, PTL DEF Spec

\* When the fan-out has closed its pool no subprocess is left, whatever failed before.
THEOREM AllClosed == Spec => []NothingLeftOpen
<1>1. SessInv => NothingLeftOpen
  BY DEF SessInv
<1>2. QED
  BY PoolInvStart, PoolInvStep, SessStart, SessStep, <1>1, PTL DEF Spec

-----------------------------------------------------------------------------
(* The number of sessions.                                                  *)

CapInv == IsFiniteSet(InUse) /\ SessionsWithinCap

LEMMA CapStart == Init => CapInv
<1> SUFFICES ASSUME Init PROVE CapInv
  OBVIOUS
<1>1. InUse = {}
  BY DEF Init, InUse
<1>2. QED
  BY <1>1, FS_EmptySet, PoolAssumption DEF CapInv, SessionsWithinCap

\* A session is opened only when none lies idle: then all sessions in use are held, each
\* by another task with a permit.
LEMMA CapOpen ==
    ASSUME PoolInv', SessInv', NEW t \in Tasks, Open(t)
    PROVE  CapInv'
<1> DEFINE Held == {hold'[u] : u \in Holders'}
           f == [u \in Holders' |-> hold'[u]]
<1>1. IsFiniteSet(Holders') /\ Cardinality(Holders') \in Nat
  BY TasksFinite DEF Holders
<1>2. Cardinality(Holders') <= Cap
  BY <1>1, PoolAssumption DEF PoolInv, CountersOpen, PermitsConserved
<1>3. f \in Surjection(Holders', Held)
  BY DEF Surjection
<1>4. IsFiniteSet(Held) /\ Cardinality(Held) <= Cardinality(Holders')
  BY <1>1, <1>3, FS_Surjection
<1>5. InUse' \subseteq Held
  <2> SUFFICES ASSUME NEW s \in InUse' PROVE s \in Held
    OBVIOUS
  <2>1. Len(idle') = 0
    BY EmptySeq DEF Open
  <2>2. \E u \in Tasks : hold'[u] = s
    BY <2>1 DEF SessInv, SeenInv
  <2>3. s # None
    BY NoneIsNone DEF InUse
  <2>4. QED
    BY <2>2, <2>3 DEF PoolInv, TaskInv, Holders
<1>6. /\ IsFiniteSet(InUse')
      /\ Cardinality(InUse') <= Cardinality(Held)
      /\ Cardinality(InUse') \in Nat /\ Cardinality(Held) \in Nat
  BY <1>4, <1>5, FS_Subset, FS_CardinalityType
<1>7. QED
  BY <1>1, <1>2, <1>4, <1>6, PoolAssumption DEF CapInv, SessionsWithinCap

LEMMA CapStep == PoolInv /\ SessInv /\ CapInv /\ [Next]_vars => CapInv'
<1> SUFFICES ASSUME PoolInv, SessInv, CapInv, [Next]_vars PROVE CapInv'
  OBVIOUS
<1>0. PoolInv' /\ SessInv'
  BY PoolInvStep, SessStep
<1>1. InUse' \subseteq InUse => CapInv'
  <2> SUFFICES ASSUME InUse' \in SUBSET InUse PROVE CapInv'
    OBVIOUS
  <2>1. IsFiniteSet(InUse) /\ Cardinality(InUse) <= Cap
    BY DEF CapInv, SessionsWithinCap
  <2>2. /\ IsFiniteSet(InUse') /\ Cardinality(InUse') <= Cardinality(InUse)
        /\ Cardinality(InUse) \in Nat /\ Cardinality(InUse') \in Nat
    BY <2>1, FS_Subset, FS_CardinalityType
  <2>3. QED
    BY <2>1, <2>2, PoolAssumption DEF CapInv, SessionsWithinCap
<1>2. sess' = sess => CapInv'
  BY <1>1 DEF InUse
<1>3. ASSUME NEW t \in Tasks, Researcher(t) PROVE CapInv'
  <2>0. pc[t] \in WithPermit => /\ hold[t] \in Session
                                /\ sess[hold[t]] \in {"connecting", "live", "dead"}
    BY PcTypes DEF PoolInv, TaskInv, CountersOpen, SessInv, HeldInv
  <2>1. CASE Open(t)
    BY <1>0, <2>1, CapOpen
  <2>2. CASE Connected(t)
    BY <1>1, <2>0, <2>2, PcTypes DEF Connected, InUse, PoolInv, CountersOpen
  <2>3. CASE ConnectFails(t)
    BY <1>1, <2>0, <2>3, PcTypes DEF ConnectFails, InUse, PoolInv, CountersOpen
  <2>4. CASE TurnFails(t)
    BY <1>1, <2>0, <2>4, PcTypes DEF TurnFails, InUse, PoolInv, CountersOpen
  <2>5. QED
    BY <1>2, <1>3, <2>1, <2>2, <2>3, <2>4 DEF Researcher, TakeSlot, Reuse, Answered, NoOutput,
       TimesOut, WakeUp, Deliver, EscalationRaises, pool
<1>4. CASE CloseAll
  BY <1>1, <1>4 DEF CloseAll, InUse
<1>5. ASSUME NEW t \in Tasks, Critique(t) PROVE CapInv'
  BY <1>2, <1>5 DEF Critique, CritiqueAnswered, CritiqueRetried, CritiqueRaises, pool
<1>6. CASE Return \/ UNCHANGED vars
  BY <1>2, <1>6 DEF Return, vars, pool
<1> QED
  BY <1>3, <1>4, <1>5, <1>6 DEF Next, Returned

\* The permits bound the subprocesses, idle ones included, not only the turns.
THEOREM SessionsBounded == Spec => []SessionsWithinCap
<1>1. CapInv => SessionsWithinCap
  BY DEF CapInv
<1>2. QED
  BY PoolInvStart, PoolInvStep, SessStart, SessStep, CapStart, CapStep, <1>1, PTL DEF Spec

-----------------------------------------------------------------------------
(* Questions and answers.                                                   *)

\* Only a session on which a turn was given up has something left to answer, and only
\* while it lives.
StreamInv ==
    /\ abandoned \subseteq all
    /\ \A s \in Session \ abandoned : stream[s] = <<>>

LEMMA StreamStart == Init => StreamInv
BY DEF Init, StreamInv

\* A turn written to an empty stream.
LEMMA AskedOnly ==
    ASSUME NEW x
    PROVE  /\ Append(<<>>, x) = <<x>>
           /\ Head(<<x>>) = x
           /\ Tail(<<x>>) = <<>>
OBVIOUS

LEMMA StreamResearcher ==
    ASSUME PoolInv, SessInv, StreamInv, NEW t \in Tasks, Researcher(t)
    PROVE  /\ StreamInv'
           /\ \A u \in Tasks : answer'[u] # answer[u] =>
                 answer'[u] \in {None, <<u, attempt[u]>>} \/ hold[u] \in abandoned
<1>0. CountersOpen /\ TaskInv
  BY DEF PoolInv
<1>1. ASSUME UNCHANGED <<stream, abandoned>>, all \subseteq all',
             \A u \in Tasks : answer'[u] \in {answer[u], None}
      PROVE  StreamInv' /\ \A u \in Tasks : answer'[u] # answer[u] => answer'[u] = None
  BY <1>1 DEF StreamInv
<1>2. CASE TakeSlot(t) \/ WakeUp(t) \/ Deliver(t)
  BY <1>1, <1>2 DEF TakeSlot, WakeUp, Deliver, pool
<1>3. CASE EscalationRaises(t)
  BY <1>0, <1>1, <1>3 DEF EscalationRaises, pool, CountersOpen
<1>4. CASE Reuse(t) \/ Open(t) \/ Connected(t) \/ ConnectFails(t)
  BY <1>1, <1>4 DEF Reuse, Open, Connected, ConnectFails
<1>5. ASSUME pc[t] = "turn", GiveBack(t)
      PROVE  hold[t] \in Session /\ hold[t] \in all /\ all' = all
  <2>1. hold[t] \in Session /\ sess[hold[t]] \in {"live", "dead"} /\ hold[t] \in all
    BY <1>0, <1>5, PcTypes DEF TaskInv, CountersOpen, SessInv, HeldInv
  <2>2. QED
    BY <1>5, <2>1 DEF GiveBack, HasClient
<1>6. hold[t] \in Session /\ hold[t] \notin abandoned =>
        Asked(t) = <<<<t, attempt[t]>>>>
  BY AskedOnly DEF StreamInv, Asked
<1>7. CASE Answered(t)
  <2>1. /\ hold[t] \in Session /\ all' = all /\ abandoned' = abandoned
        /\ answer' = [answer EXCEPT ![t] = Head(Asked(t))]
        /\ stream' = [stream EXCEPT ![hold[t]] = Tail(Asked(t))]
    BY <1>5, <1>7 DEF Answered
  <2>2. StreamInv'
    BY <1>0, <1>6, <2>1, AskedOnly DEF StreamInv, CountersOpen
  <2>3. hold[t] \notin abandoned => answer'[t] = <<t, attempt[t]>>
    BY <1>0, <1>6, <2>1, AskedOnly DEF CountersOpen
  <2>4. \A u \in Tasks \ {t} : answer'[u] = answer[u]
    BY <1>0, <2>1 DEF CountersOpen
  <2>5. QED
    BY <2>2, <2>3, <2>4
<1>8. CASE NoOutput(t)
  <2>1. /\ hold[t] \in Session /\ all' = all /\ abandoned' = abandoned
        /\ answer' = answer
        /\ stream' = [stream EXCEPT ![hold[t]] = Tail(Asked(t))]
    BY <1>5, <1>8 DEF NoOutput
  <2>2. QED
    BY <1>0, <1>6, <2>1, AskedOnly DEF StreamInv, CountersOpen
<1>9. CASE TimesOut(t)
  <2>1. /\ hold[t] \in Session /\ hold[t] \in all /\ all' = all
        /\ abandoned' = abandoned \cup {hold[t]} /\ answer' = answer
        /\ stream' = [stream EXCEPT ![hold[t]] = Asked(t)]
    BY <1>5, <1>9 DEF TimesOut
  <2>2. QED
    BY <1>0, <2>1 DEF StreamInv, CountersOpen
<1>10. CASE TurnFails(t)
  <2>1. /\ hold[t] \in Session /\ all' = all
        /\ abandoned' = abandoned \ {hold[t]} /\ answer' = answer
        /\ stream' = [stream EXCEPT ![hold[t]] = <<>>]
    BY <1>5, <1>10 DEF TurnFails
  <2>2. QED
    BY <1>0, <2>1 DEF StreamInv, CountersOpen
<1> QED
  BY <1>1, <1>2, <1>3, <1>4, <1>7, <1>8, <1>9, <1>10 DEF Researcher

LEMMA StreamNext ==
    ASSUME PoolInv, SessInv, StreamInv, [Next]_vars
    PROVE  /\ StreamInv'
           /\ \A u \in Tasks : answer'[u] # answer[u] =>
                 answer'[u] \in {None, <<u, attempt[u]>>} \/ hold[u] \in abandoned
<1>1. UNCHANGED <<stream, abandoned, all, answer>> =>
         StreamInv' /\ \A u \in Tasks : answer'[u] = answer[u]
  BY DEF StreamInv
<1>2. CASE CloseAll
  BY <1>2 DEF CloseAll, StreamInv
<1>3. ASSUME NEW t \in Tasks, Critique(t) PROVE UNCHANGED <<stream, abandoned, all, answer>>
  BY <1>3 DEF Critique, CritiqueAnswered, CritiqueRetried, CritiqueRaises, task, pool
<1>4. CASE Return \/ UNCHANGED vars
  BY <1>1, <1>4 DEF Return, vars, task, pool
<1> QED
  BY <1>1, <1>2, <1>3, <1>4, StreamResearcher DEF Next, Returned

\* A researcher is given the answer to another question only by a session on which an
\* earlier turn was given up.
THEOREM CrossedAfterTimeout == Spec => CrossedOnlyAfterTimeout
<1>1. PoolInv /\ SessInv /\ StreamInv /\ [Next]_vars => StreamInv'
  BY StreamNext
<1>2. PoolInv /\ SessInv /\ StreamInv /\ [Next]_vars =>
        [\A t \in Tasks : answer'[t] # answer[t] =>
            answer'[t] \in {None, <<t, attempt[t]>>} \/ hold[t] \in abandoned]_vars
  BY StreamNext
<1>3. QED
  BY PoolInvStart, PoolInvStep, SessStart, SessStep, StreamStart, <1>1, <1>2, PTL
     DEF Spec, CrossedOnlyAfterTimeout

\* A turn a task may still ask.
Upcoming(t, a) ==
    \/ pc[t] \in {"slot", "permit", "connect", "turn"} /\ a >= attempt[t]
    \/ pc[t] = "backoff" /\ a > attempt[t]

\* every open question is open in one place
Distinct(q) ==
    \A r, s \in Session : \A i \in 1..Len(q[r]), j \in 1..Len(q[s]) :
        q[r][i] = q[s][j] => r = s /\ i = j

\* no open question is answered already
Untaken(q, ans) ==
    \A t \in Tasks, s \in Session : \A i \in 1..Len(q[s]) : q[s][i] # ans[t]

\* no upcoming turn is open or answered
Unasked(q, ans) ==
    \A t \in Tasks, a \in Attempt : Upcoming(t, a) =>
        /\ \A s \in Session : \A i \in 1..Len(q[s]) : q[s][i] # <<t, a>>
        /\ \A u \in Tasks : ans[u] # <<t, a>>

AnswerInv ==
    Distinct(stream) /\ Untaken(stream, answer) /\ Unasked(stream, answer) /\ AnswerDeliveredOnce

\* The queue x holds some of the questions of y, none of them twice; and so do, for each
\* session, the queues p of those of q.
Within(x, y) ==
    \E k \in [1..Len(x) -> 1..Len(y)] :
        /\ \A i \in 1..Len(x) : x[i] = y[k[i]]
        /\ \A i, j \in 1..Len(x) : k[i] = k[j] => i = j

Part(p, q) == \A s \in Session : Within(p[s], q[s])

LEMMA PartKeeps ==
    ASSUME NEW p, NEW q, NEW ans, Part(p, q)
    PROVE  /\ Distinct(q) => Distinct(p)
           /\ Untaken(q, ans) => Untaken(p, ans)
           /\ Unasked(q, ans) => Unasked(p, ans)
<1>1. ASSUME Distinct(q), NEW r \in Session, NEW s \in Session,
             NEW i \in 1..Len(p[r]), NEW j \in 1..Len(p[s]), p[r][i] = p[s][j]
      PROVE  r = s /\ i = j
  <2>1. PICK k \in [1..Len(p[r]) -> 1..Len(q[r])] :
           /\ \A h \in 1..Len(p[r]) : p[r][h] = q[r][k[h]]
           /\ \A h, g \in 1..Len(p[r]) : k[h] = k[g] => h = g
    BY DEF Part, Within
  <2>2. PICK l \in [1..Len(p[s]) -> 1..Len(q[s])] :
           \A h \in 1..Len(p[s]) : p[s][h] = q[s][l[h]]
    BY DEF Part, Within
  <2>3. k[i] \in 1..Len(q[r]) /\ l[j] \in 1..Len(q[s]) /\ q[r][k[i]] = q[s][l[j]]
    BY <1>1, <2>1, <2>2
  <2>4. r = s
    BY <1>1, <2>3 DEF Distinct
  <2>5. k[j] \in 1..Len(q[r]) /\ q[r][k[i]] = q[r][k[j]]
    BY <1>1, <2>1, <2>4
  <2>6. k[i] = k[j]
    BY <1>1, <2>3, <2>5 DEF Distinct
  <2>7. QED
    BY <2>1, <2>4, <2>6
<1>2. \A s \in Session : \A i \in 1..Len(p[s]) : \E j \in 1..Len(q[s]) : p[s][i] = q[s][j]
  BY DEF Part, Within
<1>3. Untaken(q, ans) => Untaken(p, ans)
  BY <1>2 DEF Untaken
<1>4. Unasked(q, ans) => Unasked(p, ans)
  BY <1>2 DEF Unasked
<1>5. QED
  BY <1>1, <1>3, <1>4 DEF Distinct

LEMMA SameQueue == ASSUME NEW x PROVE Within(x, x)
<1> DEFINE k == [i \in 1..Len(x) |-> i]
<1>1. k \in [1..Len(x) -> 1..Len(x)]
  OBVIOUS
<1>2. \A i \in 1..Len(x) : k[i] = i
  OBVIOUS
<1> HIDE DEF k
<1>3. QED
  BY <1>1, <1>2 DEF Within

LEMMA PartSelf == ASSUME NEW q PROVE Part(q, q)
BY SameQueue DEF Part

\* The first question of a session is answered, or all are given up with it.
LEMMA PartTail ==
    ASSUME NEW q \in [Session -> Seq(Turn)], NEW h \in Session, q[h] # <<>>,
           NEW p, p = [q EXCEPT ![h] = Tail(q[h])]
    PROVE  /\ Part(p, q)
           /\ Distinct(q) => \A s \in Session : \A i \in 1..Len(p[s]) : p[s][i] # Head(q[h])
<1>1. /\ Len(q[h]) \in Nat /\ Len(q[h]) # 0
      /\ Len(Tail(q[h])) = Len(q[h]) - 1
      /\ \A i \in 1..Len(Tail(q[h])) : Tail(q[h])[i] = q[h][i + 1]
      /\ Head(q[h]) = q[h][1]
  BY HeadTailProperties, EmptySeq
<1>2. p[h] = Tail(q[h]) /\ \A s \in Session \ {h} : p[s] = q[s]
  OBVIOUS
<1>3. \A i \in 1..Len(p[h]) : /\ i + 1 \in 1..Len(q[h]) /\ i + 1 # 1
                              /\ p[h][i] = q[h][i + 1]
  BY <1>1, <1>2
<1>4. 1 \in 1..Len(q[h])
  BY <1>1
<1>5. Part(p, q)
  <2> SUFFICES ASSUME NEW s \in Session PROVE Within(p[s], q[s])
    BY DEF Part
  <2>1. CASE s = h
    <3> DEFINE k == [i \in 1..Len(p[s]) |-> i + 1]
    <3>1. k \in [1..Len(p[s]) -> 1..Len(q[s])]
      BY <1>3, <2>1
    <3>2. \A i \in 1..Len(p[s]) : p[s][i] = q[s][k[i]]
      BY <1>3, <2>1
    <3>3. \A i, j \in 1..Len(p[s]) : k[i] = k[j] => i = j
      OBVIOUS
    <3>4. QED
      BY <3>1, <3>2, <3>3 DEF Within
  <2>2. CASE s # h
    <3>1. p[s] = q[s]
      BY <1>2, <2>2
    <3>2. QED
      BY <3>1, SameQueue
  <2>3. QED
    BY <2>1, <2>2
<1>6. ASSUME Distinct(q), NEW s \in Session, NEW i \in 1..Len(p[s]), p[s][i] = Head(q[h])
      PROVE  FALSE
  <2>1. CASE s = h
    BY <1>1, <1>3, <1>4, <1>6, <2>1 DEF Distinct
  <2>2. CASE s # h
    BY <1>1, <1>2, <1>4, <1>6, <2>2 DEF Distinct
  <2>3. QED
    BY <2>1, <2>2
<1>7. QED
  BY <1>5, <1>6

\* the streams once t has written its question
Queues(t) == [stream EXCEPT ![hold[t]] = Asked(t)]

LEMMA QueuesAsked ==
    ASSUME CountersOpen, AnswerInv, NEW t \in Tasks, pc[t] = "turn", hold[t] \in Session
    PROVE  /\ Queues(t) \in [Session -> Seq(Turn)]
           /\ Queues(t)[hold[t]] = Asked(t) /\ Asked(t) # <<>>
           /\ Distinct(Queues(t))
           /\ Untaken(Queues(t), answer)
           /\ \A u \in Tasks, a \in Attempt : Upcoming(u, a) /\ <<u, a>> # <<t, attempt[t]>> =>
                 \A s \in Session : \A i \in 1..Len(Queues(t)[s]) : Queues(t)[s][i] # <<u, a>>
<1> DEFINE h == hold[t]
           x == <<t, attempt[t]>>
           Q == Queues(t)
<1>1. /\ stream[h] \in Seq(Turn) /\ x \in Turn
      /\ Asked(t) \in Seq(Turn) /\ Asked(t) # <<>>
      /\ Asked(t) = Append(stream[h], x)
  BY AskedType DEF CountersOpen, Asked
<1>2. /\ Len(Asked(t)) = Len(stream[h]) + 1 /\ Len(stream[h]) \in Nat
      /\ Asked(t)[Len(stream[h]) + 1] = x
      /\ \A i \in 1..Len(stream[h]) : Asked(t)[i] = stream[h][i]
  BY <1>1, AppendProperties, LenProperties
<1>3. /\ Q \in [Session -> Seq(Turn)]
      /\ Q[h] = Asked(t)
      /\ \A s \in Session \ {h} : Q[s] = stream[s]
  BY <1>1 DEF Queues, CountersOpen
<1>4. \A s \in Session : \A i \in 1..Len(Q[s]) :
         \/ i \in 1..Len(stream[s]) /\ Q[s][i] = stream[s][i]
         \/ s = h /\ i = Len(stream[h]) + 1 /\ Q[s][i] = x
  <2> SUFFICES ASSUME NEW s \in Session, NEW i \in 1..Len(Q[s])
               PROVE  \/ i \in 1..Len(stream[s]) /\ Q[s][i] = stream[s][i]
                      \/ s = h /\ i = Len(stream[h]) + 1 /\ Q[s][i] = x
    OBVIOUS
  <2>1. CASE s = h
    BY <1>2, <1>3, <2>1
  <2>2. CASE s # h
    BY <1>3, <2>2
  <2>3. QED
    BY <2>1, <2>2
<1>5. Upcoming(t, attempt[t]) /\ attempt[t] \in Attempt
  BY DEF Upcoming, CountersOpen, Attempt
<1>6. /\ \A s \in Session : \A i \in 1..Len(stream[s]) : stream[s][i] # x
      /\ \A u \in Tasks : answer[u] # x
  BY <1>5 DEF AnswerInv, Unasked
<1>7. Distinct(Q)
  <2> SUFFICES ASSUME NEW r \in Session, NEW s \in Session,
                      NEW i \in 1..Len(Q[r]), NEW j \in 1..Len(Q[s]), Q[r][i] = Q[s][j]
               PROVE  r = s /\ i = j
    BY DEF Distinct
  <2>1. CASE i \in 1..Len(stream[r]) /\ Q[r][i] = stream[r][i]
    <3>1. j \in 1..Len(stream[s]) /\ Q[s][j] = stream[s][j]
      BY <1>4, <1>6, <2>1
    <3>2. stream[r][i] = stream[s][j]
      BY <2>1, <3>1
    <3>3. QED
      BY <2>1, <3>1, <3>2 DEF AnswerInv, Distinct
  <2>2. CASE r = h /\ i = Len(stream[h]) + 1 /\ Q[r][i] = x
    <3>1. s = h /\ j = Len(stream[h]) + 1
      BY <1>4, <1>6, <2>2
    <3>2. QED
      BY <2>2, <3>1
  <2>3. QED
    BY <1>4, <2>1, <2>2
<1>8. Untaken(Q, answer)
  BY <1>4, <1>6 DEF AnswerInv, Untaken
<1>9. ASSUME NEW u \in Tasks, NEW a \in Attempt, Upcoming(u, a), <<u, a>> # x,
             NEW s \in Session, NEW i \in 1..Len(Q[s])
      PROVE  Q[s][i] # <<u, a>>
  BY <1>4, <1>9 DEF AnswerInv, Unasked
<1>10. QED
  BY <1>1, <1>3, <1>7, <1>8, <1>9

\* A turn that ends without an answer: its question is left, is read, or goes with the
\* session.
LEMMA AnswerLost ==
    ASSUME CountersOpen, AnswerInv, NEW t \in Tasks, pc[t] = "turn", hold[t] \in Session,
           stream' \in {Queues(t), [stream EXCEPT ![hold[t]] = Tail(Asked(t))],
                        [stream EXCEPT ![hold[t]] = <<>>]},
           answer' = answer, attempt' = attempt,
           pc'[t] \in {"backoff", "raised"}, \A u \in Tasks \ {t} : pc'[u] = pc[u]
    PROVE  AnswerInv'
<1>0. /\ Queues(t) \in [Session -> Seq(Turn)]
      /\ Queues(t)[hold[t]] = Asked(t) /\ Asked(t) # <<>>
      /\ Distinct(Queues(t))
      /\ Untaken(Queues(t), answer)
  BY QueuesAsked
<1>1. \A u \in Tasks, a \in Attempt :
         Upcoming(u, a)' => Upcoming(u, a) /\ <<u, a>> # <<t, attempt[t]>>
  BY DEF Upcoming, CountersOpen, Attempt
<1>2. \A u \in Tasks, a \in Attempt : Upcoming(u, a)' =>
         /\ \A s \in Session : \A i \in 1..Len(Queues(t)[s]) : Queues(t)[s][i] # <<u, a>>
         /\ \A v \in Tasks : answer[v] # <<u, a>>
  BY <1>1, QueuesAsked DEF AnswerInv, Unasked
<1>3. Part(stream', Queues(t))
  <2>1. CASE stream' = Queues(t)
    BY <2>1, PartSelf
  <2>2. CASE stream' = [stream EXCEPT ![hold[t]] = Tail(Asked(t))]
    <3>1. stream' = [Queues(t) EXCEPT ![hold[t]] = Tail(Queues(t)[hold[t]])]
      BY <1>0, <2>2 DEF Queues, CountersOpen
    <3>2. QED
      BY <1>0, <3>1, PartTail
  <2>3. CASE stream' = [stream EXCEPT ![hold[t]] = <<>>]
    <3> SUFFICES ASSUME NEW s \in Session PROVE Within(stream'[s], Queues(t)[s])
      BY DEF Part
    <3>1. CASE s = hold[t]
      <4>1. stream'[s] = <<>>
        BY <2>3, <3>1 DEF CountersOpen
      <4>2. 1..Len(stream'[s]) = {}
        BY <4>1
      <4>3. [i \in {} |-> 1] \in [1..Len(stream'[s]) -> 1..Len(Queues(t)[s])]
        BY <4>2
      <4>4. QED
        BY <4>2, <4>3 DEF Within
    <3>2. CASE s # hold[t]
      <4>1. stream'[s] = Queues(t)[s]
        BY <2>3, <3>2 DEF Queues, CountersOpen
      <4>2. QED
        BY <4>1, SameQueue
    <3>3. QED
      BY <3>1, <3>2
  <2>4. QED
    BY <2>1, <2>2, <2>3
<1>4. \A s \in Session : \A i \in 1..Len(stream'[s]) :
         \E j \in 1..Len(Queues(t)[s]) : stream'[s][i] = Queues(t)[s][j]
  BY <1>3 DEF Part, Within
<1>5. Distinct(stream') /\ Untaken(stream', answer)
  BY <1>0, <1>3, PartKeeps
<1>6. Unasked(stream, answer)'
  BY <1>2, <1>4 DEF Unasked
<1>7. Distinct(stream)' /\ Untaken(stream, answer)' /\ AnswerDeliveredOnce'
  BY <1>5 DEF Distinct, Untaken, AnswerInv, AnswerDeliveredOnce
<1>8. QED
  BY <1>6, <1>7 DEF AnswerInv

\* A turn that ends with an answer: the one the session owed first.
LEMMA AnswerGiven ==
    ASSUME CountersOpen, AnswerInv, NEW t \in Tasks, pc[t] = "turn", hold[t] \in Session,
           Answered(t)
    PROVE  AnswerInv'
<1>0. /\ Queues(t) \in [Session -> Seq(Turn)]
      /\ Queues(t)[hold[t]] = Asked(t) /\ Asked(t) # <<>>
      /\ Distinct(Queues(t))
      /\ Untaken(Queues(t), answer)
  BY QueuesAsked
<1>1. /\ stream' = [Queues(t) EXCEPT ![hold[t]] = Tail(Queues(t)[hold[t]])]
      /\ answer'[t] = Head(Queues(t)[hold[t]])
      /\ \A u \in Tasks \ {t} : answer'[u] = answer[u] /\ pc'[u] = pc[u]
                                /\ attempt'[u] = attempt[u]
      /\ pc'[t] = "escalate"
  BY <1>0 DEF Answered, Queues, CountersOpen
<1>2. /\ Part(stream', Queues(t))
      /\ \A s \in Session : \A i \in 1..Len(stream'[s]) : stream'[s][i] # answer'[t]
  <2>1. Queues(t)[hold[t]] # <<>>
    BY <1>0
  <2>2. /\ Part(stream', Queues(t))
        /\ \A s \in Session : \A i \in 1..Len(stream'[s]) :
             stream'[s][i] # Head(Queues(t)[hold[t]])
    <3>1. stream' = [Queues(t) EXCEPT ![hold[t]] = Tail(Queues(t)[hold[t]])]
      BY <1>1
    <3>2. Queues(t) \in [Session -> Seq(Turn)] /\ Distinct(Queues(t))
      BY <1>0
    <3>3. QED
      BY <2>1, <3>1, <3>2, PartTail
  <2>3. QED
    BY <1>1, <2>2
<1>3. 1 \in 1..Len(Queues(t)[hold[t]]) /\ answer'[t] = Queues(t)[hold[t]][1]
  <2>1. Asked(t) \in Seq(Turn)
    BY <1>0
  <2>2. Len(Asked(t)) \in Nat \ {0} /\ Head(Asked(t)) = Asked(t)[1]
    BY <1>0, <2>1, EmptySeq
  <2>3. QED
    BY <1>0, <1>1, <2>2
<1>4. \A u \in Tasks, a \in Attempt :
         Upcoming(u, a)' => Upcoming(u, a) /\ <<u, a>> # <<t, attempt[t]>>
  BY <1>1 DEF Upcoming
<1>5. \A u \in Tasks, a \in Attempt : Upcoming(u, a)' =>
         /\ \A s \in Session : \A i \in 1..Len(Queues(t)[s]) : Queues(t)[s][i] # <<u, a>>
         /\ \A v \in Tasks : answer[v] # <<u, a>>
  BY <1>4, QueuesAsked DEF AnswerInv, Unasked
<1>6. \A s \in Session : \A i \in 1..Len(stream'[s]) :
         \E j \in 1..Len(Queues(t)[s]) : stream'[s][i] = Queues(t)[s][j]
  BY <1>2 DEF Part, Within
<1>7. Distinct(stream') /\ Untaken(stream', answer)
  BY <1>0, <1>2, PartKeeps
<1>8. Untaken(stream', answer')
  <2> SUFFICES ASSUME NEW u \in Tasks, NEW s \in Session, NEW i \in 1..Len(stream'[s])
               PROVE  stream'[s][i] # answer'[u]
    BY DEF Untaken
  <2>1. CASE u = t
    BY <1>2, <2>1
  <2>2. CASE u # t
    <3>1. answer'[u] = answer[u]
      BY <1>1, <2>2
    <3>2. stream'[s][i] # answer[u]
      BY <1>7 DEF Untaken
    <3>3. QED
      BY <3>1, <3>2
  <2>3. QED
    BY <2>1, <2>2
<1>9. Unasked(stream, answer)'
  <2> SUFFICES ASSUME NEW u \in Tasks, NEW a \in Attempt, Upcoming(u, a)'
               PROVE  /\ \A s \in Session : \A i \in 1..Len(stream'[s]) : stream'[s][i] # <<u, a>>
                      /\ \A v \in Tasks : answer'[v] # <<u, a>>
    BY DEF Unasked
  <2>1. ASSUME NEW s \in Session, NEW i \in 1..Len(stream'[s])
        PROVE  stream'[s][i] # <<u, a>>
    <3>1. PICK j \in 1..Len(Queues(t)[s]) : stream'[s][i] = Queues(t)[s][j]
      BY <1>6
    <3>2. Queues(t)[s][j] # <<u, a>>
      BY <1>5
    <3>3. QED
      BY <3>1, <3>2
  <2>2. \A v \in Tasks \ {t} : answer'[v] # <<u, a>>
    BY <1>1, <1>5
  <2>3. answer'[t] # <<u, a>>
    BY <1>3, <1>5
  <2>4. QED
    BY <2>1, <2>2, <2>3
<1>10. AnswerDeliveredOnce'
  <2>1. \A u \in Tasks \ {t} : answer'[u] # answer'[t]
    BY <1>0, <1>1, <1>3 DEF Untaken
  <2>2. QED
    BY <1>1, <2>1 DEF AnswerInv, AnswerDeliveredOnce
<1>11. Distinct(stream)' /\ Untaken(stream, answer)'
  BY <1>7, <1>8 DEF Distinct, Untaken
<1>12. QED
  BY <1>9, <1>10, <1>11 DEF AnswerInv

\* Steps without a question and without an answer.
LEMMA AnswerKept ==
    ASSUME CountersOpen, AnswerInv, stream' = stream,
           \A u \in Tasks : answer'[u] \in {answer[u], None},
           \A u \in Tasks, a \in Attempt : Upcoming(u, a)' => Upcoming(u, a)
    PROVE  AnswerInv'
<1>1. \A u \in Tasks, a \in Attempt : <<u, a>> \in Turn
  BY DEF Turn
<1>2. None \notin Turn
  BY NoneIsNone DEF Turn, Session
<1>3. \A s \in Session : \A i \in 1..Len(stream[s]) : stream[s][i] \in Turn
  BY ElementOfSeq DEF CountersOpen
<1>4. Distinct(stream)' /\ AnswerDeliveredOnce'
  BY DEF AnswerInv, Distinct, AnswerDeliveredOnce
<1>5. Untaken(stream, answer)'
  BY <1>2, <1>3 DEF AnswerInv, Untaken
<1>6. Unasked(stream, answer)'
  BY <1>1, <1>2 DEF AnswerInv, Unasked
<1>7. QED
  BY <1>4, <1>5, <1>6 DEF AnswerInv

LEMMA AnswerResearcher ==
    ASSUME CountersOpen, TaskInv, AnswerInv, NEW t \in Tasks, Researcher(t)
    PROVE  AnswerInv'
<1>0. /\ pc[t] = "turn" => hold[t] \in Session
      /\ \A u \in Tasks, a \in Attempt : attempt[u] \in Nat /\ a \in Nat
  BY PcTypes DEF CountersOpen, TaskInv, Attempt
<1>1. CASE TakeSlot(t)
  BY <1>0, <1>1, AnswerKept DEF TakeSlot, Upcoming, CountersOpen, pool
<1>2. CASE Reuse(t)
  BY <1>0, <1>2, AnswerKept DEF Reuse, Upcoming, CountersOpen
<1>3. CASE Open(t)
  BY <1>0, <1>3, AnswerKept DEF Open, Upcoming, CountersOpen
<1>4. CASE Connected(t)
  BY <1>0, <1>4, AnswerKept DEF Connected, Upcoming, CountersOpen
<1>5. CASE ConnectFails(t)
  <2>1. /\ pc[t] = "connect" /\ attempt' = attempt /\ stream' = stream /\ answer' = answer
        /\ pc'[t] \in {"backoff", "raised"} /\ \A u \in Tasks \ {t} : pc'[u] = pc[u]
    BY <1>5, RetryTypes DEF ConnectFails
  <2>2. \A u \in Tasks, a \in Attempt : Upcoming(u, a)' => Upcoming(u, a)
    BY <1>0, <2>1 DEF Upcoming
  <2>3. QED
    BY <2>1, <2>2, AnswerKept
<1>6. CASE WakeUp(t)
  <2>1. /\ pc[t] = "backoff" /\ pc'[t] = "permit" /\ attempt'[t] = attempt[t] + 1
        /\ \A u \in Tasks \ {t} : pc'[u] = pc[u] /\ attempt'[u] = attempt[u]
        /\ stream' = stream /\ answer' = answer
    BY <1>6 DEF WakeUp, CountersOpen, pool
  <2>2. ASSUME NEW u \in Tasks, NEW a \in Attempt, Upcoming(u, a)'
        PROVE  Upcoming(u, a)
    <3>1. CASE u = t
      BY <1>0, <2>1, <2>2, <3>1 DEF Upcoming
    <3>2. CASE u # t
      BY <2>1, <2>2, <3>2 DEF Upcoming
    <3>3. QED
      BY <3>1, <3>2
  <2>3. QED
    BY <2>1, <2>2, AnswerKept
<1>7. CASE Deliver(t) \/ EscalationRaises(t)
  <2>1. /\ pc'[t] \in {"delivered", "raised"} /\ attempt' = attempt /\ stream' = stream
        /\ \A u \in Tasks \ {t} : pc'[u] = pc[u]
        /\ \A u \in Tasks : answer'[u] \in {answer[u], None}
    BY <1>7 DEF Deliver, EscalationRaises, CountersOpen, pool
  <2>2. \A u \in Tasks, a \in Attempt : Upcoming(u, a)' => Upcoming(u, a)
    BY <2>1 DEF Upcoming
  <2>3. QED
    BY <2>1, <2>2, AnswerKept
<1>8. CASE Answered(t)
  BY <1>0, <1>8, AnswerGiven DEF Answered
<1>9. CASE NoOutput(t) \/ TimesOut(t) \/ TurnFails(t)
  <2>1. /\ pc[t] = "turn" /\ RetryOrRaise(t) /\ answer' = answer /\ attempt' = attempt
        /\ stream' \in {Queues(t), [stream EXCEPT ![hold[t]] = Tail(Asked(t))],
                        [stream EXCEPT ![hold[t]] = <<>>]}
    BY <1>9 DEF NoOutput, TimesOut, TurnFails, Queues
  <2>2. QED
    BY <1>0, <2>1, RetryTypes, AnswerLost
<1> QED
  BY <1>1, <1>2, <1>3, <1>4, <1>5, <1>6, <1>7, <1>8, <1>9 DEF Researcher

LEMMA AnswerClose == CountersOpen /\ AnswerInv /\ CloseAll => AnswerInv'
<1> SUFFICES ASSUME CountersOpen, AnswerInv, CloseAll PROVE AnswerInv'
  OBVIOUS
<1>1. \A s \in Session : stream'[s] = stream[s] \/ Len(stream'[s]) = 0
  BY EmptySeq DEF CloseAll
<1>2. \A s \in Session : \A i \in 1..Len(stream'[s]) :
         i \in 1..Len(stream[s]) /\ stream'[s][i] = stream[s][i]
  BY <1>1
<1>3. \A u \in Tasks, a \in Attempt : ~Upcoming(u, a)'
  BY PcTypes DEF CloseAll, Upcoming
<1>4. answer' = answer
  BY DEF CloseAll
<1>5. Distinct(stream)'
  BY <1>2 DEF AnswerInv, Distinct
<1>6. Untaken(stream, answer)'
  BY <1>2, <1>4 DEF AnswerInv, Untaken
<1>7. Unasked(stream, answer)' /\ AnswerDeliveredOnce'
  BY <1>3, <1>4 DEF AnswerInv, Unasked, AnswerDeliveredOnce
<1>8. QED
  BY <1>5, <1>6, <1>7 DEF AnswerInv

LEMMA AnswerStart == Init => AnswerInv
<1> SUFFICES ASSUME Init PROVE AnswerInv
  OBVIOUS
<1>1. \A s \in Session : 1..Len(stream[s]) = {}
  <2>1. \A s \in Session : Len(stream[s]) = 0
    BY EmptySeq DEF Init
  <2>2. QED
    BY <2>1
<1>2. \A t \in Tasks : answer[t] = None
  BY DEF Init
<1>3. \A t \in Tasks, a \in Attempt : <<t, a>> # None
  BY NoneIsNone DEF Session
<1>4. QED
  BY <1>1, <1>2, <1>3 DEF AnswerInv, Distinct, Untaken, Unasked, AnswerDeliveredOnce

LEMMA AnswerStep == PoolInv /\ AnswerInv /\ [Next]_vars => AnswerInv'
<1> SUFFICES ASSUME CountersOpen, TaskInv, AnswerInv, [Next]_vars PROVE AnswerInv'
  BY DEF PoolInv
<1>1. UNCHANGED <<task, pool>> => AnswerInv'
  BY DEF AnswerInv, Distinct, Untaken, Unasked, Upcoming, AnswerDeliveredOnce, task, pool
<1>2. ASSUME NEW t \in Tasks, Critique(t) PROVE AnswerInv'
  BY <1>1, <1>2 DEF Critique, CritiqueAnswered, CritiqueRetried, CritiqueRaises
<1>3. CASE Return \/ UNCHANGED vars
  BY <1>1, <1>3 DEF Return, vars
<1> QED
  BY <1>2, <1>3, AnswerResearcher, AnswerClose DEF Next, Returned

\* Whatever times out, no answer is given to two researchers.
THEOREM AnswersUnique == Spec => []AnswerDeliveredOnce
<1>1. AnswerInv => AnswerDeliveredOnce
  BY DEF AnswerInv
<1>2. QED
  BY PoolInvStart, PoolInvStep, AnswerStart, AnswerStep, <1>1, PTL DEF Spec

-----------------------------------------------------------------------------
(* The promise of the fan-out.                                              *)

\* The critique goes through the delivered tasks in their order: what is handled comes
\* before what is not, and the bundles list part of what is handled, in its order.
OrderInv ==
    /\ phase = "gather" => handled = {} /\ bundles = <<>>
    /\ handled \subseteq Delivered
    /\ \A t \in handled, u \in Delivered \ handled : t < u
    /\ \A j \in 1..Len(bundles) : bundles[j] \in handled
    /\ \A j, k \in 1..Len(bundles) : j < k => bundles[j] < bundles[k]
    /\ phase = "returned" => handled = Delivered

\* What a step of a task does to the rest.
LEMMA ResearcherMoves ==
    ASSUME CountersOpen, NEW t \in Tasks, Researcher(t)
    PROVE  /\ pc[t] \notin Ended
           /\ \A u \in Tasks \ {t} : pc'[u] = pc[u]
           /\ UNCHANGED caller
<1>1. CASE ConnectFails(t) \/ NoOutput(t) \/ TimesOut(t) \/ TurnFails(t)
  <2>1. RetryOrRaise(t) /\ pc[t] \in WithPermit /\ UNCHANGED caller
    BY <1>1, PcTypes DEF ConnectFails, NoOutput, TimesOut, TurnFails
  <2>2. QED
    BY <2>1, RetryTypes, PcTypes
<1>2. CASE ~(ConnectFails(t) \/ NoOutput(t) \/ TimesOut(t) \/ TurnFails(t))
  <2>1. /\ pc[t] \in {"slot", "permit", "connect", "turn", "backoff", "escalate"}
        /\ \E x \in TaskPc : pc' = [pc EXCEPT ![t] = x]
        /\ UNCHANGED caller
    BY <1>2, PcTypes
       DEF Researcher, TakeSlot, Reuse, Open, Connected, Answered, WakeUp, Deliver,
           EscalationRaises
  <2>2. QED
    BY <2>1, PcTypes DEF CountersOpen
<1> QED
  BY <1>1, <1>2

LEMMA OrderStart == Init => OrderInv
<1> SUFFICES ASSUME Init PROVE OrderInv
  OBVIOUS
<1>1. 1..Len(bundles) = {} /\ handled = {} /\ bundles = <<>> /\ phase = "gather"
  BY EmptySeq DEF Init
<1>2. QED
  BY <1>1 DEF OrderInv

LEMMA OrderResearcher ==
    ASSUME CountersOpen, TaskInv, OrderInv, NEW t \in Tasks, Researcher(t)
    PROVE  OrderInv'
<1>1. pc[t] \notin Ended /\ UNCHANGED caller
  BY ResearcherMoves
<1>2. phase = "gather" /\ phase' = "gather"
  BY <1>1 DEF TaskInv, caller
<1>3. handled' = {} /\ bundles' = <<>> /\ handled = {} /\ bundles = <<>>
  BY <1>1, <1>2 DEF OrderInv, caller
<1>4. 1..Len(bundles') = {}
  BY <1>3, EmptySeq
<1>5. QED
  BY <1>2, <1>3, <1>4 DEF OrderInv

\* The bundle under review comes after the ones already returned.
LEMMA BundleAdded ==
    ASSUME CountersOpen, OrderInv, NEW t \in Tasks, Current(t), bundles' = Append(bundles, t)
    PROVE  /\ Len(bundles') = Len(bundles) + 1 /\ Len(bundles) \in Nat
           /\ bundles'[Len(bundles) + 1] = t
           /\ \A j \in 1..Len(bundles) : bundles'[j] = bundles[j] /\ bundles[j] < t
BY AppendProperties, LenProperties DEF CountersOpen, OrderInv, Current

LEMMA OrderCritique ==
    ASSUME CountersOpen, OrderInv, NEW t \in Tasks, Critique(t)
    PROVE  OrderInv'
<1>0. /\ Current(t) /\ phase = "critique" /\ phase' = phase /\ pc' = pc
      /\ t \in Delivered \ handled /\ \A u \in Delivered \ handled : t <= u
      /\ Delivered' = Delivered /\ Delivered \subseteq Nat
  BY DEF Critique, CritiqueAnswered, CritiqueRetried, CritiqueRaises, Current, task,
         Delivered, Tasks
<1>1. CASE UNCHANGED <<handled, bundles>>
  BY <1>0, <1>1 DEF OrderInv
<1>2. CASE handled' = handled \cup {t}
  <2>1. handled' \subseteq Delivered'
    BY <1>0, <1>2 DEF OrderInv
  <2>2. \A v \in handled', u \in Delivered' \ handled' : v < u
    <3>1. ASSUME NEW u \in Delivered \ (handled \cup {t}) PROVE t < u
      BY <1>0, <3>1
    <3>2. QED
      BY <1>0, <1>2, <3>1 DEF OrderInv
  <2>3. CASE bundles' = bundles
    BY <1>0, <1>2, <2>1, <2>2, <2>3 DEF OrderInv
  <2>4. CASE bundles' = Append(bundles, t)
    <3>1. /\ Len(bundles') = Len(bundles) + 1 /\ Len(bundles) \in Nat
          /\ bundles'[Len(bundles) + 1] = t
          /\ \A j \in 1..Len(bundles) : bundles'[j] = bundles[j] /\ bundles[j] < t
      BY <1>0, <2>4, BundleAdded
    <3>2. \A j \in 1..Len(bundles') : bundles'[j] \in handled'
      BY <1>2, <3>1 DEF OrderInv
    <3>3. \A j, k \in 1..Len(bundles') : j < k => bundles'[j] < bundles'[k]
      <4> SUFFICES ASSUME NEW j \in 1..Len(bundles'), NEW k \in 1..Len(bundles'), j < k
                   PROVE  bundles'[j] < bundles'[k]
        OBVIOUS
      <4>1. j \in 1..Len(bundles)
        BY <3>1
      <4>2. CASE k \in 1..Len(bundles)
        BY <3>1, <4>1, <4>2 DEF OrderInv
      <4>3. CASE k = Len(bundles) + 1
        BY <3>1, <4>1, <4>3
      <4> QED
        BY <3>1, <4>2, <4>3
    <3> QED
      BY <1>0, <2>1, <2>2, <3>2, <3>3 DEF OrderInv
  <2> QED
    BY <1>2, <2>3, <2>4 DEF Critique, CritiqueAnswered, CritiqueRetried, CritiqueRaises
<1> QED
  BY <1>1, <1>2 DEF Critique, CritiqueAnswered, CritiqueRetried, CritiqueRaises

LEMMA OrderStep == CountersOpen /\ TaskInv /\ OrderInv /\ [Next]_vars => OrderInv'
<1> SUFFICES ASSUME CountersOpen, TaskInv, OrderInv, [Next]_vars PROVE OrderInv'
  OBVIOUS
<1>1. CASE CloseAll
  <2>1. phase = "gather" /\ phase' = "critique" /\ UNCHANGED <<handled, bundles, pc>>
    BY <1>1 DEF CloseAll
  <2>2. QED
    BY <2>1 DEF OrderInv, Delivered
<1>2. CASE Return
  BY <1>2 DEF Return, OrderInv, Delivered, task
<1>3. CASE UNCHANGED vars
  BY <1>3 DEF vars, caller, task, OrderInv, Delivered
<1> QED
  BY <1>1, <1>2, <1>3, OrderResearcher, OrderCritique DEF Next, Returned

\* The abstract outcome of a task, and the list returned.
IsBundle(t) == \E i \in 1..Len(bundles) : bundles[i] = t
Outcome == [t \in Tasks |->
              IF IsBundle(t) THEN "bundle"
              ELSE IF pc[t] = "raised" \/ t \in handled THEN "dropped"
              ELSE "pending"]
Result == IF phase = "returned" THEN <<bundles>> ELSE <<>>

LEMMA Mapped ==
    /\ F!Tasks = Tasks
    /\ F!vars = <<Outcome, Result>>
    /\ F!Init <=> Outcome = [t \in Tasks |-> "pending"] /\ Result = <<>>
BY DEF F!Tasks, F!vars, F!Init, Outcome, Result, IsBundle, Tasks

LEMMA InitMaps == Init => F!Init
<1> SUFFICES ASSUME Init PROVE F!Init
  OBVIOUS
<1>1. 1..Len(bundles) = {} /\ handled = {} /\ phase = "gather"
  BY EmptySeq DEF Init
<1>2. Outcome = [t \in Tasks |-> "pending"] /\ Result = <<>>
  BY <1>1 DEF Init, Outcome, Result, IsBundle
<1>3. QED
  BY <1>2, Mapped

\* A step that settles a task.
LEMMA Settles ==
    ASSUME NEW t \in Tasks, Outcome[t] = "pending", Outcome'[t] # "pending",
           \A u \in Tasks \ {t} : Outcome'[u] = Outcome[u], Result' = Result
    PROVE  F!Next
<1>1. Outcome'[t] \in {"bundle", "dropped"}
  BY DEF Outcome
<1>2. Outcome' = [Outcome EXCEPT ![t] = Outcome'[t]]
  BY DEF Outcome
<1>3. F!Settle(t)
  BY <1>1, <1>2 DEF F!Settle, Outcome, Result, IsBundle
<1>4. QED
  BY <1>3, Mapped DEF F!Next

\* A step the control loop does not see.
LEMMA Stutters ==
    ASSUME Result' = Result, \A u \in Tasks : Outcome'[u] = Outcome[u]
    PROVE  UNCHANGED F!vars
<1>1. Outcome' = Outcome
  BY DEF Outcome
<1>2. QED
  BY <1>1, Mapped DEF F!vars, Outcome, Result, IsBundle

LEMMA ResearcherMaps ==
    ASSUME CountersOpen, TaskInv, OrderInv, NEW t \in Tasks, Researcher(t)
    PROVE  F!Next \/ UNCHANGED F!vars
<1>1. /\ pc[t] \notin Ended
      /\ \A u \in Tasks \ {t} : pc'[u] = pc[u]
      /\ UNCHANGED <<phase, handled, bundles>>
  BY ResearcherMoves DEF caller
<1>2. phase = "gather" /\ handled = {} /\ bundles = <<>> /\ Result' = Result
  BY <1>1 DEF TaskInv, OrderInv, Result
<1>3. \A u \in Tasks : ~IsBundle(u) /\ ~IsBundle(u)' /\ u \notin handled /\ u \notin handled'
  BY <1>1, <1>2, EmptySeq DEF IsBundle
<1>4. \A u \in Tasks \ {t} : Outcome'[u] = Outcome[u]
  BY <1>1, <1>3 DEF Outcome
<1>5. Outcome[t] = "pending"
  BY <1>1, <1>3, PcTypes DEF Outcome
<1>6. CASE Outcome'[t] = "pending"
  BY <1>2, <1>4, <1>5, <1>6, Stutters
<1>7. CASE Outcome'[t] # "pending"
  BY <1>2, <1>4, <1>5, <1>7, Settles
<1>8. QED
  BY <1>6, <1>7

LEMMA CritiqueMaps ==
    ASSUME CountersOpen, TaskInv, OrderInv, NEW t \in Tasks, Critique(t)
    PROVE  F!Next \/ UNCHANGED F!vars
<1>0. /\ Current(t) /\ phase = "critique" /\ phase' = phase /\ pc' = pc
      /\ t \in Delivered \ handled
  BY DEF Critique, CritiqueAnswered, CritiqueRetried, CritiqueRaises, Current, task
<1>1. Result' = Result
  BY <1>0 DEF Result
<1>2. CASE UNCHANGED <<handled, bundles>>
  <2>1. \A u \in Tasks : Outcome'[u] = Outcome[u]
    BY <1>0, <1>2 DEF Outcome, IsBundle
  <2>2. QED
    BY <1>1, <2>1, Stutters
<1>3. CASE handled' = handled \cup {t} /\ bundles' \in {bundles, Append(bundles, t)}
  <2>1. \A u \in Tasks \ {t} : IsBundle(u)' <=> IsBundle(u)
    <3>1. CASE bundles' = bundles
      BY <3>1 DEF IsBundle
    <3>2. CASE bundles' = Append(bundles, t)
      <4>1. /\ Len(bundles') = Len(bundles) + 1 /\ Len(bundles) \in Nat
            /\ bundles'[Len(bundles) + 1] = t
            /\ \A j \in 1..Len(bundles) : bundles'[j] = bundles[j]
        BY <1>0, <3>2, BundleAdded
      <4>2. QED
        BY <4>1 DEF IsBundle
    <3> QED
      BY <1>3, <3>1, <3>2
  <2>2. \A u \in Tasks \ {t} : Outcome'[u] = Outcome[u]
    BY <1>0, <1>3, <2>1 DEF Outcome
  <2>3. Outcome[t] = "pending"
    BY <1>0 DEF OrderInv, Outcome, IsBundle, Delivered
  <2>4. Outcome'[t] # "pending"
    BY <1>3 DEF Outcome
  <2>5. QED
    BY <1>1, <2>2, <2>3, <2>4, Settles
<1> QED
  BY <1>2, <1>3 DEF Critique, CritiqueAnswered, CritiqueRetried, CritiqueRaises

LEMMA UpTo == ASSUME NEW n \in Nat PROVE IsFiniteSet(1..n) /\ Cardinality(1..n) = n
<1>1. 1 \in Int /\ n \in Int
  OBVIOUS
<1>2. IsFiniteSet(1..n) /\ Cardinality(1..n) = IF 1 > n THEN 0 ELSE n - 1 + 1
  BY <1>1, FS_Interval, Zenon
<1>3. QED
  BY <1>2

\* What is returned lists every bundle once, in the order of the selection.
LEMMA ListingMade ==
    ASSUME CountersOpen, OrderInv
    PROVE  bundles \in F!Listings({t \in Tasks : IsBundle(t)})
<1> DEFINE S == {t \in Tasks : IsBundle(t)}
           n == Len(bundles)
<1>1. n \in Nat /\ bundles \in [1..n -> S]
  <2>1. bundles \in Seq(Tasks)
    BY DEF CountersOpen
  <2>2. n \in Nat /\ bundles \in [1..n -> Tasks]
    BY <2>1, LenProperties
  <2>3. QED
    BY <2>2 DEF IsBundle
<1>2. \A j, k \in 1..n : j < k => bundles[j] < bundles[k]
  BY DEF OrderInv
<1>3. bundles \in Bijection(1..n, S)
  <2>1. \A j, k \in 1..n : bundles[j] = bundles[k] => j = k
    <3> SUFFICES ASSUME NEW j \in 1..n, NEW k \in 1..n, j # k PROVE bundles[j] # bundles[k]
      OBVIOUS
    <3>1. bundles[j] \in Nat /\ bundles[k] \in Nat
      BY <1>1 DEF Tasks
    <3>2. j < k \/ k < j
      BY <1>1
    <3>3. QED
      BY <1>2, <3>1, <3>2
  <2>2. \A t \in S : \E j \in 1..n : bundles[j] = t
    BY DEF IsBundle
  <2>3. QED
    BY <1>1, <2>1, <2>2 DEF Bijection, Injection, Surjection, IsInjective
<1>4. Cardinality(S) = n
  <2>1. ExistsBijection(1..n, S)
    BY <1>3 DEF ExistsBijection
  <2>2. IsFiniteSet(1..n) /\ Cardinality(1..n) = n
    BY <1>1, UpTo, Zenon
  <2>3. QED
    BY <2>1, <2>2, FS_Bijection
<1>5. F!Cardinality(S) = Cardinality(S)
  BY DEF F!Cardinality, Cardinality
<1>6. QED
  BY <1>1, <1>2, <1>4, <1>5 DEF F!Listings

LEMMA ReturnMaps ==
    ASSUME CountersOpen, TaskInv, OrderInv, Return
    PROVE  F!Next
<1>0. /\ phase = "critique" /\ phase' = "returned" /\ handled = Delivered
      /\ UNCHANGED <<pc, handled, bundles>>
  BY DEF Return, task
<1>1. Result = <<>> /\ Result' = <<bundles>>
  BY <1>0 DEF Result
<1>2. Outcome' = Outcome
  BY <1>0 DEF Outcome, IsBundle
<1>3. \A t \in Tasks : Outcome[t] # "pending"
  BY <1>0, PcTypes DEF TaskInv, Outcome, Delivered
<1>4. {t \in Tasks : IsBundle(t)} = {t \in Tasks : Outcome[t] = "bundle"}
  BY DEF Outcome
<1>5. \E s \in F!Listings({t \in Tasks : Outcome[t] = "bundle"}) : Result' = <<s>>
  BY <1>1, <1>4, ListingMade
<1>6. F!Return
  BY <1>1, <1>2, <1>3, <1>5, Mapped DEF F!Return, Outcome, Result, IsBundle
<1>7. QED
  BY <1>6 DEF F!Next

LEMMA StepMaps ==
    CountersOpen /\ TaskInv /\ OrderInv /\ [Next]_vars => [F!Next]_F!vars
<1> SUFFICES ASSUME CountersOpen, TaskInv, OrderInv, [Next]_vars
             PROVE  F!Next \/ UNCHANGED F!vars
  OBVIOUS
<1>1. CASE CloseAll
  <2>1. /\ phase = "gather" /\ phase' = "critique" /\ UNCHANGED <<pc, handled, bundles>>
    BY <1>1 DEF CloseAll
  <2>2. Result' = Result /\ \A u \in Tasks : Outcome'[u] = Outcome[u]
    BY <2>1 DEF Result, Outcome, IsBundle
  <2>3. QED
    BY <2>2, Stutters
<1>2. CASE UNCHANGED vars
  <2>1. UNCHANGED <<pc, phase, handled, bundles>>
    BY <1>2 DEF vars, task, caller
  <2>2. Result' = Result /\ \A u \in Tasks : Outcome'[u] = Outcome[u]
    BY <2>1 DEF Result, Outcome, IsBundle
  <2>3. QED
    BY <2>2, Stutters
<1> QED
  BY <1>1, <1>2, ResearcherMaps, CritiqueMaps, ReturnMaps DEF Next, Returned

\* Whatever fails, retries or times out, and in whatever order the researchers finish: the
\* fan-out settles every selected issue once and returns the bundles in the order of the
\* selection.
THEOREM KeepsPromise == Spec => DeliversInOrder
<1>1. PoolInv => CountersOpen /\ TaskInv
  BY DEF PoolInv
<1>2. Spec => []PoolInv
  BY PoolInvStart, PoolInvStep, PTL DEF Spec
<1>3. Spec => []OrderInv
  BY <1>1, <1>2, OrderStart, OrderStep, PTL DEF Spec
<1>4. QED
  BY <1>1, <1>2, <1>3, InitMaps, StepMaps, PTL DEF Spec, DeliversInOrder, F!Spec

-----------------------------------------------------------------------------
(* Progress: somebody can always move, and nobody can move for ever.        *)

LEMMA FirstTask ==
    ASSUME NEW S \in SUBSET Tasks, S # {}
    PROVE  \E t \in S : \A u \in S : t <= u
<1>1. S \in SUBSET Nat
  BY DEF Tasks
<1>2. PICK t \in S : \A u \in S : ~(<<u, t>> \in OpToRel(<, Nat))
  BY <1>1, NatLessThanWellFounded, WFMin
<1>3. \A u \in S : ~(u < t)
  BY <1>1, <1>2 DEF OpToRel
<1> QED
  BY <1>1, <1>3

LEMMA Unstuck ==
    ASSUME PoolInv, OrderInv
    PROVE  NobodyStuck
<1>0. CountersOpen /\ PermitsConserved
  BY DEF PoolInv
<1>1. ASSUME NEW v \in Tasks, pc[v] \notin Ended,
             \A t \in Tasks : /\ pc[t] \notin WithPermit \cup {"backoff", "escalate"}
                              /\ ~(pc[t] = "permit" /\ permits > 0)
                              /\ ~(pc[t] = "slot" /\ slots > 0)
      PROVE  FALSE
  <2>1. Holders = {}
    BY <1>1 DEF Holders
  <2>2. permits > 0
    BY <1>0, <2>1, FS_EmptySet, PoolAssumption DEF PermitsConserved, CountersOpen
  <2>3. \A t \in Tasks : pc[t] \in {"slot"} \cup Ended
    BY <1>0, <1>1, <2>2, PcTypes DEF CountersOpen
  <2>4. Running = {}
    BY <2>3 DEF Running
  <2>5. slots > 0
    BY <1>0, <2>4, FS_EmptySet, PoolAssumption DEF PermitsConserved, CountersOpen
  <2>6. pc[v] = "slot"
    BY <1>1, <2>3
  <2> QED
    BY <1>1, <2>5, <2>6
<1>2. ASSUME phase = "critique", handled # Delivered
      PROVE  \E t \in Tasks : Current(t)
  <2>1. Delivered \ handled \in SUBSET Tasks /\ Delivered \ handled # {}
    BY <1>2 DEF OrderInv, Delivered
  <2>2. PICK t \in Delivered \ handled : \A u \in Delivered \ handled : t <= u
    BY <2>1, FirstTask
  <2> QED
    BY <1>2, <2>1, <2>2 DEF Current
<1> QED
  BY <1>1, <1>2 DEF NobodyStuck

\* Whatever fails, some task has what it needs to go on.
THEOREM NeverStuck == Spec => []NobodyStuck
<1>1. PoolInv => CountersOpen /\ TaskInv
  BY DEF PoolInv
<1>2. Spec => []PoolInv
  BY PoolInvStart, PoolInvStep, PTL DEF Spec
<1>3. Spec => []OrderInv
  BY <1>1, <1>2, OrderStart, OrderStep, PTL DEF Spec
<1>4. QED
  BY <1>2, <1>3, Unstuck, PTL

LEMMA Stations ==
    /\ Station("slot") = 0 /\ Station("permit") = 1 /\ Station("connect") = 2
    /\ Station("turn") = 3 /\ Station("backoff") = 4
BY DEF Station

\* What a task that is neither at its documents nor at its end has before it.
LEMMA Positions ==
    ASSUME CountersOpen, NEW t \in Tasks
    PROVE  /\ pc[t] \in {"slot", "permit", "connect", "turn", "backoff"} =>
                /\ Position(t) = 4 * (attempt[t] - 1) + Station(pc[t])
                /\ Position(t) < Way - 1
           /\ pc[t] = "escalate" => Position(t) = Way - 1
           /\ pc[t] \in Ended => Position(t) = Way
           /\ Way \in Nat /\ attempt[t] \in 1..MaxAttempts /\ MaxAttempts \in Nat
<1>1. attempt[t] \in 1..MaxAttempts /\ MaxAttempts \in Nat
  BY PoolAssumption DEF CountersOpen, Attempt
<1>2. Way \in Nat /\ Way = 4 * MaxAttempts + 2
  BY <1>1 DEF Way
<1>3. ASSUME pc[t] \in {"slot", "permit", "connect", "turn", "backoff"}
      PROVE  /\ Position(t) = 4 * (attempt[t] - 1) + Station(pc[t])
             /\ Position(t) < Way - 1
  <2>1. Position(t) = 4 * (attempt[t] - 1) + Station(pc[t])
    BY <1>3 DEF Position, Ended
  <2>2. Station(pc[t]) \in 0..4
    BY <1>3, Stations
  <2> QED
    BY <1>1, <1>2, <2>1, <2>2
<1>4. pc[t] = "escalate" => Position(t) = Way - 1
  BY DEF Position, Ended
<1>5. pc[t] \in Ended => Position(t) = Way
  BY DEF Position
<1> QED
  BY <1>1, <1>2, <1>3, <1>4, <1>5

\* A step of one task, by where it was and where it is.
LEMMA Advances ==
    ASSUME CountersOpen, CountersOpen', NEW t \in Tasks,
           \/ pc[t] = "slot" /\ pc'[t] = "permit" /\ attempt'[t] = attempt[t]
           \/ pc[t] = "permit" /\ pc'[t] \in {"connect", "turn"} /\ attempt'[t] = attempt[t]
           \/ pc[t] = "connect" /\ pc'[t] = "turn" /\ attempt'[t] = attempt[t]
           \/ pc[t] \in {"connect", "turn"} /\ pc'[t] = "backoff" /\ attempt'[t] = attempt[t]
           \/ pc[t] = "backoff" /\ pc'[t] = "permit" /\ attempt'[t] = attempt[t] + 1
           \/ pc[t] = "turn" /\ pc'[t] = "escalate"
           \/ pc[t] \notin Ended /\ pc'[t] \in Ended
    PROVE  Position(t) < Position(t)' /\ Position(t)' <= Way
<1> DEFINE Q == Position(t)'
<1>1. /\ pc'[t] \in {"slot", "permit", "connect", "turn", "backoff"} =>
            /\ Q = 4 * (attempt'[t] - 1) + Station(pc'[t])
            /\ Q < Way - 1
      /\ pc'[t] = "escalate" => Q = Way - 1
      /\ pc'[t] \in Ended => Q = Way
      /\ attempt'[t] \in 1..MaxAttempts
  <2>1. /\ attempt' \in [Tasks -> Attempt] /\ MaxAttempts \in Nat
    BY PoolAssumption DEF CountersOpen
  <2>2. attempt'[t] \in 1..MaxAttempts /\ Way = 4 * MaxAttempts + 2
    BY <2>1 DEF Attempt, Way
  <2>3. ASSUME pc'[t] \in {"slot", "permit", "connect", "turn", "backoff"}
        PROVE  Q = 4 * (attempt'[t] - 1) + Station(pc'[t]) /\ Q < Way - 1
    <3>1. Q = 4 * (attempt'[t] - 1) + Station(pc'[t])
      BY <2>3 DEF Position, Ended, Station
    <3>2. Station(pc'[t]) \in 0..4
      BY <2>3, Stations
    <3> QED
      BY <2>1, <2>2, <3>1, <3>2
  <2>4. pc'[t] = "escalate" => Q = Way - 1
    BY DEF Position, Ended, Way
  <2>5. pc'[t] \in Ended => Q = Way
    BY DEF Position, Way
  <2> QED
    BY <2>2, <2>3, <2>4, <2>5
<1> HIDE DEF Q
<1>2. Position(t) < Q /\ Q <= Way
  <2>0. pc[t] \in TaskPc
    BY DEF CountersOpen
  <2>1. CASE pc'[t] \in Ended
    <3>1. pc[t] \notin Ended
      BY <2>1, PcTypes
    <3>2. pc[t] \in {"slot", "permit", "connect", "turn", "backoff", "escalate"}
      BY <2>0, <3>1, PcTypes
    <3>3. Way \in Nat /\ (Position(t) < Way - 1 \/ Position(t) = Way - 1)
      BY <3>2, Positions
    <3>4. attempt[t] \in 1..MaxAttempts /\ Position(t) \in Int
      BY <3>2, Positions, Stations DEF Position
    <3>5. Position(t) < Way
      BY <3>3, <3>4
    <3> QED
      BY <1>1, <2>1, <3>3, <3>5
  <2>2. CASE pc[t] = "turn" /\ pc'[t] = "escalate"
    BY <1>1, <2>2, Positions
  <2>3. CASE pc[t] = "backoff" /\ pc'[t] = "permit" /\ attempt'[t] = attempt[t] + 1
    BY <1>1, <2>3, Positions, Stations
  <2>4. CASE /\ attempt'[t] = attempt[t]
             /\ \/ pc[t] = "slot" /\ pc'[t] = "permit"
                \/ pc[t] = "permit" /\ pc'[t] \in {"connect", "turn"}
                \/ pc[t] = "connect" /\ pc'[t] = "turn"
                \/ pc[t] \in {"connect", "turn"} /\ pc'[t] = "backoff"
    BY <1>1, <2>4, Positions, Stations
  <2> QED
    BY <2>1, <2>2, <2>3, <2>4
<1> QED
  BY <1>2 DEF Q

LEMMA ResearcherAdvances ==
    ASSUME CountersOpen, TaskInv, NEW t \in Tasks, Researcher(t)
    PROVE  /\ Position(t) < Position(t)' /\ Position(t)' <= Way
           /\ \A u \in Tasks \ {t} : Position(u)' = Position(u)
           /\ CallerPosition' = CallerPosition
<1>0. CountersOpen'
  BY ResearcherTypes
<1>1. UNCHANGED caller /\ \A u \in Tasks \ {t} : pc'[u] = pc[u]
  BY ResearcherMoves
<1>2. \A u \in Tasks \ {t} : attempt'[u] = attempt[u]
  BY DEF Researcher, TakeSlot, Reuse, Open, Connected, ConnectFails, Answered, NoOutput,
         TimesOut, TurnFails, WakeUp, Deliver, EscalationRaises, CountersOpen
<1>3. \A u \in Tasks \ {t} : Position(u)' = Position(u)
  BY <1>1, <1>2 DEF Position, Way
<1>4. CallerPosition' = CallerPosition
  BY <1>1 DEF CallerPosition, Calls, caller
<1>5. \/ pc[t] = "slot" /\ pc'[t] = "permit" /\ attempt'[t] = attempt[t]
      \/ pc[t] = "permit" /\ pc'[t] \in {"connect", "turn"} /\ attempt'[t] = attempt[t]
      \/ pc[t] = "connect" /\ pc'[t] = "turn" /\ attempt'[t] = attempt[t]
      \/ pc[t] \in {"connect", "turn"} /\ pc'[t] = "backoff" /\ attempt'[t] = attempt[t]
      \/ pc[t] = "backoff" /\ pc'[t] = "permit" /\ attempt'[t] = attempt[t] + 1
      \/ pc[t] = "turn" /\ pc'[t] = "escalate"
      \/ pc[t] \notin Ended /\ pc'[t] \in Ended
  <2>1. CASE ConnectFails(t) \/ NoOutput(t) \/ TimesOut(t) \/ TurnFails(t)
    <3>1. RetryOrRaise(t) /\ pc[t] \in {"connect", "turn"} /\ attempt' = attempt
      BY <2>1 DEF ConnectFails, NoOutput, TimesOut, TurnFails
    <3>2. pc'[t] \in {"backoff", "raised"}
      BY <3>1, RetryTypes
    <3> QED
      BY <3>1, <3>2, PcTypes
  <2>2. CASE TakeSlot(t) \/ Reuse(t) \/ Open(t) \/ Connected(t)
    BY <2>2 DEF TakeSlot, Reuse, Open, Connected, CountersOpen
  <2>3. CASE Answered(t) \/ WakeUp(t)
    BY <2>3 DEF Answered, WakeUp, CountersOpen
  <2>4. CASE Deliver(t) \/ EscalationRaises(t)
    BY <2>4, PcTypes DEF Deliver, EscalationRaises, CountersOpen
  <2> QED
    BY <2>1, <2>2, <2>3, <2>4 DEF Researcher
<1>6. Position(t) < Position(t)' /\ Position(t)' <= Way
  BY <1>0, <1>5, Advances
<1> QED
  BY <1>3, <1>4, <1>6

\* The calls of one bundle more.
LEMMA CallsOfOneMore ==
    ASSUME NEW n \in Nat
    PROVE  /\ Calls(n) \in Nat
           /\ Calls(n + 1) = Calls(n) + 2 * OneShotAttempts
BY PoolAssumption DEF Calls

LEMMA CallsGrow ==
    ASSUME NEW m \in Nat, NEW n \in Nat, m <= n
    PROVE  Calls(m) <= Calls(n)
<1>1. PICK d \in Nat : n = m + d
  <2>1. n - m \in Nat /\ n = m + (n - m)
    OBVIOUS
  <2> QED
    BY <2>1
<1>2. Calls(m + d) = Calls(m) + Calls(d)
  BY PoolAssumption DEF Calls
<1> QED
  BY <1>1, <1>2, CallsOfOneMore

LEMMA CritiqueAdvances ==
    ASSUME CountersOpen, NEW t \in Tasks, Critique(t)
    PROVE  /\ CallerPosition < CallerPosition'
           /\ CallerPosition' <= 1 + Calls(NumTasks + 1)
           /\ \A u \in Tasks : Position(u)' = Position(u)
<1> DEFINE K == OneShotAttempts
           n == Cardinality(handled)
           At2(c, s, r) == 1 + Calls(c) + (IF s = "compress" THEN K ELSE 0) + r
<1>0. /\ phase = "critique" /\ phase' = "critique" /\ UNCHANGED <<pc, attempt>>
      /\ t \in Tasks \ handled
      /\ K \in Nat \ {0} /\ tries \in 0..(K - 1) /\ stage \in {"review", "compress"}
  BY PoolAssumption DEF Critique, CritiqueAnswered, CritiqueRetried, CritiqueRaises, Current,
     task, CountersOpen
<1>1. /\ n \in Nat /\ NumTasks \in Nat /\ n + 1 <= NumTasks
      /\ Cardinality(handled \cup {t}) = n + 1
  <2>1. handled \in SUBSET Tasks /\ handled \cup {t} \in SUBSET Tasks
    BY DEF CountersOpen
  <2>2. IsFiniteSet(handled) /\ n \in Nat
    BY <2>1, TasksFinite
  <2>3. Cardinality(handled \cup {t}) = n + 1
    BY <1>0, <2>2, FS_AddElement
  <2>4. NumTasks \in Nat /\ Cardinality(Tasks) = NumTasks
    BY PoolAssumption, FS_Interval DEF Tasks
  <2>5. Cardinality(handled \cup {t}) <= Cardinality(Tasks)
    BY <2>1, TasksFinite, FS_Subset
  <2> QED
    BY <2>2, <2>3, <2>4, <2>5
<1>2. /\ CallerPosition = At2(n, stage, tries)
      /\ CallerPosition' = At2(Cardinality(handled'), stage', tries')
  BY <1>0 DEF CallerPosition, Calls
<1>3. /\ Calls(n) \in Nat /\ Calls(n + 1) = Calls(n) + 2 * K
      /\ Calls(n + 1) <= Calls(NumTasks) /\ Calls(NumTasks) \in Nat
      /\ Calls(NumTasks + 1) = Calls(NumTasks) + 2 * K
  BY <1>1, CallsOfOneMore, CallsGrow
<1>4. \A u \in Tasks : Position(u)' = Position(u)
  BY <1>0 DEF Position, Way
<1>5. CASE handled' = handled /\ stage' = stage /\ tries' = tries + 1 /\ tries + 1 < K
  BY <1>0, <1>2, <1>3, <1>4, <1>5
<1>6. CASE handled' = handled /\ stage = "review" /\ stage' = "compress" /\ tries' = 0
  BY <1>0, <1>2, <1>3, <1>4, <1>6
<1>7. CASE handled' = handled \cup {t} /\ stage' = "review" /\ tries' = 0
  <2>0. Cardinality(handled') = n + 1
    BY <1>1, <1>7, Zenon
  <2>1. CallerPosition' = 1 + Calls(n) + 2 * K
    BY <1>0, <1>1, <1>2, <1>3, <1>7, <2>0
  <2>2. CallerPosition <= 1 + Calls(n) + K + (K - 1)
    BY <1>0, <1>2, <1>3
  <2>3. CallerPosition \in Nat
    BY <1>0, <1>2, <1>3
  <2> QED
    BY <1>0, <1>3, <1>4, <2>1, <2>2, <2>3
<1>8. \/ handled' = handled /\ stage' = stage /\ tries' = tries + 1 /\ tries + 1 < K
      \/ handled' = handled /\ stage = "review" /\ stage' = "compress" /\ tries' = 0
      \/ handled' = handled \cup {t} /\ stage' = "review" /\ tries' = 0
  BY <1>0 DEF Critique, CritiqueAnswered, CritiqueRetried, CritiqueRaises
<1> QED
  BY <1>5, <1>6, <1>7, <1>8

LEMMA CloseAdvances ==
    ASSUME CountersOpen, OrderInv, CloseAll
    PROVE  /\ CallerPosition < CallerPosition'
           /\ CallerPosition' <= 1 + Calls(NumTasks + 1)
           /\ \A u \in Tasks : Position(u)' = Position(u)
<1>1. /\ phase = "gather" /\ phase' = "critique" /\ UNCHANGED <<pc, stage, tries, handled>>
      /\ \A u \in Tasks : pc[u] \in Ended
      /\ handled = {}
  BY DEF CloseAll, OrderInv
<1>2. Cardinality(handled) = 0 /\ 0 \in Nat /\ NumTasks \in Nat /\ OneShotAttempts \in Nat \ {0}
  BY <1>1, FS_EmptySet, PoolAssumption
<1>3. /\ Calls(0) \in Nat /\ Calls(NumTasks) \in Nat /\ Calls(0) <= Calls(NumTasks)
      /\ Calls(NumTasks + 1) = Calls(NumTasks) + 2 * OneShotAttempts
  <2>1. 0 <= NumTasks
    BY <1>2
  <2>2. Calls(0) \in Nat
    BY CallsOfOneMore
  <2>3. Calls(NumTasks) \in Nat /\ Calls(NumTasks + 1) = Calls(NumTasks) + 2 * OneShotAttempts
    BY <1>2, CallsOfOneMore
  <2>4. Calls(0) <= Calls(NumTasks)
    BY <1>2, <2>1, CallsGrow
  <2> QED
    BY <2>2, <2>3, <2>4
<1>4. /\ CallerPosition = 0
      /\ CallerPosition' = 1 + Calls(0) + (IF stage = "compress" THEN OneShotAttempts ELSE 0)
                             + tries
  BY <1>1, <1>2 DEF CallerPosition, Calls
<1>5. \A u \in Tasks : Position(u)' = Position(u)
  BY <1>1 DEF Position, Way
<1>6. tries \in 0..(OneShotAttempts - 1)
  BY DEF CountersOpen
<1> QED
  BY <1>2, <1>3, <1>4, <1>5, <1>6

LEMMA ReturnAdvances ==
    ASSUME CountersOpen, Return
    PROVE  /\ CallerPosition < CallerPosition'
           /\ CallerPosition' <= 1 + Calls(NumTasks + 1)
           /\ \A u \in Tasks : Position(u)' = Position(u)
<1> DEFINE n == Cardinality(handled)
<1>1. phase = "critique" /\ phase' = "returned" /\ UNCHANGED <<pc, attempt>>
  BY DEF Return, task
<1>2. n \in Nat /\ NumTasks \in Nat /\ OneShotAttempts \in Nat \ {0} /\ n <= NumTasks
  <2>1. handled \in SUBSET Tasks
    BY DEF CountersOpen
  <2>2. Cardinality(Tasks) = NumTasks
    BY PoolAssumption, FS_Interval DEF Tasks
  <2> QED
    BY <2>1, <2>2, TasksFinite, FS_Subset, PoolAssumption
<1>3. /\ Calls(n) \in Nat /\ Calls(NumTasks) \in Nat /\ Calls(n) <= Calls(NumTasks)
      /\ Calls(NumTasks + 1) = Calls(NumTasks) + 2 * OneShotAttempts
  BY <1>2, CallsOfOneMore, CallsGrow
<1>4. /\ CallerPosition = 1 + Calls(n) + (IF stage = "compress" THEN OneShotAttempts ELSE 0)
                            + tries
      /\ CallerPosition' = 1 + Calls(NumTasks + 1)
  BY <1>1 DEF CallerPosition, Calls
<1>5. \A u \in Tasks : Position(u)' = Position(u)
  BY <1>1 DEF Position, Way
<1>6. tries \in 0..(OneShotAttempts - 1)
  BY DEF CountersOpen
<1> QED
  BY <1>2, <1>3, <1>4, <1>5, <1>6

\* A step of EveryStepAdvances.
Advance ==
    \/ /\ \E t \in Tasks : /\ Position(t) < Position(t)' /\ Position(t)' <= Way
                           /\ \A u \in Tasks \ {t} : Position(u)' = Position(u)
       /\ CallerPosition' = CallerPosition
    \/ /\ CallerPosition < CallerPosition'
       /\ CallerPosition' <= 1 + Calls(NumTasks + 1)
       /\ \A t \in Tasks : Position(t)' = Position(t)

LEMMA StepAdvances ==
    CountersOpen /\ TaskInv /\ OrderInv /\ [Next]_vars => [Advance]_vars
<1> SUFFICES ASSUME CountersOpen, TaskInv, OrderInv, Next
             PROVE  Advance \/ UNCHANGED vars
  OBVIOUS
<1>1. CASE \E t \in Tasks : Researcher(t)
  BY <1>1, ResearcherAdvances DEF Advance
<1>2. CASE \E t \in Tasks : Critique(t)
  BY <1>2, CritiqueAdvances DEF Advance
<1>3. CASE CloseAll
  BY <1>3, CloseAdvances DEF Advance
<1>4. CASE Return
  BY <1>4, ReturnAdvances DEF Advance
<1> QED
  BY <1>1, <1>2, <1>3, <1>4 DEF Next, Returned

\* However many attempts fail, on every level, a fan-out has only so many steps to take.
THEOREM StepsBounded == Spec => EveryStepAdvances
<1>1. PoolInv => CountersOpen /\ TaskInv
  BY DEF PoolInv
<1>2. Spec => []PoolInv
  BY PoolInvStart, PoolInvStep, PTL DEF Spec
<1>3. Spec => []OrderInv
  BY <1>1, <1>2, OrderStart, OrderStep, PTL DEF Spec
<1>4. Spec => [][Advance]_vars
  BY <1>1, <1>2, <1>3, StepAdvances, PTL DEF Spec
<1>5. QED
  BY <1>4 DEF EveryStepAdvances, Advance
==================================================================================
