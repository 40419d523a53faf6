---------------------------- MODULE IOLoopProofs ----------------------------
(***************************************************************************)
(* Proofs about IOLoop: no wakeup of the loop is lost, and the books that  *)
(* _Timer keeps about its timeouts agree, for any number of timers,        *)
(* threads and exceptions.                                                 *)
(***************************************************************************)
EXTENDS IOLoop, FiniteSetTheorems, SequenceTheorems, WellFoundedInduction, TLAPS

\* A callback runs in one of the two phases of process_timeouts, and only the
\* second has timeouts off the heap.
Phases ==
    /\ running # Nothing => pc \in {"callbacks", "timers"}
    /\ running \in Timers => pc = "timers"
    /\ ready # {} => pc = "timers"
    /\ batch # 0 => pc = "callbacks"
    /\ batch <= Len(callbacks)

\* A timeout that was created is on the heap, ready or running, never in two of
\* them, so that it is called and discounted once.
Visits ==
    /\ heap \cap ready = {}
    /\ running \in Timers => running \in created \ (heap \cup ready)

LoopInv == TypeOK /\ Phases /\ Visits /\ NoLostWakeup /\ TimeoutsAccounted

-----------------------------------------------------------------------------
\* A set of naturals has a least element: the delay that poll() waits exists.
LEMMA LeastOfNaturals ==
    ASSUME NEW T \in SUBSET Nat, T # {}
    PROVE  \E x \in T : \A y \in T : x <= y
<1>. DEFINE I == {0 .. x : x \in T}
            R == StrictSubsetOrdering(Nat)
<1>1. \A x \in T : IsFiniteSet(0 .. x) /\ 0 .. x \subseteq Nat
  BY FS_Interval
<1>2. I \subseteq FiniteSubsetsOf(Nat)
  BY <1>1 DEF FiniteSubsetsOf
<1>3. IsWellFoundedOn(R, FiniteSubsetsOf(Nat))
  BY FS_StrictSubsetOrderingWellFounded
<1>4. I # {}
  OBVIOUS
<1>. HIDE DEF I, R
<1>5. PICK i \in I : \A j \in I : <<j, i>> \notin R
  BY <1>2, <1>3, <1>4, WFMin
<1>. USE DEF I, R
<1>6. PICK x \in T : i = 0 .. x
  BY <1>5
<1>7. ASSUME NEW y \in T, y < x PROVE FALSE
  <2>1. x \in 0 .. x /\ x \notin 0 .. y
    BY <1>7
  <2>2. 0 .. y \subseteq 0 .. x /\ 0 .. y # 0 .. x
    BY <1>7, <2>1
  <2>3. 0 .. x \in SUBSET Nat /\ 0 .. y \in SUBSET Nat
    BY <1>1
  <2>4. <<0 .. y, 0 .. x>> \in R
    BY <2>2, <2>3 DEF StrictSubsetOrdering
  <2>5. 0 .. y \in I
    OBVIOUS
  <2>. QED  BY <1>5, <1>6, <2>4, <2>5
<1>. QED  BY <1>7

\* The wait is a number of time units, at most _MAX_POLL_TIMEOUT, and none when a
\* callback is queued.
LEMMA WaitBounds ==
    ASSUME TypeOK
    PROVE  MaxWait \in 0 .. MaxPoll /\ (callbacks # <<>> => MaxWait = 0)
<1>. DEFINE W == {MaxPoll} \cup {deadline[t] - now : t \in heap \ Due}
            least == CHOOSE w \in W : \A v \in W : w <= v
<1>1. \A t \in heap \ Due : deadline[t] - now \in Nat
  BY DEF TypeOK, Due
<1>2. W \in SUBSET Nat /\ W # {} /\ MaxPoll \in W
  BY <1>1, NumbersAssumption
<1>. HIDE DEF W
<1>3. \E w \in W : \A v \in W : w <= v
  BY <1>2, LeastOfNaturals
<1>4. least \in W /\ \A v \in W : least <= v
  BY <1>3
<1>. HIDE DEF least
<1>5. least \in 0 .. MaxPoll
  BY <1>2, <1>4, NumbersAssumption
<1>6. MaxWait = IF callbacks # <<>> THEN 0 ELSE IF Due # {} THEN 0 ELSE least
  BY DEF MaxWait, W, least
<1>. QED  BY <1>5, <1>6, NumbersAssumption

-----------------------------------------------------------------------------
\* The canceled timeouts that are stored can be counted.
LEMMA CanceledFinite ==
    ASSUME TypeOK
    PROVE  /\ IsFiniteSet(heap) /\ IsFiniteSet(ready) /\ IsFiniteSet(Canceled)
           /\ Cardinality(Canceled) \in Nat
<1>1. heap \in SUBSET Timers /\ ready \in SUBSET Timers /\ Canceled \in SUBSET Timers
  BY DEF TypeOK, Canceled
<1>. QED  BY <1>1, NamesAssumption, FS_Subset, FS_CardinalityType

\* The thread that queues a callback.
LEMMA QueueKept ==
    ASSUME TypeOK, NEW c \in Callbacks
    PROVE  /\ Append(callbacks, c) \in Seq(Callbacks)
           /\ Len(Append(callbacks, c)) = Len(callbacks) + 1 /\ Len(callbacks) \in Nat
           /\ callbacks # <<>> => /\ Head(callbacks) \in Callbacks
                                  /\ Tail(callbacks) \in Seq(Callbacks)
                                  /\ Len(Tail(callbacks)) = Len(callbacks) - 1
BY AppendProperties, HeadTailProperties, LenProperties DEF TypeOK

\* The loop starts with no timeout and no callback.
LEMMA InitLoop == Init => LoopInv
<1>. SUFFICES ASSUME Init PROVE LoopInv
  OBVIOUS
<1>. USE DEF Init
<1>1. TypeOK
  BY NumbersAssumption DEF TypeOK
<1>2. Phases /\ Visits /\ NoLostWakeup
  BY NamesAssumption DEF Phases, Visits, NoLostWakeup
<1>3. Canceled = {}
  BY DEF Canceled
<1>4. TimeoutsAccounted
  BY <1>3, FS_EmptySet DEF TimeoutsAccounted
<1>. QED  BY <1>1, <1>2, <1>4 DEF LoopInv

\* The loop thread takes the next callback of its batch.
LEMMA RunsQueued ==
    ASSUME LoopInv, RunCallback
    PROVE  /\ running' \in Callbacks /\ running' \notin Timers /\ running' # Nothing
           /\ callbacks' \in Seq(Callbacks) /\ batch' \in Nat /\ batch' <= Len(callbacks')
<1>1. callbacks # <<>> /\ callbacks \in Seq(Callbacks) /\ Len(callbacks) \in Nat /\ batch \in Nat
  BY LenProperties, EmptySeq DEF LoopInv, RunCallback, Phases, TypeOK
<1>2. /\ Head(callbacks) \in Callbacks /\ Tail(callbacks) \in Seq(Callbacks)
      /\ Len(Tail(callbacks)) = Len(callbacks) - 1
  BY <1>1, HeadTailProperties
<1>. QED  BY <1>1, <1>2, NamesAssumption DEF RunCallback, LoopInv, Phases

\* No step makes a count negative or stores what was not created.
LEMMA NextLoopType == ASSUME LoopInv, [Next]_vars PROVE TypeOK'
<1>. USE NumbersAssumption DEF TypeOK
<1>1. TypeOK /\ Phases
  BY DEF LoopInv
<1>2. CASE \E t \in Timers, delay \in 0..MaxTime : CallLater(t, delay)
  BY <1>1, <1>2 DEF CallLater, loopVars, queueVars
<1>3. CASE \E t \in Timers : RemoveTimeout(t)
  BY <1>1, <1>3 DEF RemoveTimeout, loopVars, queueVars
<1>4. CASE \E c \in Callbacks : AddCallback(c) \/ AddCallbackThreadsafe(c)
  <2>1. PICK c \in Callbacks : AddCallback(c) \/ AddCallbackThreadsafe(c)
    BY <1>4
  <2>2. Append(callbacks, c) \in Seq(Callbacks)
    BY <1>1, AppendProperties
  <2>3. /\ UNCHANGED <<now, timerVars, loopVars>>
        /\ callbacks' \in {callbacks, Append(callbacks, c)}
        /\ waking' \in {waking, waking \cup {c}, waking \ {c}} /\ interrupt' \in {interrupt, 1}
    BY <2>1 DEF AddCallback, AddCallbackThreadsafe, AppendCallback, WakeThreadsafe
  <2>4. /\ callbacks' \in Seq(Callbacks)
        /\ waking' \subseteq Callbacks /\ interrupt' \in 0..1
    BY <1>1, <2>2, <2>3
  <2>. QED  BY <1>1, <2>3, <2>4 DEF timerVars, loopVars
<1>5. CASE StartPoll
  BY <1>1, <1>5, WaitBounds DEF StartPoll, timerVars, queueVars
<1>6. CASE EndPoll \/ Tick
  BY <1>1, <1>6 DEF EndPoll, Tick, timerVars, queueVars, loopVars
<1>7. CASE BeginCallbacks
  <2>1. Len(callbacks) \in Nat
    BY <1>1, LenProperties
  <2>. QED  BY <1>1, <1>7, <2>1 DEF BeginCallbacks, timerVars, queueVars
<1>8. CASE RunCallback
  BY <1>1, <1>8, RunsQueued DEF RunCallback, timerVars
<1>9. CASE CollectReady
  <2>1. Due \ live \in SUBSET Canceled /\ ready = {}
    BY <1>1, <1>9 DEF Due, Canceled, CollectReady, Phases
  <2>2. Cardinality(Due \ live) <= Cardinality(Canceled) /\ Cardinality(Due \ live) \in Nat
    BY <1>1, <2>1, CanceledFinite, FS_Subset, FS_CardinalityType
  <2>3. numCancellations - Cardinality(Due \ live) \in Nat
    BY <1>1, <2>2, CanceledFinite DEF LoopInv, TimeoutsAccounted
  <2>4. Due \subseteq heap
    BY DEF Due
  <2>. QED  BY <1>1, <1>9, <2>3, <2>4 DEF CollectReady, queueVars
<1>10. CASE \E t \in Timers : RunTimer(t)
  <2>1. PICK t \in Timers : RunTimer(t)
    BY <1>10
  <2>2. t \in ready
    BY <2>1 DEF RunTimer, NextReady
  <2>3. CASE t \in live
    BY <1>1, <2>1, <2>3 DEF RunTimer, queueVars
  <2>4. CASE t \notin live
    <3>1. Canceled # {}
      BY <2>2, <2>4 DEF Canceled
    <3>2. Cardinality(Canceled) # 0 /\ Cardinality(Canceled) \in Nat
      BY <1>1, <3>1, CanceledFinite, FS_EmptySet
    <3>3. numCancellations - 1 \in Nat
      BY <1>1, <3>2 DEF LoopInv, TimeoutsAccounted
    <3>. QED  BY <1>1, <2>1, <2>4, <3>3 DEF RunTimer, queueVars
  <2>. QED  BY <2>3, <2>4
<1>11. CASE Return
  BY <1>1, <1>11 DEF Return, queueVars
<1>12. CASE Raise
  <2>1. Timers \cap {running} \subseteq created
    BY <1>1 DEF LoopInv, Visits
  <2>. QED  BY <1>1, <1>12, <2>1 DEF Raise, timerVars, queueVars
<1>13. CASE EndTimers
  BY <1>1, <1>13 DEF EndTimers, queueVars
<1>14. CASE UNCHANGED vars
  BY <1>1, <1>14 DEF vars, timerVars, loopVars, queueVars
<1>. QED
  BY <1>2, <1>3, <1>4, <1>5, <1>6, <1>7, <1>8, <1>9, <1>10, <1>11, <1>12, <1>13, <1>14
  DEF Next, LoopStep, Calls

\* The phases of process_timeouts follow each other.
LEMMA NextPhases == ASSUME LoopInv, [Next]_vars PROVE Phases'
<1>. USE DEF Phases
<1>1. TypeOK /\ Phases /\ batch \in Nat /\ Nothing \notin Timers /\ Len(callbacks) \in Nat
  BY NamesAssumption, LenProperties DEF LoopInv, TypeOK
<1>2. CASE \/ \E t \in Timers, delay \in 0..MaxTime : CallLater(t, delay)
           \/ \E t \in Timers : RemoveTimeout(t)
           \/ EndPoll \/ Tick
  BY <1>1, <1>2 DEF CallLater, RemoveTimeout, EndPoll, Tick, loopVars, queueVars
<1>3. CASE \E c \in Callbacks : AddCallback(c) \/ AddCallbackThreadsafe(c)
  <2>1. PICK c \in Callbacks : AddCallback(c) \/ AddCallbackThreadsafe(c)
    BY <1>3
  <2>2. Len(callbacks') >= Len(callbacks) /\ Len(callbacks') \in Nat
    BY <1>1, <2>1, QueueKept DEF AddCallback, AddCallbackThreadsafe, AppendCallback,
       WakeThreadsafe
  <2>3. UNCHANGED loopVars
    BY <2>1 DEF AddCallback, AddCallbackThreadsafe, AppendCallback, WakeThreadsafe
  <2>. QED  BY <1>1, <2>2, <2>3 DEF loopVars
<1>4. CASE StartPoll \/ BeginCallbacks
  BY <1>1, <1>4 DEF StartPoll, BeginCallbacks, queueVars
<1>5. CASE RunCallback
  BY <1>1, <1>5, RunsQueued DEF RunCallback
<1>6. CASE CollectReady
  BY <1>1, <1>6 DEF CollectReady, queueVars, Due
<1>7. CASE (\E t \in Timers : RunTimer(t)) \/ Return \/ EndTimers
  BY <1>1, <1>7 DEF RunTimer, Return, EndTimers, queueVars
<1>8. CASE Raise
  BY <1>1, <1>8 DEF Raise, queueVars
<1>9. CASE UNCHANGED vars
  BY <1>1, <1>9 DEF vars, loopVars, queueVars
<1>. QED
  BY <1>2, <1>3, <1>4, <1>5, <1>6, <1>7, <1>8, <1>9 DEF Next, LoopStep, Calls

\* A timeout leaves the place it was in when it gets to another.
LEMMA NextVisits == ASSUME LoopInv, [Next]_vars PROVE Visits'
<1>. USE DEF Visits
<1>1. TypeOK /\ Phases /\ Visits /\ Nothing \notin Timers
  BY NamesAssumption DEF LoopInv
<1>2. CASE \E t \in Timers, delay \in 0..MaxTime : CallLater(t, delay)
  BY <1>1, <1>2 DEF CallLater, loopVars, TypeOK
<1>3. CASE UNCHANGED <<heap, ready, running, created>>
  BY <1>1, <1>3
<1>4. CASE \/ \E t \in Timers : RemoveTimeout(t)
           \/ EndPoll \/ Tick \/ StartPoll \/ BeginCallbacks
           \/ (\E c \in Callbacks : AddCallback(c) \/ AddCallbackThreadsafe(c))
           \/ UNCHANGED vars
  <2>1. UNCHANGED <<heap, ready, running, created>>
    BY <1>4 DEF RemoveTimeout, EndPoll, Tick, StartPoll, BeginCallbacks, AddCallback,
       AddCallbackThreadsafe, AppendCallback, WakeThreadsafe, vars, timerVars, loopVars
  <2>. QED  BY <1>3, <2>1
<1>5. CASE RunCallback
  BY <1>1, <1>5, RunsQueued DEF RunCallback, timerVars
<1>6. CASE CollectReady
  BY <1>1, <1>6 DEF CollectReady, Due
<1>7. CASE \E t \in Timers : RunTimer(t)
  BY <1>1, <1>7 DEF RunTimer, NextReady, TypeOK
<1>8. CASE Return \/ EndTimers \/ Raise
  BY <1>1, <1>8 DEF Return, EndTimers, Raise, timerVars
<1>. QED
  BY <1>2, <1>4, <1>5, <1>6, <1>7, <1>8 DEF Next, LoopStep, Calls

\* The wait cannot begin while a callback is queued, and whoever queues one later
\* is between the append and the interrupt until the interrupt is there.
LEMMA NextWakeup == ASSUME LoopInv, [Next]_vars PROVE NoLostWakeup'
<1>. USE DEF NoLostWakeup
<1>1. TypeOK /\ Phases /\ NoLostWakeup
  BY DEF LoopInv
<1>2. CASE StartPoll
  <2>1. callbacks # <<>> => wakeAt' = now
    BY <1>1, <1>2, WaitBounds DEF StartPoll, TypeOK
  <2>. QED  BY <1>2, <2>1 DEF StartPoll, queueVars, TypeOK
<1>3. CASE Tick
  BY <1>1, <1>3 DEF Tick, loopVars, queueVars, TypeOK
<1>4. CASE \E c \in Callbacks : AddCallback(c) \/ AddCallbackThreadsafe(c)
  BY <1>1, <1>4 DEF AddCallback, AddCallbackThreadsafe, AppendCallback, WakeThreadsafe,
     loopVars, Phases
<1>5. CASE UNCHANGED <<now, pc, wakeAt, callbacks, interrupt, waking>>
  BY <1>1, <1>5
<1>6. CASE \/ \E t \in Timers, delay \in 0..MaxTime : CallLater(t, delay)
           \/ \E t \in Timers : RemoveTimeout(t) \/ RunTimer(t)
           \/ Return \/ UNCHANGED vars
  <2>1. UNCHANGED <<now, pc, wakeAt, callbacks, interrupt, waking>>
    BY <1>6 DEF CallLater, RemoveTimeout, RunTimer, Return, vars, loopVars, queueVars
  <2>. QED  BY <1>5, <2>1
<1>7. CASE EndPoll \/ BeginCallbacks \/ RunCallback \/ CollectReady \/ Raise \/ EndTimers
  <2>1. pc' # "wait"
    BY <1>7 DEF EndPoll, BeginCallbacks, RunCallback, CollectReady, Raise, EndTimers
  <2>. QED  BY <2>1
<1>. QED  BY <1>2, <1>3, <1>4, <1>6, <1>7 DEF Next, LoopStep, Calls

\* Collecting, discounting and calling keep the books.
LEMMA NextAccounted == ASSUME LoopInv, [Next]_vars PROVE TimeoutsAccounted'
<1>1. /\ TypeOK /\ Phases /\ Visits /\ Nothing \notin Timers
      /\ live \subseteq heap \cup ready \cup {running} \cup lost
      /\ numCancellations >= Cardinality(Canceled)
      /\ numCancellations \in Nat
  BY NamesAssumption DEF LoopInv, TimeoutsAccounted, TypeOK
<1>2. IsFiniteSet(Canceled) /\ Cardinality(Canceled) \in Nat
  BY <1>1, CanceledFinite
<1>3. ASSUME live' \subseteq (heap \cup ready \cup {running} \cup lost)',
             Canceled' \in SUBSET Canceled, numCancellations' = numCancellations
      PROVE  TimeoutsAccounted'
  <2>1. Cardinality(Canceled') <= Cardinality(Canceled) /\ Cardinality(Canceled') \in Nat
    BY <1>2, <1>3, FS_Subset, FS_CardinalityType
  <2>. QED  BY <1>1, <1>2, <1>3, <2>1 DEF TimeoutsAccounted
<1>4. CASE UNCHANGED <<heap, ready, running, live, lost, numCancellations>>
  <2>1. Canceled' = Canceled
    BY <1>4 DEF Canceled
  <2>. QED  BY <1>1, <1>3, <1>4, <2>1
<1>5. CASE \/ EndPoll \/ Tick \/ StartPoll \/ BeginCallbacks
           \/ (\E c \in Callbacks : AddCallback(c) \/ AddCallbackThreadsafe(c))
           \/ UNCHANGED vars
  <2>1. UNCHANGED <<heap, ready, running, live, lost, numCancellations>>
    BY <1>5 DEF EndPoll, Tick, StartPoll, BeginCallbacks, AddCallback,
       AddCallbackThreadsafe, AppendCallback, WakeThreadsafe, vars, timerVars, loopVars
  <2>. QED  BY <1>4, <2>1
<1>6. CASE \E t \in Timers, delay \in 0..MaxTime : CallLater(t, delay)
  <2>1. Canceled' \subseteq Canceled /\ numCancellations' = numCancellations
    BY <1>6 DEF CallLater, Canceled, loopVars
  <2>. QED  BY <1>1, <1>3, <1>6, <2>1 DEF CallLater, loopVars
<1>7. CASE \E t \in Timers : RemoveTimeout(t)
  <2>1. PICK t \in Timers : RemoveTimeout(t)
    BY <1>7
  <2>2. Canceled' \in SUBSET (Canceled \cup {t})
    BY <2>1 DEF RemoveTimeout, Canceled, loopVars
  <2>3. /\ IsFiniteSet(Canceled \cup {t})
        /\ Cardinality(Canceled \cup {t}) <= Cardinality(Canceled) + 1
        /\ Cardinality(Canceled \cup {t}) \in Nat
    BY <1>2, FS_AddElement, FS_CardinalityType
  <2>4. /\ Cardinality(Canceled') <= Cardinality(Canceled \cup {t})
        /\ Cardinality(Canceled') \in Nat
    BY <2>2, <2>3, FS_Subset, FS_CardinalityType
  <2>5. numCancellations' = numCancellations + 1
    BY <2>1 DEF RemoveTimeout
  <2>6. numCancellations' >= Cardinality(Canceled')
    BY <1>1, <1>2, <2>3, <2>4, <2>5
  <2>. QED  BY <1>1, <2>1, <2>6 DEF RemoveTimeout, TimeoutsAccounted, loopVars
<1>8. CASE RunCallback
  <2>1. Canceled' = Canceled
    BY <1>8 DEF RunCallback, Canceled, timerVars
  <2>. QED  BY <1>1, <1>3, <1>8, <2>1 DEF RunCallback, timerVars, TypeOK
<1>9. CASE CollectReady
  <2>1. /\ ready = {} /\ running' = running /\ live' = live /\ lost' = lost
        /\ heap' = heap \ Due /\ ready' = Due \cap live
        /\ numCancellations' = numCancellations - Cardinality(Due \ live)
    BY <1>1, <1>9 DEF CollectReady, Phases
  <2>2. Due \subseteq heap
    BY DEF Due
  <2>3. Canceled' = Canceled \ (Due \ live) /\ Canceled \cap (Due \ live) = Due \ live
    BY <2>1, <2>2 DEF Canceled
  <2>4. Cardinality(Canceled') = Cardinality(Canceled) - Cardinality(Due \ live)
    <3>1. Cardinality(Canceled \ (Due \ live))
            = Cardinality(Canceled) - Cardinality(Canceled \cap (Due \ live))
      BY <1>2, FS_Difference
    <3>. QED  BY <2>3, <3>1
  <2>5. Due \ live \in SUBSET Canceled
    BY <2>3
  <2>6. Cardinality(Due \ live) \in Nat
    BY <1>2, <2>5, FS_Subset, FS_CardinalityType
  <2>7. numCancellations' >= Cardinality(Canceled')
    BY <1>1, <1>2, <2>1, <2>4, <2>6
  <2>. QED  BY <1>1, <2>1, <2>2, <2>7 DEF TimeoutsAccounted
<1>10. CASE \E t \in Timers : RunTimer(t)
  <2>1. PICK t \in Timers : RunTimer(t)
    BY <1>10
  <2>2. t \in ready /\ t \notin heap
    BY <1>1, <2>1 DEF RunTimer, NextReady, Visits
  <2>3. /\ heap' = heap /\ live' = live /\ lost' = lost /\ ready' = ready \ {t}
        /\ running = Nothing
    BY <2>1 DEF RunTimer
  <2>4. CASE t \in live
    <3>1. running' = t /\ numCancellations' = numCancellations
      BY <2>1, <2>4 DEF RunTimer
    <3>2. Canceled' \in SUBSET Canceled
      BY <2>3 DEF Canceled
    <3>. QED  BY <1>1, <1>3, <2>3, <3>1, <3>2, NamesAssumption DEF TypeOK
  <2>5. CASE t \notin live
    <3>1. running' = running /\ numCancellations' = numCancellations - 1
      BY <2>1, <2>5 DEF RunTimer
    <3>2. Canceled' = Canceled \ {t} /\ t \in Canceled
      BY <2>2, <2>3, <2>5 DEF Canceled
    <3>3. Cardinality(Canceled') = Cardinality(Canceled) - 1
      BY <1>2, <3>2, FS_RemoveElement
    <3>4. numCancellations' >= Cardinality(Canceled')
      BY <1>1, <1>2, <3>1, <3>3
    <3>. QED  BY <1>1, <2>3, <2>5, <3>1, <3>4 DEF TimeoutsAccounted
  <2>. QED  BY <2>4, <2>5
<1>11. CASE Return
  <2>1. /\ heap' = heap /\ ready' = ready /\ lost' = lost /\ live' = live \ {running}
        /\ numCancellations' = numCancellations
    BY <1>11 DEF Return
  <2>2. running \notin heap \cup ready
    BY <1>1 DEF Visits, TypeOK
  <2>3. Canceled' \in SUBSET Canceled
    BY <2>1, <2>2 DEF Canceled
  <2>. QED  BY <1>1, <1>3, <2>1, <2>3
<1>12. CASE Raise
  <2>1. Canceled' \in SUBSET Canceled
    BY <1>12 DEF Raise, Canceled, timerVars
  <2>2. live \subseteq Timers
    BY <1>1 DEF TypeOK
  <2>. QED  BY <1>1, <1>3, <1>12, <2>1, <2>2 DEF Raise, timerVars
<1>13. CASE EndTimers
  <2>1. CASE TooManyCanceled
    <3>1. Canceled' = {} /\ numCancellations' = 0
      BY <1>13, <2>1 DEF EndTimers, Canceled
    <3>2. numCancellations' >= Cardinality(Canceled')
      BY <3>1, FS_EmptySet
    <3>. QED  BY <1>1, <1>13, <2>1, <3>2 DEF EndTimers, TimeoutsAccounted
  <2>2. CASE ~TooManyCanceled
    <3>1. UNCHANGED <<heap, ready, running, live, lost, numCancellations>>
      BY <1>13, <2>2 DEF EndTimers
    <3>. QED  BY <1>4, <3>1
  <2>. QED  BY <2>1, <2>2
<1>. QED
  BY <1>5, <1>6, <1>7, <1>8, <1>9, <1>10, <1>11, <1>12, <1>13 DEF Next, LoopStep, Calls

-----------------------------------------------------------------------------
\* The loop thread, the callbacks it runs and the other threads together keep the
\* invariant.
THEOREM LoopInvariant == Spec => []LoopInv
<1>1. LoopInv /\ [Next]_vars => LoopInv'
  BY NextLoopType, NextPhases, NextVisits, NextWakeup, NextAccounted DEF LoopInv
<1>. QED  BY <1>1, InitLoop, PTL DEF Spec

\* The state of the loop is well typed: no count becomes negative.
THEOREM LoopTypeCorrect == Spec => []TypeOK
<1>1. LoopInv => TypeOK
  BY DEF LoopInv
<1>. QED  BY <1>1, LoopInvariant, PTL

\* A callback that another thread queues is never left waiting for a loop that
\* sleeps: the interrupt is there or about to be sent.
THEOREM NoWakeupLost == Spec => []NoLostWakeup
<1>1. LoopInv => NoLostWakeup
  BY DEF LoopInv
<1>. QED  BY <1>1, LoopInvariant, PTL

\* No timeout is lost but by an exception, and the count of cancellations covers
\* the canceled timeouts that are stored.
THEOREM NoTimeoutLost == Spec => []TimeoutsAccounted
<1>1. LoopInv => TimeoutsAccounted
  BY DEF LoopInv
<1>. QED  BY <1>1, LoopInvariant, PTL

\* remove_timeout is final, from whichever callback it is called.
THEOREM RemovalIsFinal == Spec => RemovedNeverRuns
<1>1. ASSUME LoopInv, [Next]_vars, NEW t \in created \ live, running # t
      PROVE  running' # t
  <2>1. t \in Timers /\ t # Nothing /\ t \notin Callbacks
    BY <1>1, NamesAssumption DEF LoopInv, TypeOK
  <2>2. CASE running' = running
    BY <1>1, <2>2
  <2>3. CASE RunCallback
    BY <1>1, <2>1, <2>3, RunsQueued
  <2>4. CASE \E u \in Timers : RunTimer(u)
    BY <1>1, <2>4 DEF RunTimer
  <2>5. CASE Return \/ Raise
    BY <2>1, <2>5 DEF Return, Raise
  <2>6. CASE \/ Calls \/ StartPoll \/ BeginCallbacks \/ CollectReady \/ EndTimers
             \/ EndPoll \/ Tick \/ UNCHANGED vars
             \/ \E c \in Callbacks : AddCallbackThreadsafe(c)
    <3>1. running' = running
      BY <2>6 DEF Calls, CallLater, RemoveTimeout, AddCallback, StartPoll, BeginCallbacks,
         CollectReady, EndTimers, EndPoll, Tick, AddCallbackThreadsafe, AppendCallback,
         WakeThreadsafe, vars, loopVars
    <3>. QED  BY <2>2, <3>1
  <2>. QED  BY <1>1, <2>3, <2>4, <2>5, <2>6 DEF Next, LoopStep
<1>2. LoopInv /\ [Next]_vars => [\A t \in created \ live : running # t => running' # t]_vars
  BY <1>1
<1>. QED  BY <1>2, LoopInvariant, PTL DEF Spec, RemovedNeverRuns
=============================================================================
