------------------------------- MODULE IOLoop -------------------------------
(***************************************************************************)
(* select_connection.IOLoop with its _Timer: the thread-safe callbacks,    *)
(* the timeouts and the interrupt that ends a wait.                        *)
(*                                                                         *)
(* The loop thread alternates poll() and process_timeouts(), as            *)
(* BlockingConnection._flush_output and _PollerBase.start do.  While one   *)
(* of its callbacks runs, the callback may schedule, cancel (itself too)   *)
(* and add further callbacks.  Other threads only add callbacks.           *)
(* File descriptors other than the interrupt are the module Poller's.      *)
(***************************************************************************)
EXTENDS Integers, Sequences, FiniteSets

CONSTANTS
    Timers,         \* the _Timeout objects call_later may create
    Callbacks,      \* the callbacks handed to add_callback_threadsafe
    MaxTime,        \* bound on the clock and on deadlines
    MaxPoll,        \* _MAX_POLL_TIMEOUT
    GCThreshold,    \* _GC_CANCELLATION_THRESHOLD
    MaxRaises,      \* bound on the callbacks that raise
    Nothing         \* no callback is running

ASSUME NumbersAssumption ==
    MaxTime \in Nat /\ MaxPoll \in Nat \ {0} /\ GCThreshold \in Nat \ {0}
    /\ MaxRaises \in Nat
ASSUME NamesAssumption ==
    /\ Timers \cap Callbacks = {} /\ Nothing \notin Timers \cup Callbacks
    /\ IsFiniteSet(Timers)

VARIABLES
    now,            \* pika.compat.time_now()
    heap,           \* _timeout_heap
    live,           \* timeouts whose callback is not None
    deadline,       \* _Timeout.deadline, 0 for one never scheduled
    created,        \* timeouts that call_later returned
    numCancellations,
    ready,          \* ready_timeouts of process_timeouts, not yet visited
    raised,         \* callbacks that raised so far
    lost,           \* timeouts whose process_timeouts an exception left
    callbacks,      \* IOLoop._callbacks
    batch,          \* callbacks left in this process_timeouts
    waking,         \* threads between the append and the interrupt
    interrupt,      \* 1 while a byte waits on _r_interrupt
    wakeAt,         \* when the wait of poll() times out
    pc,             \* "poll", "wait", "begin", "callbacks", "timers"
    running         \* the callback the loop thread executes, or Nothing

timerVars == <<heap, live, deadline, created, numCancellations>>
loopVars == <<ready, raised, lost, batch, wakeAt, pc, running>>
queueVars == <<callbacks, waking, interrupt>>
vars == <<now, timerVars, loopVars, queueVars>>

Queued == {callbacks[i] : i \in DOMAIN callbacks}
Canceled == (heap \cup ready) \ live
Due == {t \in heap : deadline[t] <= now}

TypeOK ==
    /\ now \in 0..MaxTime
    /\ heap \subseteq created /\ live \subseteq created /\ ready \cup lost \subseteq created
    /\ raised \in 0..MaxRaises
    /\ created \subseteq Timers /\ deadline \in [Timers -> 0..MaxTime]
    /\ numCancellations \in Nat
    /\ callbacks \in Seq(Callbacks) /\ batch \in Nat
    /\ waking \subseteq Callbacks /\ interrupt \in 0..1 /\ wakeAt \in Nat
    /\ pc \in {"poll", "wait", "begin", "callbacks", "timers"}
    /\ running \in Timers \cup Callbacks \cup {Nothing}

Init ==
    /\ now = 0 /\ heap = {} /\ live = {} /\ created = {}
    /\ deadline = [t \in Timers |-> 0] /\ numCancellations = 0
    /\ ready = {} /\ raised = 0 /\ lost = {}
    /\ batch = 0 /\ wakeAt = 0 /\ pc = "poll" /\ running = Nothing
    /\ callbacks = <<>> /\ waking = {} /\ interrupt = 0

-----------------------------------------------------------------------------
(* Calls made by the running callback.                                     *)

CallLater(t, delay) ==
    /\ running # Nothing /\ t \notin created /\ now + delay <= MaxTime
    /\ created' = created \cup {t}
    /\ deadline' = [deadline EXCEPT ![t] = now + delay]
    /\ heap' = heap \cup {t} /\ live' = live \cup {t}
    /\ UNCHANGED <<now, numCancellations, loopVars, queueVars>>

\* A timeout that was removed or called is left alone; the running one counts
\* as live until its callback has returned.
RemoveTimeout(t) ==
    /\ running # Nothing /\ t \in live
    /\ live' = live \ {t} /\ numCancellations' = numCancellations + 1
    /\ UNCHANGED <<now, heap, deadline, created, loopVars, queueVars>>

\* add_callback is add_callback_threadsafe.
AddCallback(c) ==
    /\ running # Nothing /\ c \notin Queued \cup waking
    /\ callbacks' = Append(callbacks, c) /\ interrupt' = 1
    /\ UNCHANGED <<now, timerVars, loopVars, waking>>

-----------------------------------------------------------------------------
(* Another thread: add_callback_threadsafe.                                *)

\* Mutant: the interrupt is sent before the callback is queued.
WakeThenAppend(c) ==
    \/ /\ c \notin Queued \cup waking
       /\ waking' = waking \cup {c} /\ interrupt' = 1 /\ UNCHANGED callbacks
       /\ UNCHANGED <<now, timerVars, loopVars>>
    \/ /\ c \in waking /\ waking' = waking \ {c}
       /\ callbacks' = Append(callbacks, c) /\ UNCHANGED interrupt
       /\ UNCHANGED <<now, timerVars, loopVars>>

AppendCallback(c) ==
    /\ c \notin Queued \cup waking
    /\ callbacks' = Append(callbacks, c) /\ waking' = waking \cup {c}
    /\ UNCHANGED <<now, timerVars, loopVars, interrupt>>

\* wake_threadsafe: a full socket buffer (EWOULDBLOCK) already holds a byte.
WakeThreadsafe(c) ==
    /\ c \in waking /\ waking' = waking \ {c} /\ interrupt' = 1
    /\ UNCHANGED <<now, timerVars, loopVars, callbacks>>

AddCallbackThreadsafe(c) == AppendCallback(c) \/ WakeThreadsafe(c)

-----------------------------------------------------------------------------
(* The loop thread.                                                        *)

\* The wait: none with callbacks queued, else until the first deadline on the
\* heap (a canceled timeout's too), at most MaxPoll.
MaxWait ==
    IF callbacks # <<>> THEN 0
    ELSE LET waits == {MaxPoll} \cup {deadline[t] - now : t \in heap \ Due}
         IN IF Due # {} THEN 0
            ELSE CHOOSE w \in waits : \A v \in waits : w <= v

StartPoll ==
    /\ pc = "poll" /\ pc' = "wait" /\ wakeAt' = now + MaxWait
    /\ UNCHANGED <<now, timerVars, ready, raised, lost, batch, running, queueVars>>

\* Another descriptor, the interrupt or the timeout ends the wait.
\* _read_interrupt takes all the bytes there are.
EndPoll ==
    /\ pc = "wait" /\ pc' = "begin" /\ interrupt' = 0
    /\ UNCHANGED <<now, timerVars, ready, raised, lost, batch, wakeAt, running,
                   callbacks, waking>>

MustReturn == pc = "wait" /\ (interrupt = 1 \/ now >= wakeAt)

\* Mutant: one callback of the batch is left out.
BeginCallbacksShort ==
    /\ pc = "begin" /\ pc' = "callbacks"
    /\ batch' = IF callbacks = <<>> THEN 0 ELSE Len(callbacks) - 1
    /\ UNCHANGED <<now, timerVars, ready, raised, lost, wakeAt, running, queueVars>>

\* IOLoop.process_timeouts serves the callbacks that are queued when it starts.
BeginCallbacks ==
    /\ pc = "begin" /\ pc' = "callbacks" /\ batch' = Len(callbacks)
    /\ UNCHANGED <<now, timerVars, ready, raised, lost, wakeAt, running, queueVars>>

RunCallback ==
    /\ pc = "callbacks" /\ running = Nothing /\ batch > 0
    /\ running' = Head(callbacks) /\ callbacks' = Tail(callbacks)
    /\ batch' = batch - 1
    /\ UNCHANGED <<now, timerVars, ready, raised, lost, wakeAt, pc, waking,
                   interrupt>>

\* _Timer.process_timeouts returns at once when the heap is empty, and else takes
\* what is due off the heap first.
CollectReady ==
    /\ pc = "callbacks" /\ running = Nothing /\ batch = 0
    /\ pc' = IF heap = {} THEN "poll" ELSE "timers"
    /\ heap' = heap \ Due /\ ready' = Due \cap live
    /\ numCancellations' = numCancellations - Cardinality(Due \ live)
    /\ UNCHANGED <<now, live, deadline, created, raised, lost, batch, wakeAt,
                   running, queueVars>>

NextReady(t) == t \in ready /\ \A u \in ready : deadline[t] <= deadline[u]

\* Mutant: what an earlier callback of the batch canceled is called all the same.
RunTimerUnchecked(t) ==
    /\ pc = "timers" /\ running = Nothing /\ NextReady(t)
    /\ ready' = ready \ {t} /\ running' = t
    /\ UNCHANGED <<now, timerVars, raised, lost, batch, wakeAt, pc, queueVars>>

RunTimer(t) ==
    /\ pc = "timers" /\ running = Nothing /\ NextReady(t)
    /\ ready' = ready \ {t}
    /\ IF t \in live
       THEN running' = t /\ UNCHANGED numCancellations
       ELSE numCancellations' = numCancellations - 1 /\ UNCHANGED running
    /\ UNCHANGED <<now, heap, live, deadline, created, raised, lost, batch,
                   wakeAt, pc,
                   queueVars>>

\* The running callback returns; timeout.callback = None.
Return ==
    /\ running # Nothing /\ running' = Nothing
    /\ live' = live \ {running}
    /\ UNCHANGED <<now, heap, deadline, created, numCancellations, ready,
                   raised, lost, batch,
                   wakeAt, pc, queueVars>>

\* The exception leaves process_timeouts; its ready_timeouts are gone, and the
\* timeout that raised keeps its callback.  The caller of the loop may handle it
\* and poll again.
Raise ==
    /\ running # Nothing /\ raised < MaxRaises /\ raised' = raised + 1
    /\ lost' = lost \cup ready \cup (Timers \cap {running})
    /\ running' = Nothing /\ ready' = {} /\ batch' = 0 /\ pc' = "poll"
    /\ UNCHANGED <<now, timerVars, wakeAt, queueVars>>

TooManyCanceled ==
    /\ numCancellations >= GCThreshold
    /\ numCancellations > Cardinality(heap) \div 2

\* Mutant: the collection keeps the canceled timeouts and drops the others.
EndTimersKeepCanceled ==
    /\ pc = "timers" /\ running = Nothing /\ ready = {} /\ pc' = "poll"
    /\ IF TooManyCanceled
       THEN numCancellations' = 0 /\ heap' = heap \ live
       ELSE UNCHANGED <<numCancellations, heap>>
    /\ UNCHANGED <<now, live, deadline, created, ready, raised, lost, batch,
                   wakeAt, running,
                   queueVars>>

\* Mutant: the collection resets the count and leaves the heap as it is.
EndTimersCountOnly ==
    /\ pc = "timers" /\ running = Nothing /\ ready = {} /\ pc' = "poll"
    /\ numCancellations' = IF TooManyCanceled THEN 0 ELSE numCancellations
    /\ UNCHANGED <<now, heap, live, deadline, created, ready, raised, lost,
                   batch, wakeAt,
                   running, queueVars>>

\* _Timer.process_timeouts ends by collecting canceled timeouts when there are
\* many.
EndTimers ==
    /\ pc = "timers" /\ running = Nothing /\ ready = {} /\ pc' = "poll"
    /\ IF TooManyCanceled
       THEN numCancellations' = 0 /\ heap' = heap \cap live
       ELSE UNCHANGED <<numCancellations, heap>>
    /\ UNCHANGED <<now, live, deadline, created, ready, raised, lost, batch,
                   wakeAt, running,
                   queueVars>>

Tick == now < MaxTime /\ now' = now + 1 /\ UNCHANGED <<timerVars, loopVars,
                                                       queueVars>>
-----------------------------------------------------------------------------
Calls ==
    \/ \E t \in Timers : RemoveTimeout(t) \/ \E delay \in 0..MaxTime : CallLater(t, delay)
    \/ \E c \in Callbacks : AddCallback(c)

LoopStep ==
    \/ StartPoll \/ BeginCallbacks \/ RunCallback \/ CollectReady
    \/ (\E t \in Timers : RunTimer(t)) \/ Return \/ EndTimers

Next ==
    \/ LoopStep \/ EndPoll \/ Calls \/ Raise \/ Tick
    \/ \E c \in Callbacks : AddCallbackThreadsafe(c)

Spec == Init /\ [][Next]_vars

\* The thread that owns the loop keeps running it, its callbacks return, a wait
\* ends once the interrupt or the timeout is there, and time passes.
Fairness ==
    /\ WF_vars(LoopStep) /\ WF_vars(MustReturn /\ EndPoll) /\ WF_vars(Tick)
    /\ \A c \in Callbacks : WF_vars(WakeThreadsafe(c))

FairSpec == Spec /\ Fairness
-----------------------------------------------------------------------------
(* Properties.                                                             *)

\* The loop never waits while a callback is queued and nothing will wake it:
\* the interrupt is there, or the thread that queued the callback is about to
\* send it.
NoLostWakeup ==
    (pc = "wait" /\ callbacks # <<>> /\ now < wakeAt) => interrupt = 1 \/ waking # {}

\* The books of _Timer agree: every timeout that was neither called nor removed
\* is still going to be visited (collecting canceled timeouts loses none, an
\* exception only those of its own batch), and the count of cancellations is
\* never below the canceled timeouts that are stored, so that they are collected
\* once they reach the threshold.
TimeoutsAccounted ==
    /\ live \subseteq heap \cup ready \cup {running} \cup lost
    /\ numCancellations >= Cardinality(Canceled)

\* remove_timeout is final: a timeout that was removed, or that was already
\* called, is not called afterwards, not even when an earlier callback of the
\* same process_timeouts removed it.
RemovedNeverRuns ==
    [][\A t \in created \ live : running # t => running' # t]_vars

\* Every call asked of the loop has its turn, although callbacks may queue
\* further callbacks and schedule further timeouts for ever, and although
\* some raise: a queued callback runs, and a timeout is called, removed, or one of a
\* batch that an exception ended.
EveryCallHasItsTurn ==
    /\ \A c \in Callbacks : (c \in Queued) ~> (running = c)
    /\ \A t \in Timers : (t \in live) ~> (t \notin live \/ t \in lost)
=============================================================================
