---------------------------- MODULE BlockingCalls ----------------------------
(***************************************************************************)
(* blocking_connection: the calls of BlockingChannel and BlockingConnection*)
(* that wait for the broker, the consumer generator, timers and returned   *)
(* messages, with the calls that callbacks make while events are           *)
(* dispatched.  (The consumer program's own path, with its threads, its    *)
(* interrupt and the close, is SlowAckConsumer's.)                         *)
(*                                                                         *)
(* One thread: a call sends its frames and turns the I/O loop              *)
(* (_flush_output) until one of its waiters is ready.  Only                *)
(* process_data_events, and what is built from it, dispatches the events   *)
(* that were gathered meanwhile, and only when it is not called from a     *)
(* callback.  A frame is the broker's once it is written.                  *)
(***************************************************************************)
EXTENDS Integers, Sequences, SequencesExt, FiniteSets

CONSTANTS
    CallbackTags,   \* consumer tags for basic_consume
    GeneratorTags,  \* tags that _generate_consumer_tag makes for consume()
    Timers,         \* identifiers that call_later returns
    MaxCalls,       \* bound on the calls of the application
    MaxDeliveries,  \* bound on the delivery tags of the broker
    MaxNotices,     \* bound on Connection.Blocked and Basic.Cancel of the broker
    None

ASSUME CallBoundsAssumption ==
    MaxCalls \in Nat /\ MaxDeliveries \in Nat /\ MaxNotices \in Nat
ASSUME CallNamesAssumption ==
    /\ CallbackTags \cap GeneratorTags = {}
    /\ None \notin CallbackTags \cup GeneratorTags \cup Timers
    /\ Timers \cap {"blocked", "delivery", "cancellation", "returned"} = {}

Tags == CallbackTags \cup GeneratorTags
Deliveries == 1..MaxDeliveries
Kinds == {"ok", "getOk", "getEmpty", "consumeOk", "cancelOk", "confirm"}

VARIABLES
    channel,    \* channel.Channel: state, consumer tags, auto_ack tags
    blocking,   \* BlockingChannel
    events,     \* BlockingConnection's events and their dispatch
    app,        \* the application's calls
    wire,       \* the write buffer and the frames on their way to the client
    broker

vars == <<channel, blocking, events, app, wire, broker>>

\* n: the number of the call, so that a reply can be told from another call's.
\* limited: with a time limit; acquired: _acquire_event_dispatch was granted.
NoCall == [op |-> "none", n |-> 0, tag |-> None, limited |-> FALSE, acquired |-> FALSE,
           stage |-> "flush"]
Processing == {"process", "next", "consuming"}
Answered == {"rpc", "select", "get", "publish", "send", "consume", "cancel"}
Calls == [op : Processing \cup Answered \cup {"none"}, n : 0..MaxCalls,
          tag : Tags \cup {None}, limited : BOOLEAN, acquired : BOOLEAN,
          stage : {"flush", "round", "dispatch", "loop"}]

Frame(type, n, tag, id) == [type |-> type, n |-> n, tag |-> tag, id |-> id]
Event(type, tag, id) == [type |-> type, tag |-> tag, id |-> id]
PendingEvents == [type : {"delivery", "cancellation", "returned"},
                  tag : Tags \cup {None}, id : 0..MaxDeliveries]

TypeOK ==
    /\ channel \in [state : {"open", "closedByBroker", "closed"},
                    tags : [Tags -> {"none", "consuming", "cancelling"}],
                    ackless : SUBSET Tags, getting : BOOLEAN]
    /\ blocking.infos \in [Tags -> {"none", "setting", "active", "tearing", "cancelled"}]
    /\ blocking.generator \in GeneratorTags \cup {None}
    /\ blocking.genEvents \in Seq(PendingEvents) /\ blocking.pending \in Seq(PendingEvents)
    /\ blocking.ready \in [Kinds -> 0..MaxCalls] /\ blocking.got \in 0..MaxDeliveries
    /\ blocking.confirming \in BOOLEAN /\ blocking.returned \in 0..MaxCalls
    /\ events.depth \in 0..2 /\ events.requested \in SUBSET {"channel", "wakeup"}
    /\ events.ready \in Seq(Timers \cup {"blocked"}) /\ events.scheduled \subseteq Timers
    /\ events.todo \in Nat
    /\ app.call \in Calls /\ app.dispatcher \in Calls
    /\ app.given \subseteq Deliveries /\ app.calls \in 0..MaxCalls
    /\ broker.unacked \subseteq Deliveries /\ broker.sent \in 0..MaxDeliveries

\* _CallbackResult of each kind of reply: the call it is ready for, 0 after reset.
NoResults == [k \in Kinds |-> 0]

Init ==
    /\ channel = [state |-> "open", tags |-> [t \in Tags |-> "none"], ackless |-> {},
                  getting |-> FALSE]
    /\ \E onReturn \in BOOLEAN :        \* add_on_return_callback was called
           blocking = [infos |-> [t \in Tags |-> "none"], generator |-> None,
                       genEvents |-> <<>>, pending |-> <<>>, confirming |-> FALSE,
                       returned |-> 0, onReturn |-> onReturn, ready |-> NoResults,
                       got |-> 0, ackless |-> {}, used |-> {}]
    /\ events = [depth |-> 0, requested |-> {}, ready |-> <<>>, scheduled |-> {},
                 expired |-> FALSE, todo |-> 0, phase |-> "none", callback |-> None]
    /\ app = [call |-> NoCall, dispatcher |-> NoCall, calls |-> 0, given |-> {},
              removed |-> {}, raised |-> FALSE, lost |-> FALSE]
    /\ wire = [out |-> <<>>, in |-> <<>>]
    /\ broker = [open |-> TRUE, consumers |-> {}, confirms |-> FALSE, unacked |-> {},
                 ackless |-> {}, sent |-> 0, notices |-> 0]
-----------------------------------------------------------------------------
(* The calls.                                                              *)

Dispatching == app.dispatcher # NoCall
\* The application runs: at the top, or in a callback.
Idle == app.call = NoCall /\ (Dispatching => events.callback # None)
CanCall == Idle /\ channel.state = "open" /\ ~app.lost /\ app.calls < MaxCalls
Number == app.calls + 1

Call(op, tag) == [NoCall EXCEPT !.op = op, !.n = Number, !.tag = tag]
\* The call sends a frame and flushes.
Start(call, type, id) ==
    /\ CanCall
    /\ app' = [app EXCEPT !.call = call, !.calls = @ + 1, !.given = @ \ {id}]
    /\ wire' = [wire EXCEPT !.out = Append(@, Frame(type, Number, call.tag, id))]

\* Each waits for the reply of its own method.
Synchronous ==
    /\ Start(Call("rpc", None), "rpc", 0)
    /\ UNCHANGED <<channel, blocking, events, broker>>
ExchangeMethod == Synchronous
QueueMethod == Synchronous
TxMethod == Synchronous
QosOrRecover == Synchronous
Flow == Synchronous

ConfirmDelivery ==
    /\ ~blocking.confirming /\ Start(Call("select", None), "select", 0)
    /\ UNCHANGED <<channel, blocking, events, broker>>

BasicGet ==
    /\ ~channel.getting /\ blocking.ready["getEmpty"] = 0
    /\ Start(Call("get", None), "get", 0)
    /\ channel' = [channel EXCEPT !.getting = TRUE]
    /\ UNCHANGED <<blocking, events, broker>>

BasicPublish ==
    /\ Start(Call("publish", None), "publish", 0)
    /\ UNCHANGED <<channel, blocking, events, broker>>

\* basic_ack, basic_nack, basic_reject.
Settle(id) ==
    /\ id \in app.given \ broker.ackless /\ Start(Call("send", None), "settle", id)
    /\ UNCHANGED <<channel, blocking, events, broker>>

\* _basic_consume_impl.
ConsumeImpl(tag, ackless) ==
    /\ blocking.infos[tag] = "none" /\ channel.tags[tag] = "none"
    /\ Start(Call("consume", tag), "consume", 0)
    /\ channel' = [channel EXCEPT !.tags[tag] = "consuming",
                                  !.ackless = IF ackless THEN @ \cup {tag} ELSE @ \ {tag}]
    /\ UNCHANGED <<events, broker>>

\* A new _ConsumerInfo.
SetUp(tag, ackless) ==
    [blocking EXCEPT !.infos[tag] = "setting",
                     !.ackless = IF ackless THEN @ \cup {tag} ELSE @ \ {tag}]

BasicConsume(tag, ackless) ==
    /\ tag \in CallbackTags /\ ConsumeImpl(tag, ackless)
    /\ blocking' = SetUp(tag, ackless)

\* The first next() of consume(): a new consumer with a tag of its own.
NewGenerator(tag, ackless) ==
    /\ tag \in GeneratorTags \ blocking.used /\ blocking.generator = None
    /\ ConsumeImpl(tag, ackless)
    /\ blocking' = [SetUp(tag, ackless) EXCEPT !.generator = tag, !.genEvents = <<>>,
                                               !.used = @ \cup {tag}]

\* The elements at some positions, in their order.
Picked(seq, S) ==
    LET n == Cardinality(S)
        at == CHOOSE f \in [1..n -> S] : \A i, j \in 1..n : i < j => f[i] < f[j]
    IN [k \in 1..n |-> seq[at[k]]]

\* _remove_pending_deliveries.
IsOf(e, tag) == e.tag = tag /\ e.type = "delivery"
Of(tag) == Picked(blocking.pending,
                  {i \in DOMAIN blocking.pending : IsOf(blocking.pending[i], tag)})
Without(tag) == Picked(blocking.pending,
                       {i \in DOMAIN blocking.pending : blocking.pending[i].tag # tag})
Rejects(evts) == [i \in DOMAIN evts |-> Frame("settle", 0, None, evts[i].id)]

\* basic_cancel: what is pending is rejected, first the n events that wait for the
\* generator; impl.basic_cancel sends nothing for a consumer that the broker cancelled.
CancelImpl(tag, n) ==
    /\ CanCall /\ blocking.infos[tag] \in {"active", "cancelled"}
    /\ LET manual == tag \notin blocking.ackless
           cancels == channel.tags[tag] = "consuming"
       IN /\ app' = [app EXCEPT !.call = Call("cancel", tag), !.calls = @ + 1]
          /\ wire' = [wire EXCEPT !.out =
                 @ \o (IF manual THEN Rejects(SubSeq(blocking.genEvents, 1, n) \o Of(tag))
                       ELSE <<>>)
                   \o (IF cancels THEN <<Frame("cancel", Number, tag, 0)>> ELSE <<>>)]
          /\ channel' = IF cancels THEN [channel EXCEPT !.tags[tag] = "cancelling"]
                        ELSE channel
          /\ blocking' = [blocking EXCEPT
                 !.infos[tag] = "tearing",
                 !.pending = IF manual THEN Without(tag) ELSE @,
                 !.genEvents = IF manual THEN SubSeq(@, n + 1, Len(@)) ELSE @]
    /\ UNCHANGED <<events, broker>>

BasicCancel(tag) == tag # blocking.generator /\ CancelImpl(tag, 0)

\* get_waiting_message_count: a cancellation by the broker comes last.
WaitingCount ==
    LET evts == blocking.genEvents IN
    IF evts # <<>> /\ Last(evts).type = "cancellation" THEN Len(evts) - 1 ELSE Len(evts)
CancelGenerator ==
    blocking.generator # None /\ CancelImpl(blocking.generator, WaitingCount)

\* process_data_events, start_consuming (not from a callback) and next() of a
\* generator that exists.
StartProcessing(op, limited) ==
    /\ CanCall /\ (op = "consuming" => ~Dispatching)
    /\ (op = "next" => blocking.generator # None)
    /\ app' = [app EXCEPT !.call = [Call(op, None) EXCEPT !.limited = limited,
                                                         !.stage = "loop"],
                          !.calls = @ + 1]
    /\ UNCHANGED <<channel, blocking, events, wire, broker>>

CallLater(t) ==
    /\ CanCall /\ t \notin events.scheduled \cup app.removed \cup {events.callback}
    /\ ~Contains(events.ready, t)
    /\ events' = [events EXCEPT !.scheduled = @ \cup {t}]
    /\ app' = [app EXCEPT !.calls = @ + 1]
    /\ UNCHANGED <<channel, blocking, wire, broker>>

\* Its event may be ready already.
RemoveTimeout(t) ==
    /\ CanCall /\ t \in events.scheduled \cup ToSet(events.ready)
    /\ events' = [events EXCEPT !.scheduled = @ \ {t},
                                !.ready = Picked(@, {i \in DOMAIN @ : @[i] # t})]
    /\ app' = [app EXCEPT !.removed = @ \cup {t}, !.calls = @ + 1]
    /\ UNCHANGED <<channel, blocking, wire, broker>>
-----------------------------------------------------------------------------
(* _flush_output.                                                          *)

Flushing == app.call.op # "none" /\ app.call.stage \in {"flush", "round"}
InRound == Flushing /\ app.call.stage = "round"
Ready(kind) == blocking.ready[kind] # 0

\* The waiters of each call; those of process_data_events are the limit and, when
\* it may dispatch, events to dispatch.
WaiterReady ==
    LET c == app.call IN
    CASE c.op \in {"rpc", "select"} -> channel.state # "open" \/ Ready("ok")
      [] c.op = "get" -> channel.state # "open" \/ Ready("getOk") \/ Ready("getEmpty")
      [] c.op = "publish" ->
             channel.state # "open" \/ ~blocking.confirming \/ Ready("confirm")
      [] c.op = "send" -> TRUE
      [] c.op = "consume" -> channel.state # "open" \/ Ready("consumeOk")
      [] c.op = "cancel" -> \/ channel.state # "open" \/ Ready("cancelOk")
                            \/ channel.tags[c.tag] = "none"
      [] OTHER -> \/ c.limited /\ events.expired
                  \/ c.acquired /\ (events.requested # {} \/ events.ready # <<>>)

IsDone == app.lost \/ (wire.out = <<>> /\ WaiterReady)

\* While not is_done(): a round of poll and process_timeouts handles one thing or
\* several.
Turn == Flushing /\ (InRound \/ ~IsDone)
InTurn == [app EXCEPT !.call.stage = "round"]
EndRound ==
    /\ InRound /\ app' = [app EXCEPT !.call.stage = "flush"]
    /\ UNCHANGED <<channel, blocking, events, wire, broker>>

TimerReady(t) ==
    /\ Turn /\ t \in events.scheduled /\ app' = InTurn
    /\ events' = [events EXCEPT !.scheduled = @ \ {t}, !.ready = Append(@, t)]
    /\ UNCHANGED <<channel, blocking, wire, broker>>

LimitExpires ==
    /\ Turn /\ app.call.limited /\ ~events.expired /\ app' = InTurn
    /\ events' = [events EXCEPT !.expired = TRUE]
    /\ UNCHANGED <<channel, blocking, wire, broker>>

\* What the broker may send when it has read f: a message that it cannot route is
\* returned before it is confirmed.
Answers(f) ==
    LET reply(type) == <<Frame(type, f.n, f.tag, 0)>>
        confirm == IF broker.confirms THEN reply("confirm") ELSE <<>>
    IN CASE f.type \in {"rpc", "select"} -> {reply("ok")}
         [] f.type = "consume" -> {reply("consumeOk")}
         [] f.type = "cancel" -> {reply("cancelOk")}
         [] f.type = "publish" -> {confirm, reply("return") \o confirm}
         [] f.type = "get" ->
                {reply("getEmpty")} \cup {<<Frame("getOk", f.n, None, id)>> :
                                              id \in {broker.sent + 1} \cap Deliveries}
         [] OTHER -> {<<>>}

\* A frame is written and the broker reads and answers it.
Write ==
    /\ Turn /\ wire.out # <<>> /\ broker.open /\ app' = InTurn
    /\ LET f == Head(wire.out) IN
       \E frames \in Answers(f) :
          LET got == {frames[i].id : i \in DOMAIN frames} \ {0} IN
          /\ wire' = [out |-> Tail(wire.out), in |-> wire.in \o frames]
          /\ broker' = [broker EXCEPT
                 !.consumers = CASE f.type = "consume" -> @ \cup {f.tag}
                                 [] f.type = "cancel" -> @ \ {f.tag}
                                 [] OTHER -> @,
                 !.confirms = @ \/ f.type = "select",
                 !.sent = @ + Cardinality(got),
                 !.unacked = IF f.type = "settle" THEN @ \ {f.id} ELSE @ \cup got]
    /\ UNCHANGED <<channel, blocking, events>>

\* A broker that closed the channel ignores what it reads.
WriteIgnored ==
    /\ Turn /\ wire.out # <<>> /\ ~broker.open /\ app' = InTurn
    /\ wire' = [wire EXCEPT !.out = Tail(@)]
    /\ UNCHANGED <<channel, blocking, events, broker>>
-----------------------------------------------------------------------------
(* Frames, with the callbacks that BlockingChannel registered.             *)

Receive(type) ==
    /\ Turn /\ wire.in # <<>> /\ Head(wire.in).type = type /\ app' = InTurn
    /\ UNCHANGED broker
Got == Head(wire.in)
Rest == [wire EXCEPT !.in = Tail(@)]

\* signal_once and set_value_once.
Set(kind) == [blocking EXCEPT !.ready[kind] = Got.n]

OnReply ==
    /\ \E k \in {"ok", "consumeOk", "confirm"} : Receive(k) /\ blocking' = Set(k)
    /\ wire' = Rest /\ UNCHANGED <<channel, events>>

OnGetOk ==
    /\ Receive("getOk") /\ blocking' = [Set("getOk") EXCEPT !.got = Got.id]
    /\ channel' = [channel EXCEPT !.getting = FALSE]
    /\ wire' = Rest /\ UNCHANGED events

OnGetEmpty ==
    /\ Receive("getEmpty") /\ blocking' = Set("getEmpty")
    /\ channel' = [channel EXCEPT !.getting = FALSE]
    /\ wire' = Rest /\ UNCHANGED events

OnCancelOk ==
    /\ Receive("cancelOk") /\ blocking' = Set("cancelOk")
    /\ channel' = [channel EXCEPT !.tags[Got.tag] = "none", !.ackless = @ \ {Got.tag}]
    /\ wire' = Rest /\ UNCHANGED events

Request(e, what) == [e EXCEPT !.requested = @ \cup {what}]

\* Mutant: the event waits for whoever asks next.
AddPendingUnrequested(b, e) ==
    /\ blocking' = [b EXCEPT !.pending = Append(@, e)] /\ UNCHANGED events

\* _add_pending_event.
AddPending(b, e) ==
    /\ blocking' = [b EXCEPT !.pending = Append(@, e)]
    /\ events' = Request(events, "channel")

\* _on_puback_message_returned, and the application's callback.
OnReturn ==
    /\ Receive("return") /\ wire' = Rest /\ UNCHANGED channel
    /\ LET b == [blocking EXCEPT !.returned = IF blocking.confirming THEN Got.n ELSE @]
       IN IF blocking.onReturn THEN AddPending(b, Event("returned", None, 0))
          ELSE blocking' = b /\ UNCHANGED events

\* Mutant: the generator's events wake nobody up.
ToSinkQuietly(b, tag, e) ==
    IF tag \in GeneratorTags
    THEN blocking' = [b EXCEPT !.genEvents = Append(@, e)] /\ UNCHANGED events
    ELSE AddPending(b, e)

\* The generator's events wake process_data_events up and are not dispatched.
ToSink(b, tag, e) ==
    IF tag \in GeneratorTags
    THEN /\ blocking' = [b EXCEPT !.genEvents = Append(@, e)]
         /\ events' = Request(events, "wakeup")
    ELSE AddPending(b, e)

\* Channel._on_deliver and _on_consumer_message_delivery.
OnDeliver ==
    /\ Receive("deliver") /\ UNCHANGED channel
    /\ CASE channel.tags[Got.tag] = "cancelling" ->
              /\ wire' = [Rest EXCEPT !.out =
                     IF Got.tag \in channel.ackless THEN @
                     ELSE Append(@, Frame("settle", 0, None, Got.id))]
              /\ UNCHANGED <<blocking, events>>
         [] channel.tags[Got.tag] = "none" -> wire' = Rest /\ UNCHANGED <<blocking, events>>
         [] OTHER ->
              /\ wire' = Rest
              /\ ToSink(blocking, Got.tag, Event("delivery", Got.tag, Got.id))

\* Channel._on_cancel and _on_consumer_cancelled_by_broker.
OnCancel ==
    /\ Receive("brokerCancel") /\ wire' = Rest
    /\ channel' = IF channel.tags[Got.tag] = "cancelling" THEN channel
                  ELSE [channel EXCEPT !.tags[Got.tag] = "none", !.ackless = @ \ {Got.tag}]
    /\ LET b == [blocking EXCEPT
                     !.infos[Got.tag] = IF @ = "tearing" THEN @ ELSE "cancelled"]
       IN ToSink(b, Got.tag, Event("cancellation", Got.tag, 0))

\* _on_channel_closed and BlockingChannel._cleanup.
OnChannelClose ==
    /\ Receive("close") /\ wire' = Rest
    /\ channel' = [channel EXCEPT !.state = "closedByBroker",
                                  !.tags = [t \in Tags |-> "none"]]
    /\ blocking' = [blocking EXCEPT !.ready["confirm"] = 0, !.pending = <<>>,
                        !.infos = [t \in Tags |-> "none"], !.generator = None]
    /\ events' = Request(events, "wakeup")

\* _on_connection_blocked: an event of the connection.
OnBlocked ==
    /\ Receive("blocked") /\ wire' = Rest /\ UNCHANGED <<channel, blocking>>
    /\ events' = [events EXCEPT !.ready = Append(@, "blocked")]

\* The stream is lost: the channel closes with it.
OnConnectionClosed ==
    /\ Turn /\ ~app.lost /\ app' = [InTurn EXCEPT !.lost = TRUE]
    /\ channel' = [channel EXCEPT !.state = IF @ = "open" THEN "closed" ELSE @,
                                  !.tags = [t \in Tags |-> "none"]]
    /\ wire' = [out |-> <<>>, in |-> <<>>] /\ UNCHANGED <<blocking, events, broker>>
-----------------------------------------------------------------------------
(* A call that ends, and the dispatch of events.                           *)

\* Mutant: a publish leaves its confirmation behind.
EndedKeepsConfirm(c, raised) ==
    CASE c.op \in {"rpc", "select"} ->
           [blocking EXCEPT !.ready["ok"] = 0,
                            !.confirming = @ \/ (c.op = "select" /\ ~raised)]
      [] OTHER -> blocking

\* The finally clauses and the results of the calls; raised: an exception.
Ended(c, raised) ==
    CASE c.op \in {"rpc", "select"} ->
           [blocking EXCEPT !.ready["ok"] = 0,
                            !.confirming = @ \/ (c.op = "select" /\ ~raised)]
      [] c.op = "get" ->
           [blocking EXCEPT !.ready["getOk"] = 0, !.ready["getEmpty"] = 0, !.got = 0]
      [] c.op = "publish" ->
           [blocking EXCEPT !.ready["confirm"] = 0,
                            !.returned = IF raised \/ ~blocking.confirming THEN @ ELSE 0]
      [] c.op = "consume" ->
           [blocking EXCEPT !.ready["consumeOk"] = 0,
               !.infos[c.tag] = IF raised THEN "none"
                                ELSE IF @ = "setting" THEN "active" ELSE @,
               !.generator = IF raised /\ @ = c.tag THEN None ELSE @]
      [] c.op = "cancel" ->
           [blocking EXCEPT !.ready["cancelOk"] = 0, !.infos[c.tag] = "none",
               !.pending = IF raised THEN @ ELSE Without(c.tag),
               !.generator = IF @ = c.tag THEN None ELSE @]
      [] OTHER -> blocking

\* What the call hands to the application: the message of basic_get, and what
\* was pending of an auto_ack consumer.
Given(c) ==
    CASE c.op = "get" -> {blocking.got} \ {0}
      [] c.op = "cancel" -> {Of(c.tag)[i].id : i \in DOMAIN Of(c.tag)}
      [] OTHER -> {}

Woken(c) == IF c.op = "cancel" THEN Request(events, "wakeup") ELSE events

CallDone == Flushing /\ ~InRound /\ IsDone /\ app.call.op \in Answered

\* next() of a new generator goes on to wait for its first event.
CallReturns ==
    /\ CallDone /\ channel.state = "open"
    /\ blocking' = Ended(app.call, FALSE) /\ events' = Woken(app.call)
    /\ app' = [app EXCEPT
           !.call = IF app.call.op = "consume" /\ app.call.tag \in GeneratorTags
                    THEN [@ EXCEPT !.op = "next", !.tag = None, !.stage = "loop"]
                    ELSE NoCall,
           !.given = @ \cup Given(app.call)]
    /\ UNCHANGED <<channel, wire, broker>>

\* The closing of the channel, or of the connection, is raised to the caller.
CallRaises ==
    /\ CallDone /\ channel.state # "open"
    /\ blocking' = Ended(app.call, TRUE)
    /\ events' = IF app.lost THEN [events EXCEPT !.ready = <<>>]
                 ELSE IF app.call.op \in {"consume", "cancel"}
                 THEN Request(events, "wakeup")
                 ELSE events
    /\ app' = [app EXCEPT !.call = NoCall] /\ UNCHANGED <<channel, wire, broker>>

\* A turn of the loop of start_consuming, of the generator, or of the one of
\* process_data_events.
Resumes(stage) == app.call.op \in Processing /\ app.call.stage = stage
WantsEvents ==
    CASE app.call.op = "next" -> blocking.generator # None /\ blocking.genEvents = <<>>
      [] app.call.op = "consuming" -> \E t \in Tags : blocking.infos[t] # "none"
      [] OTHER -> TRUE

EnterProcessing ==
    /\ Resumes("loop") /\ WantsEvents /\ ~app.lost /\ channel.state = "open"
    /\ app' = [app EXCEPT !.call.stage = "flush", !.call.acquired = events.depth = 0]
    /\ events' = [events EXCEPT !.depth = @ + 1, !.expired = FALSE]
    /\ UNCHANGED <<channel, blocking, wire, broker>>

\* The generator yields a message, or ends with the broker's cancellation; the
\* loop of start_consuming ends.
LoopEnds ==
    /\ Resumes("loop") /\ (~WantsEvents \/ app.lost \/ channel.state # "open")
    /\ LET event == app.call.op = "next" /\ blocking.generator # None
                       /\ blocking.genEvents # <<>>
           e == Head(blocking.genEvents)
       IN /\ app' = [app EXCEPT !.call = NoCall,
                        !.given = IF event /\ e.type = "delivery" THEN @ \cup {e.id} ELSE @]
          /\ blocking' = IF ~event THEN blocking
                         ELSE [blocking EXCEPT !.genEvents = Tail(@),
                                  !.generator = IF e.type = "cancellation" THEN None ELSE @]
    /\ UNCHANGED <<channel, events, wire, broker>>

\* What follows the dispatch of process_data_events: its caller's loop, unless it
\* is called by the application or its limit is over.
After(c) ==
    IF c.op = "process" \/ (c.limited /\ events.expired /\ blocking.genEvents = <<>>)
    THEN NoCall ELSE [c EXCEPT !.stage = "loop", !.acquired = FALSE]

\* Mutant: the dispatch is released before it begins.
FlushEndsReleasing ==
    /\ app.call.op \in Processing /\ Flushing /\ ~InRound /\ IsDone
    /\ events' = [events EXCEPT !.depth = @ - 1, !.todo = Len(events.ready),
                                !.phase = IF app.call.acquired THEN "connection" ELSE @]
    /\ app' = IF app.call.acquired
              THEN [app EXCEPT !.call = NoCall, !.dispatcher = app.call]
              ELSE [app EXCEPT !.call = After(app.call)]
    /\ UNCHANGED <<channel, blocking, wire, broker>>

\* process_data_events dispatches after its flush, unless a callback called it.
FlushEnds ==
    /\ app.call.op \in Processing /\ Flushing /\ ~InRound /\ IsDone
    /\ IF app.lost
       THEN /\ app' = [app EXCEPT !.call = NoCall]
            /\ events' = [events EXCEPT !.depth = @ - 1, !.ready = <<>>]
       ELSE IF app.call.acquired
       THEN /\ app' = [app EXCEPT !.call = NoCall, !.dispatcher = app.call]
            /\ events' = [events EXCEPT !.todo = Len(events.ready), !.phase = "connection"]
       ELSE /\ app' = [app EXCEPT !.call = After(app.call)]
            /\ events' = [events EXCEPT !.depth = @ - 1]
    /\ UNCHANGED <<channel, blocking, wire, broker>>

BetweenCallbacks == Dispatching /\ app.call = NoCall /\ events.callback = None

\* _dispatch_connection_events: the events that were ready when it began.
DispatchReady ==
    /\ BetweenCallbacks /\ events.phase = "connection"
    /\ events.todo > 0 /\ events.ready # <<>>
    /\ events' = [events EXCEPT !.todo = @ - 1, !.ready = Tail(@),
                                !.callback = Head(events.ready)]
    /\ UNCHANGED <<channel, blocking, app, wire, broker>>

\* _dispatch_channel_events.
DispatchChannel ==
    /\ BetweenCallbacks /\ events.phase = "connection"
    /\ events.todo = 0 \/ events.ready = <<>>
    /\ events' = [events EXCEPT !.requested = {},
           !.phase = IF "channel" \in events.requested /\ channel.state = "open"
                     THEN "channel" ELSE "end"]
    /\ UNCHANGED <<channel, blocking, app, wire, broker>>

\* BlockingChannel._dispatch_events; what a callback adds meanwhile too.
DispatchEvent ==
    /\ BetweenCallbacks /\ events.phase = "channel" /\ blocking.pending # <<>>
    /\ LET e == Head(blocking.pending) IN
       /\ blocking' = [blocking EXCEPT !.pending = Tail(@),
              !.infos = IF e.type = "cancellation" THEN [@ EXCEPT ![e.tag] = "none"] ELSE @]
       /\ app' = [app EXCEPT !.given = IF e.type = "delivery" THEN @ \cup {e.id} ELSE @]
       /\ events' = [events EXCEPT !.callback = e.type]
    /\ UNCHANGED <<channel, wire, broker>>

EndDispatch ==
    /\ BetweenCallbacks
    /\ events.phase = "end" \/ (events.phase = "channel" /\ blocking.pending = <<>>)
    /\ app' = [app EXCEPT !.call = After(app.dispatcher), !.dispatcher = NoCall]
    /\ events' = [events EXCEPT !.depth = @ - 1, !.phase = "none"]
    /\ UNCHANGED <<channel, blocking, wire, broker>>

CallbackReturns ==
    /\ Dispatching /\ Idle /\ events' = [events EXCEPT !.callback = None]
    /\ UNCHANGED <<channel, blocking, app, wire, broker>>

\* An exception of a callback leaves the dispatch and the call around it.
CallbackRaises ==
    /\ Dispatching /\ Idle
    /\ events' = [events EXCEPT !.depth = 0, !.callback = None, !.phase = "none"]
    /\ app' = [app EXCEPT !.dispatcher = NoCall, !.raised = TRUE]
    /\ UNCHANGED <<channel, blocking, wire, broker>>
-----------------------------------------------------------------------------
(* The broker on its own.                                                  *)

BrokerSends(frame) ==
    /\ channel.state = "open" /\ broker.open
    /\ wire' = [wire EXCEPT !.in = Append(@, frame)]

BrokerDelivers(tag) ==
    /\ tag \in broker.consumers /\ broker.sent < MaxDeliveries
    /\ BrokerSends(Frame("deliver", 0, tag, broker.sent + 1))
    /\ LET id == broker.sent + 1
           acked == tag \in blocking.ackless
       IN broker' = [broker EXCEPT !.sent = id,
                        !.unacked = IF acked THEN @ ELSE @ \cup {id},
                        !.ackless = IF acked THEN @ \cup {id} ELSE @]
    /\ UNCHANGED <<channel, blocking, events, app>>

BrokerCancels(tag) ==
    /\ tag \in broker.consumers /\ broker.notices < MaxNotices
    /\ BrokerSends(Frame("brokerCancel", 0, tag, 0))
    /\ broker' = [broker EXCEPT !.consumers = @ \ {tag}, !.notices = @ + 1]
    /\ UNCHANGED <<channel, blocking, events, app>>

BrokerBlocks ==
    /\ broker.notices < MaxNotices /\ BrokerSends(Frame("blocked", 0, None, 0))
    /\ broker' = [broker EXCEPT !.notices = @ + 1]
    /\ UNCHANGED <<channel, blocking, events, app>>

BrokerCloses ==
    /\ BrokerSends(Frame("close", 0, None, 0))
    /\ broker' = [broker EXCEPT !.open = FALSE, !.consumers = {}, !.unacked = {}]
    /\ UNCHANGED <<channel, blocking, events, app>>
-----------------------------------------------------------------------------
Application ==
    \/ ExchangeMethod \/ QueueMethod \/ TxMethod \/ QosOrRecover \/ Flow
    \/ ConfirmDelivery \/ BasicGet \/ BasicPublish \/ CancelGenerator
    \/ \E id \in Deliveries : Settle(id)
    \/ \E t \in Tags : \/ BasicCancel(t)
                       \/ \E a \in BOOLEAN : BasicConsume(t, a) \/ NewGenerator(t, a)
    \/ StartProcessing("consuming", FALSE)
    \/ \E op \in {"process", "next"}, limited \in BOOLEAN : StartProcessing(op, limited)
    \/ \E t \in Timers : CallLater(t) \/ RemoveTimeout(t)

Frames ==
    \/ OnReply \/ OnGetOk \/ OnGetEmpty \/ OnCancelOk \/ OnReturn \/ OnDeliver \/ OnCancel
    \/ OnChannelClose \/ OnBlocked

Library ==
    \/ CallReturns \/ CallRaises \/ EnterProcessing \/ LoopEnds \/ FlushEnds
    \/ DispatchReady \/ DispatchChannel \/ DispatchEvent \/ EndDispatch \/ EndRound

Next ==
    \/ Application \/ Library \/ Write \/ WriteIgnored \/ Frames \/ LimitExpires
    \/ (\E t \in Timers : TimerReady(t)) \/ OnConnectionClosed
    \/ CallbackReturns \/ CallbackRaises
    \/ BrokerCloses \/ BrokerBlocks \/ \E t \in Tags : BrokerDelivers(t) \/ BrokerCancels(t)

Spec == Init /\ [][Next]_vars

\* The library runs, the socket is written and read, time passes, and callbacks
\* come to an end: while one of them can go on, one of them does.
System ==
    \/ Library \/ Write \/ WriteIgnored \/ Frames \/ LimitExpires
    \/ (\E t \in Timers : TimerReady(t)) \/ CallbackReturns \/ CallbackRaises
FairSpec == Spec /\ WF_vars(System)
-----------------------------------------------------------------------------
(* Properties.                                                             *)

\* A call gets its own result and leaves nothing behind.  Whatever is ready is the
\* reply to the call under way; no reply comes twice ('_CallbackResult was already
\* set'); a returned message is the published one's; the next call, also after one
\* that raised, finds what its assertions ask for.  Between the calls each consumer
\* of the channel is known to BlockingChannel, so that its frames and its pending
\* events find a _ConsumerInfo, and none is left setting up or tearing down.
OwnResults ==
    /\ \A k \in Kinds : blocking.ready[k] \in {0, app.call.n}
    /\ (Turn /\ wire.in # <<>> /\ Got.type \in Kinds) => blocking.ready[Got.type] = 0
    /\ (app.call.op = "publish" /\ Ready("confirm")) =>
           blocking.returned \in {0, app.call.n}
    /\ channel.getting => app.call.op = "get" \/ channel.state # "open"

ConsumersMatch ==
    /\ \A t \in Tags : channel.tags[t] # "none" => blocking.infos[t] # "none"
    /\ \A t \in GeneratorTags : channel.tags[t] # "none" => t = blocking.generator
    /\ (Idle /\ channel.state = "open") =>
           \A t \in Tags : /\ blocking.infos[t] \notin {"setting", "tearing"}
                           /\ blocking.infos[t] = "active" => channel.tags[t] = "consuming"
    /\ channel.state = "open" =>
           \A e \in ToSet(blocking.pending) : e.tag # None => blocking.infos[e.tag] # "none"

CallsCleanUp == OwnResults /\ ConsumersMatch

\* Every delivery that the broker counts as unacknowledged is in one place: on
\* the wire, pending, with the application, or settled on the wire; none is lost
\* or doubled by a cancellation, a nested call or the generator's end.  Events that
\* wait for their dispatch have asked for it, or are being worked through, so that
\* process_data_events does not sleep over them (unless a callback raised out of
\* their dispatch).  The callback of a timeout that was removed never begins,
\* although its event may wait in _ready_events already.
CountOf(seq, id) == Cardinality({i \in DOMAIN seq : seq[i].id = id})
Places(id) ==
    CountOf(wire.in, id) + CountOf(wire.out, id)
        + CountOf(blocking.pending, id) + CountOf(blocking.genEvents, id)
        + Cardinality({id} \cap app.given) + Cardinality({id} \cap {blocking.got})
EventsAccounted ==
    /\ \A t \in app.removed : t # events.callback /\ ~Contains(events.ready, t)
    /\ channel.state = "open" =>
        /\ broker.open => \A id \in broker.unacked : Places(id) = 1
        /\ broker.open => \A id \in broker.ackless : Places(id) <= 1
        /\ blocking.pending # <<>> =>
               "channel" \in events.requested \/ events.phase = "channel" \/ app.raised

\* A call that the broker answers ends, also from a callback, and no call spins; and
\* next() returns once its generator has an event, when no callback calls it.  Such a
\* call stays owed until it is over, so that there is always a time to come at which
\* nobody is owed an end: no call is left, nor one after another in turns.
Owed ==
    \/ app.call.op \in Answered
    \/ app.call.op = "next" /\ ~Dispatching /\ blocking.genEvents # <<>>
CallsEnd == []<>~Owed
=============================================================================
