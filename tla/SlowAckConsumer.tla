-------------------------- MODULE SlowAckConsumer --------------------------
(***************************************************************************)
(* slow_ack_consumer.py running on pika's BlockingConnection.              *)
(*                                                                         *)
(* Three kinds of actor share the state: the main thread (start_consuming, *)
(* its event loop, on_message, and the shutdown in main's try statement),  *)
(* one daemon thread per held message (worker), and the broker with the    *)
(* TCP stream to it.  The broker is not in the repository; it is modelled  *)
(* from the frames pika sends to it and handles from it.                   *)
(*                                                                         *)
(* Init is the state in which basic_consume has returned: the connection   *)
(* and the channel are open and the only consumer is active.               *)
(***************************************************************************)
EXTENDS Integers, Sequences, FiniteSets

CONSTANTS
    Messages,       \* the deliveries the program may receive
    MaxHeld,        \* MAX_HELD
    Prefetch,       \* the prefetch_count given to basic_qos
    Recycle,        \* TRUE: a settled message's identity is published again
    NoMessage       \* the absence of a message

ASSUME MessagesAssumption == IsFiniteSet(Messages) /\ NoMessage \notin Messages
ASSUME LimitsAssumption == MaxHeld \in Nat \ {0} /\ Prefetch \in Nat \ {0}
ASSUME RecycleAssumption == Recycle \in BOOLEAN

VARIABLES
    \* --- the broker (external)
    unpublished,    \* messages the publisher has not sent yet
    queue,          \* messages ready in slow-ack-queue
    unacked,        \* delivered on the channel and not settled
    acked,          \* settled by Basic.Ack
    broker,         \* "consuming", "cancelled", "chanclosed" or "down"
    toClient,       \* frames on their way to the client
    toBroker,       \* frames on their way to the broker
    \* --- pika, main thread
    conn,           \* connection_state: "open", "closing", "closed"
    chan,           \* Channel._state: "open", "closing", "closed"
    closingReason,  \* _closing_reason: "none", "client", "broker", "conn"
    tag,            \* "consuming": the consumer tag is in Channel._consumers,
                    \* "cancelling": in _cancelled too, "gone": in neither
    consumerInfo,   \* state of the _ConsumerInfo, or "none"
    pendingEvents,  \* BlockingChannel._pending_events
    pendingDispatch,\* _channels_pending_dispatch
    readyEvents,    \* BlockingConnection._ready_events
    callbacks,      \* IOLoop._callbacks: ack callbacks handed over by workers
    outbuf,         \* the transport's _tx_buffers
    \* --- the program
    pc,             \* what the main thread is executing
    ret,            \* where a finished flush of the main thread returns to
    batch,          \* ready events left in this _dispatch_connection_events
    cur,            \* the message on_message is handling
    heldCount,      \* held_count[0]
    worker          \* the state of the thread that holds each message

brokerVars == <<unpublished, queue, unacked, acked, broker>>
wires == <<toClient, toBroker>>
connVars == <<conn, chan, closingReason, tag, consumerInfo>>
eventVars == <<pendingEvents, pendingDispatch, readyEvents, callbacks>>
mainVars == <<pc, ret, batch, cur>>
holdVars == <<heldCount, worker>>
vars == <<brokerVars, wires, connVars, eventVars, outbuf, mainVars, holdVars>>

-----------------------------------------------------------------------------
Frame(type) == [type |-> type, msg |-> NoMessage]
MsgFrame(type, m) == [type |-> type, msg |-> m]

\* The entries of _channels_pending_dispatch: the channel's number asks for its
\* _dispatch_events, the negated number only ends the wait for events.
Dispatch == 1
Wake == -1

ClientFrames ==
    {MsgFrame("deliver", m) : m \in Messages} \cup
    {Frame(t) : t \in {"cancel", "cancelok", "chanclose", "chancloseok",
                       "connclose", "conncloseok", "eof"}}
BrokerFrames ==
    {MsgFrame(t, m) : t \in {"ack", "reject"}, m \in Messages} \cup
    {Frame(t) : t \in {"cancel", "chanclose", "chancloseok", "connclose"}}
PendingEvents ==
    {MsgFrame("deliver", m) : m \in Messages} \cup {Frame("cancel")}

\* A thread is counted from the increment in on_message to the decrement at
\* the end of worker(); a thread that could not start, or that died on the
\* exception of add_callback_threadsafe, stays counted.
Counted == {"unstarted", "sleeping", "scheduling", "counting", "crashed"}
WorkerStates == Counted \cup {"none", "done"}
Holders == {m \in Messages : worker[m] \in Counted}

\* Where the main thread is inside the try of main(), where a
\* KeyboardInterrupt is caught.
TryPcs == {"loop", "io", "connevents", "chanevents", "events", "onmessage",
           "increment", "start", "flush"}
\* Where the main thread is inside the loop of _flush_output.
PollPcs == {"io", "flush", "waitcancel", "waitchanclose", "waitconnclose"}
Pcs == TryPcs \cup PollPcs \cup {"stop", "reject", "close", "exit"}

BrokerTypeOK ==
    /\ unpublished \subseteq Messages /\ queue \subseteq Messages
    /\ unacked \subseteq Messages /\ acked \subseteq Messages
    /\ broker \in {"consuming", "cancelled", "chanclosed", "down"}

WireTypeOK == toClient \in Seq(ClientFrames) /\ toBroker \in Seq(BrokerFrames)

ConnTypeOK ==
    /\ conn \in {"open", "closing", "closed"}
    /\ chan \in {"open", "closing", "closed"}
    /\ closingReason \in {"none", "client", "broker", "conn"}
    /\ tag \in {"consuming", "cancelling", "gone"}
    /\ consumerInfo \in {"none", "active", "tearingdown", "cancelled"}

EventTypeOK ==
    /\ pendingEvents \in Seq(PendingEvents)
    /\ pendingDispatch \subseteq {Wake, Dispatch}
    /\ readyEvents \in Seq(Messages) /\ callbacks \in Seq(Messages)

MainTypeOK ==
    /\ pc \in Pcs /\ ret \in {"connevents", "events"}
    /\ batch \in Nat /\ cur \in Messages \cup {NoMessage}
    /\ pc \in {"onmessage", "increment", "start"} => cur \in Messages

HoldTypeOK == heldCount \in Int /\ worker \in [Messages -> WorkerStates]

TypeOK ==
    /\ BrokerTypeOK /\ WireTypeOK /\ ConnTypeOK /\ EventTypeOK
    /\ outbuf \in Seq(BrokerFrames) /\ MainTypeOK /\ HoldTypeOK

Init ==
    /\ unpublished = Messages /\ queue = {} /\ unacked = {} /\ acked = {}
    /\ broker = "consuming" /\ toClient = <<>> /\ toBroker = <<>>
    /\ conn = "open" /\ chan = "open" /\ closingReason = "none"
    /\ tag = "consuming" /\ consumerInfo = "active"
    /\ pendingEvents = <<>> /\ pendingDispatch = {}
    /\ readyEvents = <<>> /\ callbacks = <<>> /\ outbuf = <<>>
    /\ pc = "loop" /\ ret = "events" /\ batch = 0 /\ cur = NoMessage
    /\ heldCount = 0 /\ worker = [m \in Messages |-> "none"]
-----------------------------------------------------------------------------
(* The broker.                                                             *)

\* slow-ack-publisher, or another consumer's requeue.
Publish(m) ==
    /\ m \in unpublished
    /\ unpublished' = unpublished \ {m} /\ queue' = queue \cup {m}
    /\ UNCHANGED <<unacked, acked, broker, wires, connVars, eventVars, outbuf,
                   mainVars, holdVars>>

\* A settled message leaves the system; its identity stands for a new one.
Recycled(m) ==
    /\ Recycle /\ m \in acked /\ worker[m] \in {"none", "done"}
    /\ acked' = acked \ {m} /\ unpublished' = unpublished \cup {m}
    /\ worker' = [worker EXCEPT ![m] = "none"]
    /\ UNCHANGED <<queue, unacked, broker, wires, connVars, eventVars, outbuf,
                   mainVars, heldCount>>

\* Deliveries stop when prefetch_count of them are unacknowledged.
Deliver(m) ==
    /\ broker = "consuming" /\ m \in queue
    /\ Cardinality(unacked) < Prefetch
    /\ queue' = queue \ {m} /\ unacked' = unacked \cup {m}
    /\ toClient' = Append(toClient, MsgFrame("deliver", m))
    /\ UNCHANGED <<unpublished, acked, broker, toBroker, connVars, eventVars,
                   outbuf, mainVars, holdVars>>

Requeue(status) ==
    /\ broker' = status
    /\ queue' = queue \cup unacked /\ unacked' = {}

\* An ack or reject of a delivery the channel does not know is a channel
\* error (PRECONDITION_FAILED).
BrokerSettle(f) ==
    /\ f.type \in {"ack", "reject"}
    /\ IF f.msg \in unacked
       THEN /\ unacked' = unacked \ {f.msg}
            /\ IF f.type = "ack"
               THEN acked' = acked \cup {f.msg} /\ UNCHANGED queue
               ELSE queue' = queue \cup {f.msg} /\ UNCHANGED acked
            /\ UNCHANGED <<broker, toClient>>
       ELSE /\ Requeue("chanclosed") /\ UNCHANGED acked
            /\ toClient' = Append(toClient, Frame("chanclose"))

BrokerClosing(f) ==
    /\ UNCHANGED acked
    /\ \/ /\ f.type = "cancel"
          /\ broker' = "cancelled" /\ UNCHANGED <<queue, unacked>>
          /\ toClient' = Append(toClient, Frame("cancelok"))
       \/ /\ f.type = "chanclose"
          /\ Requeue("chanclosed")
          /\ toClient' = Append(toClient, Frame("chancloseok"))
       \/ /\ f.type = "connclose"
          /\ Requeue("down")
          /\ toClient' = Append(toClient, Frame("conncloseok"))

\* A channel the broker closed ignores all but the close handshakes.
BrokerIgnores(f) ==
    \/ f.type = "chancloseok"
    \/ broker = "chanclosed" /\ f.type \in {"ack", "reject", "cancel"}

BrokerReads ==
    /\ toBroker # <<>> /\ broker # "down"
    /\ LET f == Head(toBroker) IN
       IF BrokerIgnores(f)
       THEN UNCHANGED <<queue, unacked, acked, broker, toClient>>
       ELSE BrokerSettle(f) \/ BrokerClosing(f)
    /\ toBroker' = Tail(toBroker)
    /\ UNCHANGED <<unpublished, connVars, eventVars, outbuf, mainVars, holdVars>>

\* The queue is deleted (the clean target of single.mk) or its leader is lost:
\* the broker cancels the consumer; what was delivered can still be acked.
BrokerCancels ==
    /\ broker = "consuming" /\ broker' = "cancelled"
    /\ toClient' = Append(toClient, Frame("cancel"))
    /\ UNCHANGED <<unpublished, queue, unacked, acked, toBroker, connVars,
                   eventVars, outbuf, mainVars, holdVars>>

\* The broker's own consumer timeout closes the channel.
ConsumerTimeout ==
    /\ broker \in {"consuming", "cancelled"} /\ unacked # {}
    /\ Requeue("chanclosed")
    /\ toClient' = Append(toClient, Frame("chanclose"))
    /\ UNCHANGED <<unpublished, acked, toBroker, connVars, eventVars, outbuf,
                   mainVars, holdVars>>

\* The broker closes the connection, or the stream is lost with what is on it.
ConnectionLost ==
    /\ broker # "down" /\ Requeue("down")
    /\ \/ toClient' = Append(toClient, Frame("connclose"))
       \/ toClient' = <<Frame("eof")>>
    /\ toBroker' = <<>>
    /\ UNCHANGED <<unpublished, acked, connVars, eventVars, outbuf, mainVars,
                   holdVars>>

-----------------------------------------------------------------------------
(* pika: the frames the main thread reads while it polls.                  *)

\* Channel._transition_to_closed and BlockingChannel._on_channel_closed: only
\* a close by the broker empties the blocking channel.
ChannelClosed(reason) ==
    /\ chan' = "closed" /\ closingReason' = reason
    /\ tag' = "gone"
    /\ IF reason = "broker"
       THEN /\ pendingEvents' = <<>> /\ consumerInfo' = "none"
            /\ pendingDispatch' = pendingDispatch \cup {Wake}
       ELSE UNCHANGED <<pendingEvents, consumerInfo, pendingDispatch>>

\* Mutant: the test of Channel._cancelled is forgotten.
OnDeliverIgnoringCancel(m) ==
    /\ UNCHANGED <<connVars, readyEvents, outbuf>>
    /\ IF tag # "gone"
       THEN /\ pendingEvents' = Append(pendingEvents, MsgFrame("deliver", m))
            /\ pendingDispatch' = pendingDispatch \cup {Dispatch}
       ELSE UNCHANGED <<pendingEvents, pendingDispatch>>

\* Channel._on_deliver, then _on_consumer_message_delivery.
OnDeliver(m) ==
    /\ UNCHANGED <<connVars, readyEvents>>
    /\ \/ /\ chan # "closed" /\ tag = "cancelling"
          /\ outbuf' = IF chan = "open" THEN Append(outbuf, MsgFrame("reject", m))
                       ELSE outbuf
          /\ UNCHANGED <<pendingEvents, pendingDispatch>>
       \/ /\ chan = "closed" \/ tag = "gone"
          /\ UNCHANGED <<pendingEvents, pendingDispatch, outbuf>>
       \/ /\ chan # "closed" /\ tag = "consuming"
          /\ pendingEvents' = Append(pendingEvents, MsgFrame("deliver", m))
          /\ pendingDispatch' = pendingDispatch \cup {Dispatch} /\ UNCHANGED outbuf

\* Basic.Cancel: Channel._on_cancel, then _on_consumer_cancelled_by_broker.
OnCancel ==
    /\ IF chan = "closed"
       THEN UNCHANGED <<tag, consumerInfo, pendingEvents, pendingDispatch>>
       ELSE /\ tag' = IF tag = "cancelling" THEN tag ELSE "gone"
            /\ consumerInfo' = IF consumerInfo = "tearingdown" THEN consumerInfo
                               ELSE "cancelled"
            /\ pendingEvents' = Append(pendingEvents, Frame("cancel"))
            /\ pendingDispatch' = pendingDispatch \cup {Dispatch}
    /\ UNCHANGED <<conn, chan, closingReason, readyEvents, outbuf>>

\* Basic.CancelOk: Channel._on_cancelok.
OnCancelOk ==
    /\ tag' = IF chan = "closed" THEN tag ELSE "gone"
    /\ UNCHANGED <<conn, chan, closingReason, consumerInfo, pendingEvents,
                   pendingDispatch, readyEvents, outbuf>>

\* Channel.Close: Channel._on_close_from_broker; a channel that is closing
\* itself still waits for its own CloseOk.
OnChannelClose ==
    /\ UNCHANGED <<conn, readyEvents>>
    /\ IF chan = "closed"
       THEN UNCHANGED <<chan, closingReason, tag, consumerInfo,
                        pendingEvents, pendingDispatch, outbuf>>
       ELSE /\ outbuf' = Append(outbuf, Frame("chancloseok"))
            /\ IF chan = "closing"
               THEN /\ closingReason' = "broker"
                    /\ UNCHANGED <<chan, tag, consumerInfo,
                                   pendingEvents, pendingDispatch>>
               ELSE ChannelClosed("broker")

\* Channel.CloseOk: Channel._on_closeok.
OnChannelCloseOk ==
    /\ ChannelClosed(closingReason)
    /\ UNCHANGED <<conn, readyEvents, outbuf>>

\* Connection.Close, Connection.CloseOk or the loss of the stream:
\* Connection._on_stream_terminated closes every channel and reports the close.
OnStreamTerminated ==
    /\ conn' = "closed" /\ outbuf' = <<>> /\ UNCHANGED readyEvents
    /\ IF chan = "closed"
       THEN UNCHANGED <<chan, closingReason, tag, consumerInfo,
                        pendingEvents, pendingDispatch>>
       ELSE ChannelClosed("conn")

IoRead ==
    /\ pc \in PollPcs /\ conn # "closed" /\ toClient # <<>>
    /\ LET f == Head(toClient) IN
       \/ f.type = "deliver" /\ OnDeliver(f.msg)
       \/ f.type = "cancel" /\ OnCancel
       \/ f.type = "cancelok" /\ OnCancelOk
       \/ f.type = "chanclose" /\ OnChannelClose
       \/ f.type = "chancloseok" /\ OnChannelCloseOk
       \/ f.type \in {"connclose", "conncloseok", "eof"} /\ OnStreamTerminated
    /\ toClient' = Tail(toClient)
    /\ UNCHANGED <<brokerVars, toBroker, callbacks, mainVars, holdVars>>

\* The transport sends what is buffered; nobody reads the end of a lost stream.
IoWrite ==
    /\ pc \in PollPcs /\ conn # "closed" /\ outbuf # <<>>
    /\ outbuf' = <<>>
    /\ toBroker' = IF broker = "down" THEN toBroker ELSE toBroker \o outbuf
    /\ UNCHANGED <<brokerVars, toClient, connVars, eventVars, mainVars, holdVars>>

\* Mutant: the new events replace those that were not dispatched yet.
IoCallbacksOverwrite ==
    /\ pc \in PollPcs /\ conn # "closed" /\ callbacks # <<>>
    /\ readyEvents' = callbacks /\ callbacks' = <<>>
    /\ UNCHANGED <<brokerVars, wires, connVars, pendingEvents, pendingDispatch,
                   outbuf, mainVars, holdVars>>

\* IOLoop.process_timeouts: a thread-safe callback calls call_later(0), whose
\* timer fires in the same pass and appends the event.
IoCallbacks ==
    /\ pc \in PollPcs /\ conn # "closed" /\ callbacks # <<>>
    /\ readyEvents' = readyEvents \o callbacks /\ callbacks' = <<>>
    /\ UNCHANGED <<brokerVars, wires, connVars, pendingEvents, pendingDispatch,
                   outbuf, mainVars, holdVars>>

-----------------------------------------------------------------------------
(* The main thread: start_consuming and its event loop.                    *)

Goto(label) == pc' = label /\ UNCHANGED <<ret, batch, cur>>

\* An error out of _flush_output on a dead connection: _cleanup() drops the
\* events nobody dispatched yet.
Cleanup == readyEvents' = <<>> /\ UNCHANGED <<pendingEvents, pendingDispatch, callbacks>>

\* The error that BlockingChannel raises once the broker closed the channel.
ClosedByBroker == chan = "closed" /\ closingReason = "broker"

\* basic_ack writes the frame, then _flush_output polls until it is sent.
AckAndFlush(m, label) ==
    /\ outbuf' = Append(outbuf, MsgFrame("ack", m))
    /\ pc' = "flush" /\ ret' = label /\ cur' = NoMessage

\* Mutant: while True.
LoopForever ==
    /\ pc = "loop" /\ Goto("io")
    /\ UNCHANGED <<brokerVars, wires, connVars, eventVars, outbuf, holdVars>>

\* start_consuming: while self._consumer_infos.
Loop ==
    /\ pc = "loop"
    /\ Goto(IF consumerInfo = "none" THEN "close" ELSE "io")
    /\ UNCHANGED <<brokerVars, wires, connVars, eventVars, outbuf, holdVars>>

\* Mutant: only channel events end the wait.
IoDoneOnChannelEvents ==
    /\ pc = "io"
    /\ \/ /\ conn = "closed" /\ Cleanup /\ Goto("close")
       \/ /\ conn # "closed" /\ outbuf = <<>> /\ pendingDispatch # {}
          /\ pc' = "connevents" /\ batch' = Len(readyEvents)
          /\ UNCHANGED <<ret, cur, eventVars>>
    /\ UNCHANGED <<brokerVars, wires, connVars, outbuf, holdVars>>

\* process_data_events(None): poll until there is an event to dispatch and
\* nothing to write, or until the connection is closed.
IoDone ==
    /\ pc = "io"
    /\ \/ /\ conn = "closed" /\ Cleanup /\ Goto("close")
       \/ /\ conn # "closed" /\ outbuf = <<>>
          /\ pendingDispatch # {} \/ readyEvents # <<>>
          /\ pc' = "connevents" /\ batch' = Len(readyEvents)
          /\ UNCHANGED <<ret, cur, eventVars>>
    /\ UNCHANGED <<brokerVars, wires, connVars, outbuf, holdVars>>

\* _dispatch_connection_events: only the events that were ready when it
\* started; each is ack_message(channel, delivery_tag).
DispatchReady ==
    /\ pc = "connevents"
    /\ IF batch = 0 \/ readyEvents = <<>>
       THEN Goto("chanevents") /\ UNCHANGED <<readyEvents, outbuf>>
       ELSE /\ readyEvents' = Tail(readyEvents)
            /\ batch' = batch - 1
            /\ IF chan = "open"
               THEN AckAndFlush(Head(readyEvents), "connevents")
               ELSE UNCHANGED <<pc, ret, cur, outbuf>>
    /\ UNCHANGED <<brokerVars, wires, connVars, pendingEvents, pendingDispatch,
                   callbacks, holdVars>>

\* _dispatch_channel_events, then the check that ends _process_data_events.
DispatchChannel ==
    /\ pc = "chanevents"
    /\ pendingDispatch' = {}
    /\ Goto(IF Dispatch \in pendingDispatch /\ chan = "open" THEN "events"
            ELSE IF ClosedByBroker THEN "close" ELSE "loop")
    /\ UNCHANGED <<brokerVars, wires, connVars, pendingEvents, readyEvents,
                   callbacks, outbuf, holdVars>>

\* BlockingChannel._dispatch_events: while self._pending_events.
DispatchEvent ==
    /\ pc = "events"
    /\ IF pendingEvents = <<>>
       THEN /\ Goto(IF ClosedByBroker THEN "close" ELSE "loop")
            /\ UNCHANGED <<pendingEvents, consumerInfo>>
       ELSE LET evt == Head(pendingEvents) IN
            /\ pendingEvents' = Tail(pendingEvents)
            /\ IF evt.type = "deliver"
               THEN pc' = "onmessage" /\ cur' = evt.msg /\ UNCHANGED consumerInfo
               ELSE consumerInfo' = "none" /\ UNCHANGED <<pc, cur>>
            /\ UNCHANGED <<ret, batch>>
    /\ UNCHANGED <<brokerVars, wires, conn, chan, closingReason, tag, pendingDispatch,
                   readyEvents, callbacks, outbuf, holdVars>>

\* Mutant: current > MAX_HELD.
OnMessagePastLimit ==
    /\ pc = "onmessage"
    /\ IF heldCount > MaxHeld
       THEN AckAndFlush(cur, "events") /\ UNCHANGED batch
       ELSE Goto("increment") /\ UNCHANGED outbuf
    /\ UNCHANGED <<brokerVars, wires, connVars, eventVars, holdVars>>

\* on_message: held_count is read under the lock, the branch is taken after it
\* is released.
OnMessage ==
    /\ pc = "onmessage"
    /\ IF heldCount >= MaxHeld
       THEN AckAndFlush(cur, "events") /\ UNCHANGED batch
       ELSE Goto("increment") /\ UNCHANGED outbuf
    /\ UNCHANGED <<brokerVars, wires, connVars, eventVars, holdVars>>

\* on_message takes the lock again to increment.
OnMessageIncrement ==
    /\ pc = "increment" /\ Goto("start")
    /\ heldCount' = heldCount + 1
    /\ worker' = [worker EXCEPT ![cur] = "unstarted"]
    /\ UNCHANGED <<brokerVars, wires, connVars, eventVars, outbuf>>

\* t.start(), which raises RuntimeError when no thread can be created.
OnMessageStart ==
    /\ pc = "start"
    /\ \/ worker' = [worker EXCEPT ![cur] = "sleeping"] /\ pc' = "events"
       \/ UNCHANGED worker /\ pc' = "close"
    /\ cur' = NoMessage /\ UNCHANGED <<ret, batch>>
    /\ UNCHANGED <<brokerVars, wires, connVars, eventVars, outbuf, heldCount>>

\* The end of BlockingChannel._flush_output.
FlushDone ==
    /\ pc = "flush"
    /\ \/ conn = "closed" /\ Cleanup /\ Goto("close")
       \/ /\ conn # "closed" /\ outbuf = <<>>
          /\ Goto(IF ClosedByBroker THEN "close" ELSE ret) /\ UNCHANGED eventVars
    /\ UNCHANGED <<brokerVars, wires, connVars, outbuf, holdVars>>

-----------------------------------------------------------------------------
(* The main thread: KeyboardInterrupt and connection.close().              *)

Interrupt ==
    /\ pc \in TryPcs /\ pc' = "stop"
    /\ cur' = NoMessage /\ batch' = 0 /\ UNCHANGED ret
    /\ UNCHANGED <<brokerVars, wires, connVars, eventVars, outbuf, holdVars>>

\* On a channel that is not open basic_cancel raises and forgets the consumer.
CancelFails ==
    /\ consumerInfo' = "none" /\ pendingDispatch' = pendingDispatch \cup {Wake}
    /\ pendingEvents' = IF consumerInfo = "cancelled" THEN <<>> ELSE pendingEvents
    /\ UNCHANGED <<conn, chan, closingReason, tag, readyEvents,
                   callbacks>>

\* _cancel_all_consumers and the start of basic_cancel.
Stop ==
    /\ pc = "stop"
    /\ \/ /\ consumerInfo = "none" /\ Goto("close")
          /\ UNCHANGED <<connVars, eventVars>>
       \/ /\ consumerInfo # "none" /\ chan # "open"
          /\ CancelFails /\ Goto("close")
       \/ /\ consumerInfo # "none" /\ chan = "open"
          /\ consumerInfo' = "tearingdown" /\ Goto("reject")
          /\ UNCHANGED <<conn, chan, closingReason, tag, eventVars>>
    /\ UNCHANGED <<brokerVars, wires, outbuf, holdVars>>

\* Mutant: the cancellation by the broker is taken for a delivery.
RejectEveryEvent ==
    /\ pc = "reject" /\ pendingEvents # <<>>
    /\ pendingEvents' = Tail(pendingEvents)
    /\ outbuf' = Append(outbuf, MsgFrame("reject", Head(pendingEvents).msg))
    /\ UNCHANGED <<brokerVars, wires, connVars, pendingDispatch, readyEvents,
                   callbacks, mainVars, holdVars>>

\* basic_cancel rejects what on_message has not seen; _remove_pending_deliveries
\* also drops a cancellation by the broker.
RejectPending ==
    /\ pc = "reject" /\ pendingEvents # <<>>
    /\ pendingEvents' = Tail(pendingEvents)
    /\ outbuf' = IF Head(pendingEvents).type = "deliver"
                 THEN Append(outbuf, MsgFrame("reject", Head(pendingEvents).msg))
                 ELSE outbuf
    /\ UNCHANGED <<brokerVars, wires, connVars, pendingDispatch, readyEvents,
                   callbacks, mainVars, holdVars>>

\* Channel.basic_cancel: nothing is sent for a consumer that is already gone.
SendCancel ==
    /\ pc = "reject" /\ pendingEvents = <<>> /\ Goto("waitcancel")
    /\ IF tag = "consuming"
       THEN tag' = "cancelling" /\ outbuf' = Append(outbuf, Frame("cancel"))
       ELSE UNCHANGED <<tag, outbuf>>
    /\ UNCHANGED <<brokerVars, wires, conn, chan, closingReason, consumerInfo,
                   eventVars, holdVars>>

\* The end of basic_cancel: the reply came, or the consumer is gone without it.
CancelDone ==
    /\ pc = "waitcancel" /\ Goto("close")
    /\ consumerInfo' = "none" /\ pendingDispatch' = pendingDispatch \cup {Wake}
    /\ \/ conn = "closed" /\ readyEvents' = <<>> /\ UNCHANGED pendingEvents
       \/ /\ conn # "closed" /\ outbuf = <<>> /\ (chan = "closed" \/ tag = "gone")
          /\ pendingEvents' = <<>> /\ UNCHANGED readyEvents
    /\ UNCHANGED <<brokerVars, wires, conn, chan, closingReason, tag, callbacks, outbuf,
                   holdVars>>

\* BlockingConnection.close(), from the finally clause of main(): cancel the
\* consumers, close the channel, close the connection.  On a connection that
\* is not open it raises ConnectionWrongStateError and the program ends.
Close ==
    /\ pc = "close"
    /\ \/ conn # "open" /\ Goto("exit") /\ UNCHANGED <<connVars, outbuf>>
       \/ /\ conn = "open" /\ chan = "open" /\ consumerInfo # "none"
          /\ Goto("stop") /\ UNCHANGED <<connVars, outbuf>>
       \/ /\ conn = "open" /\ chan = "open" /\ consumerInfo = "none"
          /\ chan' = "closing" /\ closingReason' = "client"
          /\ outbuf' = Append(outbuf, Frame("chanclose")) /\ Goto("waitchanclose")
          /\ UNCHANGED <<conn, tag, consumerInfo>>
       \/ /\ conn = "open" /\ chan # "open"
          /\ conn' = "closing"
          /\ outbuf' = Append(outbuf, Frame("connclose")) /\ Goto("waitconnclose")
          /\ UNCHANGED <<chan, closingReason, tag, consumerInfo>>
    /\ UNCHANGED <<brokerVars, wires, eventVars, holdVars>>

\* The end of BlockingChannel.close(); its finally clause empties the channel.
ChannelCloseDone ==
    /\ pc = "waitchanclose" /\ pendingEvents' = <<>>
    /\ \/ conn = "closed" /\ readyEvents' = <<>> /\ Goto("exit")
       \/ /\ conn # "closed" /\ chan = "closed" /\ outbuf = <<>>
          /\ UNCHANGED readyEvents /\ Goto("close")
    /\ UNCHANGED <<brokerVars, wires, connVars, pendingDispatch, callbacks, outbuf,
                   holdVars>>

ConnectionCloseDone ==
    /\ pc = "waitconnclose" /\ conn = "closed"
    /\ Cleanup /\ Goto("exit")
    /\ UNCHANGED <<brokerVars, wires, connVars, outbuf, holdVars>>

-----------------------------------------------------------------------------
(* The worker threads.  They are daemons: none runs after the main thread. *)

\* time.sleep(delay) returns.
DelayOver(m) ==
    /\ pc # "exit" /\ worker[m] = "sleeping"
    /\ worker' = [worker EXCEPT ![m] = "scheduling"]
    /\ UNCHANGED <<brokerVars, wires, connVars, eventVars, outbuf, mainVars,
                   heldCount>>

\* Mutant: the thread does not sleep.
ScheduleAckAtOnce(m) ==
    /\ pc # "exit" /\ worker[m] = "sleeping" /\ conn # "closed"
    /\ worker' = [worker EXCEPT ![m] = "counting"]
    /\ callbacks' = Append(callbacks, m)
    /\ UNCHANGED <<brokerVars, wires, connVars, pendingEvents, pendingDispatch,
                   readyEvents, outbuf, mainVars, heldCount>>

\* add_callback_threadsafe, under _cleanup_mutex.
ScheduleAck(m) ==
    /\ pc # "exit" /\ worker[m] = "scheduling"
    /\ IF conn = "closed"
       THEN worker' = [worker EXCEPT ![m] = "crashed"] /\ UNCHANGED callbacks
       ELSE /\ worker' = [worker EXCEPT ![m] = "counting"]
            /\ callbacks' = Append(callbacks, m)
    /\ UNCHANGED <<brokerVars, wires, connVars, pendingEvents, pendingDispatch,
                   readyEvents, outbuf, mainVars, heldCount>>

\* Mutant: the thread ends without the decrement.
WorkerForgetsDecrement(m) ==
    /\ pc # "exit" /\ worker[m] = "counting"
    /\ worker' = [worker EXCEPT ![m] = "done"]
    /\ UNCHANGED <<brokerVars, wires, connVars, eventVars, outbuf, mainVars,
                   heldCount>>

\* worker: held_count[0] -= 1.
WorkerDecrement(m) ==
    /\ pc # "exit" /\ worker[m] = "counting"
    /\ heldCount' = heldCount - 1
    /\ worker' = [worker EXCEPT ![m] = "done"]
    /\ UNCHANGED <<brokerVars, wires, connVars, eventVars, outbuf, mainVars>>

-----------------------------------------------------------------------------
BrokerStep == (\E m \in Messages : Deliver(m)) \/ BrokerReads

Failure == BrokerCancels \/ ConsumerTimeout \/ ConnectionLost

MainThread ==
    \/ IoRead \/ IoWrite \/ IoCallbacks
    \/ Loop \/ IoDone \/ DispatchReady \/ DispatchChannel \/ DispatchEvent
    \/ OnMessage \/ OnMessageIncrement \/ OnMessageStart \/ FlushDone
    \/ Stop \/ RejectPending \/ SendCancel \/ CancelDone
    \/ Close \/ ChannelCloseDone \/ ConnectionCloseDone

Worker(m) == DelayOver(m) \/ ScheduleAck(m) \/ WorkerDecrement(m)

\* The program has ended and the broker has nothing left to do for it.
Terminated == pc = "exit" /\ UNCHANGED vars

Next ==
    \/ \E m \in Messages : Publish(m) \/ Recycled(m) \/ Worker(m)
    \/ BrokerStep \/ Failure \/ MainThread \/ Interrupt \/ Terminated

Spec == Init /\ [][Next]_vars

\* poll() returns whenever a descriptor is ready, so each kind of I/O and each
\* thread gets its turn; deliveries and replies arrive; nothing forces a
\* publication, a failure or an interrupt.
Fairness ==
    /\ WF_vars(MainThread)
    /\ WF_vars(IoRead) /\ WF_vars(IoWrite) /\ WF_vars(IoCallbacks)
    /\ WF_vars(BrokerReads)
    /\ \A m \in Messages : WF_vars(Deliver(m)) /\ WF_vars(Worker(m))

FairSpec == Spec /\ Fairness

-----------------------------------------------------------------------------
(* Properties.                                                             *)

\* held_count never exceeds MAX_HELD although on_message tests it in one
\* critical section and increments it in another: only the main thread
\* increments, and a worker that gets in between can only decrement.
HeldWithinLimit == heldCount <= MaxHeld

\* held_count is the number of threads between the increment in on_message and
\* the decrement that ends worker(), in every interleaving of their steps.
HeldCountAccurate == heldCount = Cardinality(Holders)

\* Where the ack obligation of a delivery can be while the program runs: a
\* delivery on_message has not dealt with, a thread that holds it, an ack that
\* was handed over or written, a reject.
Positions(seq, e) == {i \in DOMAIN seq : seq[i] = e}
Occurrences(seq, e) == Cardinality(Positions(seq, e))
Arriving(m) ==
    Occurrences(toClient, MsgFrame("deliver", m))
    + Occurrences(pendingEvents, MsgFrame("deliver", m))
    + (IF pc \in {"onmessage", "increment"} /\ cur = m THEN 1 ELSE 0)
InThread(m) == IF worker[m] \in {"unstarted", "sleeping", "scheduling"} THEN 1 ELSE 0
AckReady(m) == Occurrences(callbacks, m) + Occurrences(readyEvents, m)
Sent(type, m) ==
    Occurrences(outbuf, MsgFrame(type, m)) + Occurrences(toBroker, MsgFrame(type, m))
Settling(m) == Sent("ack", m) + Sent("reject", m)
Places(m) == Arriving(m) + InThread(m) + AckReady(m) + Settling(m)

Unacked(m) == IF m \in unacked THEN 1 ELSE 0
\* The broker has the channel open.
ChannelKnown == broker \in {"consuming", "cancelled"}

\* While the program consumes on an open channel, every delivery the broker
\* counts as unacknowledged is in exactly one place on its way to an ack
\* (never forgotten, never settled twice), and nothing else is on that way.
DeliveryInOnePlace ==
    (pc \in TryPcs /\ chan = "open" /\ ChannelKnown) =>
        \A m \in Messages : Places(m) = Unacked(m)

\* Also through an interrupt and the shutdown: what the program sends to a
\* broker that still has the channel open settles each delivery at most once,
\* and only one that is unacknowledged (else PRECONDITION_FAILED closes it).
SettledAtMostOnce ==
    ChannelKnown => \A m \in Messages : Settling(m) <= Unacked(m)

\* No delivery is forgotten, and none is settled twice.
DeliveriesAccounted == DeliveryInOnePlace /\ SettledAtMostOnce

\* The assertion that ends BlockingChannel.basic_cancel: no delivery got into
\* _pending_events between the purge and the reply of the broker.
NoPendingAfterCancel ==
    (pc = "waitcancel" /\ conn # "closed" /\ (chan = "closed" \/ tag = "gone")) =>
        \A i \in DOMAIN pendingEvents : pendingEvents[i].type # "deliver"

\* on_message's basic_ack has no is_open test, unlike ack_message: it never
\* finds the channel closed, whatever arrived during the flush of an earlier
\* ack in the same _dispatch_events loop.
MessageOnOpenChannel ==
    pc \in {"onmessage", "increment"} => chan = "open" /\ conn = "open"

\* Every event that is looked up in _consumer_infos finds its consumer there
\* (no KeyError out of poll() or out of _dispatch_events), also when the
\* cancellations of the two sides cross.
ConsumerInfoFound ==
    /\ (pc = "events" /\ pendingEvents # <<>>) => consumerInfo # "none"
    /\ (pc \in PollPcs /\ chan # "closed" /\ toClient # <<>>) =>
           LET f == Head(toClient) IN
           (f.type = "cancel" \/ (f.type = "deliver" /\ tag = "consuming")) =>
               consumerInfo # "none"

\* An event meets the channel and the consumer it is for, or is not dispatched,
\* however the callbacks, the flushes, the cancellation and the close interleave.
EventsFindTarget == NoPendingAfterCancel /\ MessageOnOpenChannel /\ ConsumerInfoFound

\* A delivery whose hold is over is no longer unacknowledged in the end: it was
\* acked, or the broker took it back.  The while loop of _dispatch_events can
\* keep ready acks waiting, but only until prefetch_count of them wait.
HoldEndsInSettlement ==
    \A m \in Messages : worker[m] = "sleeping" ~> m \notin unacked

\* Once the broker stopped delivering (it cancelled the consumer, closed the
\* channel or is gone), and once the user interrupted it, the program ends.
ProgramEnds == (broker # "consuming" \/ pc = "stop") ~> pc = "exit"

\* The claim of README.md that at most 1000 messages have their ack held
\* simultaneously, read as what the broker sees: deliveries that on_message
\* gave to a thread and that are still unacknowledged.
HeldInFlightWithinLimit ==
    Cardinality({m \in unacked : worker[m] # "none"}) <= MaxHeld

\* Acks on their way: handed over by a worker or written by the main thread.
AcksDue == {m \in Messages : AckReady(m) + Sent("ack", m) > 0}

DelayIsOver == {m \in Messages : worker[m] \in {"scheduling", "counting", "crashed"}}

Ledger == INSTANCE HoldLedger
    WITH held <- Holders, ripe <- DelayIsOver, due <- AcksDue

\* Every behaviour of the program, with its threads, its event queues and every
\* failure of the broker, is a behaviour of the ledger: an ack the broker
\* records was held for its whole delay or met a full house in on_message.
ImplementsLedger == Ledger!LedgerSpec
=============================================================================
