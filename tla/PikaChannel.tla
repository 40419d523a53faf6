---------------------------- MODULE PikaChannel ----------------------------
(***************************************************************************)
(* channel.Channel: synchronous methods one at a time with the others      *)
(* queued behind them, consumers and their cancellation from either side,  *)
(* and the closing of the channel from either side, against a broker that  *)
(* takes the frames of one connection in order.                            *)
(*                                                                         *)
(* One action is one call of the application or one frame with all its     *)
(* callbacks.  The application's own callbacks do nothing.  Basic.Get and  *)
(* publishing are in BlockingCalls, contents in InboundStream.             *)
(***************************************************************************)
EXTENDS Integers, Sequences, FiniteSets, SequencesExt

CONSTANTS
    Tags,           \* consumer tags the application uses, again too
    MaxCalls,       \* bound on the synchronous methods it calls
    MaxDeliveries   \* bound on the deliveries of the broker

ASSUME BoundsAssumption == MaxCalls \in Nat /\ MaxDeliveries \in Nat

None == [m |-> "None"]
Open == [m |-> "Channel.Open"]
ChannelClose == [m |-> "Channel.Close"]
CloseOk == [m |-> "Channel.CloseOk"]
\* Exchange, queue and confirm methods may be told not to wait for their reply;
\* the others (tx, qos, recover, flow) always wait.
Other(family, nowait) == [m |-> family, nowait |-> nowait]
Families == {"Declaring", "Waiting"}
Consume(tag, life, auto) ==
    [m |-> "Basic.Consume", tag |-> tag, life |-> life, auto |-> auto]
Cancel(tag, nowait) == [m |-> "Basic.Cancel", tag |-> tag, nowait |-> nowait]
Tagged(m, tag) == [m |-> m, tag |-> tag]

\* The reply that unblocks the channel; for consumers it names the tag.
Reply(request) ==
    CASE request.m = "Channel.Open" -> [m |-> "Channel.OpenOk"]
      [] request.m = "Channel.Close" -> CloseOk
      [] request.m = "Basic.Consume" -> Tagged("Basic.ConsumeOk", request.tag)
      [] request.m = "Basic.Cancel" -> Tagged("Basic.CancelOk", request.tag)
      [] OTHER -> Tagged("Ok", request.m)
Synchronous ==
    {"Channel.Open", "Channel.Close", "Basic.Consume", "Basic.Cancel"} \cup Families
\* validators.rpc_completion_callback: without a callback, nowait.
Awaits(request) ==
    request.m \in Synchronous
        /\ (request.m \in {"Basic.Cancel"} \cup Families => ~request.nowait)

VARIABLES
    state,          \* _state
    blocking,       \* the request of _blocking, whose reply has callbacks
    blocked,        \* _blocked
    consumers,      \* tags of _consumers
    consumersWithNoack,
    cancelled,      \* _cancelled
    cancelCallbacks,\* tags whose CancelOk callback of the user is registered
    life,           \* how often each tag was consumed (for the properties)
    toBroker,       \* frames on the wire
    toClient,
    brokerState,    \* the broker's end of the channel
    brokerConsumers,\* the broker's consumers: tag -> life, 0 for none
    calls,          \* synchronous calls so far
    deliveries      \* deliveries so far

rpcVars == <<blocking, blocked, toBroker>>
consumerVars == <<consumers, consumersWithNoack, cancelled, cancelCallbacks, life>>
brokerVars == <<brokerState, brokerConsumers, deliveries>>
vars == <<state, rpcVars, consumerVars, toClient, brokerVars, calls>>

Requests == {Open, ChannelClose}
                \cup {Other(f, w) : f \in Families, w \in BOOLEAN}
                \cup {Consume(t, n, a) : t \in Tags, n \in 1..MaxCalls, a \in BOOLEAN}
                \cup {Cancel(t, w) : t \in Tags, w \in BOOLEAN}

TypeOK ==
    /\ state \in {"OPENING", "OPEN", "CLOSING", "CLOSED"}
    /\ blocking \in Requests \cup {None} /\ blocked \in Seq(Requests)
    /\ blocking = None => blocked = <<>> \/ state = "CLOSED"
    /\ consumers \subseteq Tags /\ consumersWithNoack \subseteq Tags
    /\ cancelled \subseteq Tags /\ cancelCallbacks \subseteq Tags
    /\ life \in [Tags -> 0..MaxCalls]
    /\ toBroker \in Seq(Requests \cup {CloseOk} \cup {Tagged("Basic.Reject", t) : t \in Tags})
    /\ brokerState \in {"none", "open", "closing", "closed"}
    /\ brokerConsumers \in [Tags -> 0..MaxCalls]
    /\ calls \in 0..MaxCalls /\ deliveries \in 0..MaxDeliveries

\* Channel.open() has been called.
Init ==
    /\ state = "OPENING" /\ blocking = Open /\ blocked = <<>>
    /\ consumers = {} /\ consumersWithNoack = {} /\ cancelled = {}
    /\ cancelCallbacks = {} /\ life = [t \in Tags |-> 0]
    /\ toBroker = <<Open>> /\ toClient = <<>>
    /\ brokerState = "none" /\ brokerConsumers = [t \in Tags |-> 0]
    /\ calls = 0 /\ deliveries = 0
-----------------------------------------------------------------------------
(* _rpc and _on_synchronous_complete, on what is to become of rpcVars.     *)

Rpc0 == [blocking |-> blocking, blocked |-> blocked, out |-> toBroker]
SetRpc(r) == blocking' = r.blocking /\ blocked' = r.blocked /\ toBroker' = r.out

\* Mutant: a method is sent although another one waits for its reply.
RpcUnblocked(r, request) ==
    [r EXCEPT !.out = Append(@, request),
              !.blocking = IF Awaits(request) THEN request ELSE @]

Rpc(r, request) ==
    IF r.blocking # None THEN [r EXCEPT !.blocked = Append(@, request)]
    ELSE [r EXCEPT !.out = Append(@, request),
                   !.blocking = IF Awaits(request) THEN request ELSE None]

\* Mutant: one blocked method is sent, although it may not block.
SynchronousCompleteOne ==
    IF blocked = <<>> THEN [Rpc0 EXCEPT !.blocking = None]
    ELSE Rpc([Rpc0 EXCEPT !.blocking = None, !.blocked = Tail(@)], Head(blocked))

\* The blocked methods go out up to the first that awaits a reply.
SynchronousComplete ==
    LET waiting == {i \in DOMAIN blocked : Awaits(blocked[i])}
        n == IF waiting = {} THEN Len(blocked)
             ELSE CHOOSE i \in waiting : \A j \in waiting : i <= j
    IN [blocking |-> IF waiting = {} THEN None ELSE blocked[n],
        blocked |-> SubSeq(blocked, n + 1, Len(blocked)),
        out |-> toBroker \o SubSeq(blocked, 1, n)]

\* One method after the other, of which only the last awaits its reply.
RpcRow(row) ==
    IF blocking # None THEN [Rpc0 EXCEPT !.blocked = @ \o row]
    ELSE [Rpc0 EXCEPT !.out = @ \o row, !.blocking = Last(row)]
-----------------------------------------------------------------------------
(* Calls of the application.                                               *)

Call == state = "OPEN" /\ calls < MaxCalls /\ calls' = calls + 1

BasicConsume(tag, autoAck) ==
    /\ Call /\ tag \notin consumers \cup cancelled
    /\ consumers' = consumers \cup {tag}
    /\ consumersWithNoack' = IF autoAck THEN consumersWithNoack \cup {tag}
                             ELSE consumersWithNoack
    /\ life' = [life EXCEPT ![tag] = @ + 1]
    /\ SetRpc(Rpc(Rpc0, Consume(tag, life'[tag], autoAck)))
    /\ UNCHANGED <<state, cancelled, cancelCallbacks, toClient, brokerVars>>

\* Without a callback the consumer goes at once and its tag stays canceled.
BasicCancel(tag, nowait) ==
    /\ Call /\ tag \notin cancelled /\ tag \in consumers
    /\ consumers' = IF nowait THEN consumers \ {tag} ELSE consumers
    /\ cancelCallbacks' = IF nowait THEN cancelCallbacks ELSE cancelCallbacks \cup {tag}
    /\ cancelled' = cancelled \cup {tag}
    /\ SetRpc(Rpc(Rpc0, Cancel(tag, nowait)))
    /\ UNCHANGED <<state, consumersWithNoack, life, toClient, brokerVars>>

\* The methods that only go through _rpc.
RpcOnly(request) ==
    /\ Call /\ SetRpc(Rpc(Rpc0, request))
    /\ UNCHANGED <<state, consumerVars, toClient, brokerVars>>

ExchangeMethod(nowait) == RpcOnly(Other("Declaring", nowait))
QueueMethod(nowait) == RpcOnly(Other("Declaring", nowait))
QueueUnbind == RpcOnly(Other("Declaring", FALSE))
\* The application's callback for the broker's acks changes nothing here.
ConfirmDelivery(nowait) == RpcOnly(Other("Declaring", nowait))
TxMethod == RpcOnly(Other("Waiting", FALSE))
BasicQos == RpcOnly(Other("Waiting", FALSE))
BasicRecover == RpcOnly(Other("Waiting", FALSE))
Flow == RpcOnly(Other("Waiting", FALSE))

\* close(): cancels the consumers without waiting, then asks to close.  A
\* channel that is opening may be closed too.
Close ==
    /\ state \in {"OPENING", "OPEN"} /\ state' = "CLOSING"
    /\ LET tags == SetToSeq(consumers \ cancelled)
           cancels == [i \in DOMAIN tags |-> Cancel(tags[i], TRUE)]
       IN SetRpc(RpcRow(Append(cancels, ChannelClose)))
    /\ consumers' = consumers \cap cancelled /\ cancelled' = cancelled \cup consumers
    /\ UNCHANGED <<consumersWithNoack, cancelCallbacks, life, toClient, brokerVars, calls>>
-----------------------------------------------------------------------------
(* Frames from the broker, while the connection knows the channel.         *)

Receive(m) ==
    /\ toClient # <<>> /\ Head(toClient).m = m /\ toClient' = Tail(toClient)
    /\ state # "CLOSED" /\ UNCHANGED <<brokerVars, calls, life>>

Answered == blocking # None /\ Reply(blocking) = Head(toClient)

OnOpenOk ==
    /\ Receive("Channel.OpenOk") /\ Answered /\ SetRpc(SynchronousComplete)
    /\ state' = IF state = "CLOSING" THEN state ELSE "OPEN"
    /\ UNCHANGED <<consumers, consumersWithNoack, cancelled, cancelCallbacks>>

OnOk ==
    /\ Receive("Basic.ConsumeOk") \/ Receive("Ok")
    /\ Answered /\ SetRpc(SynchronousComplete)
    /\ UNCHANGED <<state, consumers, consumersWithNoack, cancelled, cancelCallbacks>>

CleanupConsumerRef(tag) ==
    /\ consumers' = consumers \ {tag} /\ cancelled' = cancelled \ {tag}
    /\ consumersWithNoack' = consumersWithNoack \ {tag}

\* The user's callbacks, each a function of its own, were registered for any
\* CancelOk: they are all called, once.
OnCancelOk ==
    /\ Receive("Basic.CancelOk") /\ Answered /\ SetRpc(SynchronousComplete)
    /\ CleanupConsumerRef(Head(toClient).tag) /\ cancelCallbacks' = {}
    /\ UNCHANGED state

\* Mutant: the broker's Cancel is not compared with the client's own.
OnCancelTwice ==
    /\ Receive("Basic.Cancel") /\ CleanupConsumerRef(Head(toClient).tag)
    /\ UNCHANGED <<state, rpcVars, cancelCallbacks>>

OnCancel ==
    /\ Receive("Basic.Cancel")
    /\ IF Head(toClient).tag \in cancelled
       THEN UNCHANGED <<consumers, cancelled, consumersWithNoack>>
       ELSE CleanupConsumerRef(Head(toClient).tag)
    /\ UNCHANGED <<state, rpcVars, cancelCallbacks>>

\* A delivery for a canceled consumer is rejected; one for a consumer is the
\* user's; one for neither is dropped.
OnDeliver ==
    /\ Receive("Basic.Deliver")
    /\ LET tag == Head(toClient).tag IN
       toBroker' = IF tag \in cancelled /\ state = "OPEN" /\ tag \notin consumersWithNoack
                   THEN Append(toBroker, Tagged("Basic.Reject", tag)) ELSE toBroker
    /\ UNCHANGED <<state, blocking, blocked, consumers, consumersWithNoack, cancelled,
                   cancelCallbacks>>

\* _transition_to_closed and _cleanup: the connection forgets the channel.
ToClosed ==
    /\ state' = "CLOSED" /\ consumers' = {} /\ cancelCallbacks' = {} /\ blocking' = None
    /\ UNCHANGED <<consumersWithNoack, cancelled>>

\* Mutant: a Close that is blocked waits for its CloseOk too.
OnCloseFromBrokerKeepsBlocked ==
    /\ Receive("Channel.Close") /\ toBroker' = Append(toBroker, CloseOk)
    /\ UNCHANGED blocked
    /\ IF state = "CLOSING"
       THEN UNCHANGED <<state, blocking, consumers, consumersWithNoack, cancelled,
                        cancelCallbacks>>
       ELSE ToClosed

\* A channel that is closing waits for its own CloseOk, unless its Close is
\* blocked and will never be sent.
OnCloseFromBroker ==
    /\ Receive("Channel.Close") /\ toBroker' = Append(toBroker, CloseOk)
    /\ blocked' = IF state = "CLOSING" THEN <<>> ELSE blocked
    /\ IF state = "CLOSING" /\ ~Contains(blocked, ChannelClose)
       THEN UNCHANGED <<state, blocking, consumers, consumersWithNoack, cancelled,
                        cancelCallbacks>>
       ELSE ToClosed

OnCloseOk ==
    /\ Receive("Channel.CloseOk") /\ Answered /\ ToClosed
    /\ UNCHANGED <<blocked, toBroker>>

\* _on_close_meta for every channel when the stream is gone.
OnCloseMeta ==
    /\ state # "CLOSED" /\ ToClosed /\ blocked' = blocked
    /\ toBroker' = <<>> /\ toClient' = <<>> /\ brokerState' = "closed"
    /\ brokerConsumers' = [t \in Tags |-> 0]
    /\ UNCHANGED <<life, calls, deliveries>>
-----------------------------------------------------------------------------
(* The broker.                                                             *)

Send(frames) == toClient' = toClient \o frames

BrokerReads ==
    /\ toBroker # <<>> /\ toBroker' = Tail(toBroker)
    /\ LET f == Head(toBroker) IN
       CASE brokerState = "none" ->
              /\ brokerState' = "open" /\ Send(<<Reply(f)>>) /\ UNCHANGED brokerConsumers
         [] brokerState = "open" /\ f.m = "Channel.Close" ->
              /\ brokerState' = "closed" /\ Send(<<CloseOk>>)
              /\ brokerConsumers' = [t \in Tags |-> 0]
         [] brokerState = "open" /\ f.m # "Channel.Close" ->
              /\ Send(IF Awaits(f) THEN <<Reply(f)>> ELSE <<>>)
              /\ brokerConsumers' =
                   CASE f.m = "Basic.Consume" -> [brokerConsumers EXCEPT ![f.tag] = f.life]
                     [] f.m = "Basic.Cancel" -> [brokerConsumers EXCEPT ![f.tag] = 0]
                     [] OTHER -> brokerConsumers
              /\ UNCHANGED brokerState
         [] OTHER ->        \* closing: all but these two are ignored
              /\ Send(IF f = ChannelClose THEN <<CloseOk>> ELSE <<>>)
              /\ brokerState' = IF f = CloseOk THEN "closed" ELSE brokerState
              /\ UNCHANGED brokerConsumers
    /\ UNCHANGED <<state, blocking, blocked, consumerVars, calls, deliveries>>

BrokerDelivers(tag) ==
    /\ brokerState = "open" /\ brokerConsumers[tag] # 0 /\ deliveries < MaxDeliveries
    /\ deliveries' = deliveries + 1
    /\ Send(<<[m |-> "Basic.Deliver", tag |-> tag, life |-> brokerConsumers[tag]]>>)
    /\ UNCHANGED <<state, rpcVars, consumerVars, brokerState, brokerConsumers, calls>>

\* The queue is deleted: consumer_cancel_notify.
BrokerCancels(tag) ==
    /\ brokerState = "open" /\ brokerConsumers[tag] # 0
    /\ brokerConsumers' = [brokerConsumers EXCEPT ![tag] = 0]
    /\ Send(<<Tagged("Basic.Cancel", tag)>>)
    /\ UNCHANGED <<state, rpcVars, consumerVars, brokerState, deliveries, calls>>

BrokerCloses ==
    /\ brokerState = "open" /\ brokerState' = "closing" /\ Send(<<ChannelClose>>)
    /\ brokerConsumers' = [t \in Tags |-> 0]
    /\ UNCHANGED <<state, rpcVars, consumerVars, deliveries, calls>>
-----------------------------------------------------------------------------
ClientReads ==
    \/ OnOpenOk \/ OnOk \/ OnCancelOk \/ OnCancel \/ OnDeliver
    \/ OnCloseFromBroker \/ OnCloseOk

Next ==
    \/ QueueUnbind \/ TxMethod \/ BasicQos \/ BasicRecover \/ Flow
    \/ \E w \in BOOLEAN : ExchangeMethod(w) \/ QueueMethod(w) \/ ConfirmDelivery(w)
    \/ Close \/ ClientReads \/ OnCloseMeta
    \/ BrokerReads \/ BrokerCloses
    \/ \E tag \in Tags : \/ BrokerDelivers(tag) \/ BrokerCancels(tag)
                         \/ \E b \in BOOLEAN : BasicConsume(tag, b) \/ BasicCancel(tag, b)

Spec == Init /\ [][Next]_vars
\* Both ends of the connection keep reading.
FairSpec == Spec /\ WF_vars(ClientReads) /\ WF_vars(BrokerReads)
-----------------------------------------------------------------------------
(* Properties.                                                             *)

\* One synchronous method at a time: the broker or the wire holds the request
\* of _blocking or its reply, and no other one; only a broker that closed the
\* channel may have dropped it.  So a reply is for the request that waits.
RpcInFlight ==
    state # "CLOSED" =>
        LET asked == {i \in DOMAIN toBroker : Awaits(toBroker[i])}
            replied == {i \in DOMAIN toClient :
                          toClient[i].m \notin {"Basic.Deliver", "Basic.Cancel", "Channel.Close"}}
        IN /\ \A i \in asked : toBroker[i] = blocking
           /\ \A i \in replied : blocking # None /\ toClient[i] = Reply(blocking)
           /\ Cardinality(asked) + Cardinality(replied) <= 1
           /\ blocking = None \/ asked # {} \/ replied # {}
                \/ brokerState \in {"closing", "closed"}

\* A delivery on an open channel finds the consumer it was sent to, or one that
\* is being canceled: none is dropped unanswered or given to a consumer that
\* took over the tag, whichever side cancels.
DeliveryFindsConsumer ==
    (toClient # <<>> /\ Head(toClient).m = "Basic.Deliver" /\ state = "OPEN") =>
        LET tag == Head(toClient).tag IN
        tag \in consumers \cup cancelled /\ Head(toClient).life = life[tag]

\* With nothing on the wire both ends know the same consumers.
QuietAgreement ==
    (state = "OPEN" /\ brokerState = "open" /\ toBroker = <<>> /\ toClient = <<>>) =>
        \A tag \in Tags :
            brokerConsumers[tag] = IF tag \in consumers THEN life[tag] ELSE 0

\* Client and broker agree on who consumes, however their cancellations cross.
ConsumersAgree == DeliveryFindsConsumer /\ QuietAgreement

\* close() completes: whatever was queued before it, and when both ends close at
\* the same time.
CloseCompletes == (state = "CLOSING") ~> (state = "CLOSED")
=============================================================================
