----------------------- MODULE SlowAckConsumerProofs -----------------------
(***************************************************************************)
(* Proofs about SlowAckConsumer, for every finite set of messages and      *)
(* every value of the limits: the limit, the control flow and the events   *)
(* that find their target, then what becomes of a delivery (the places its *)
(* ack can be in, the counter of held messages) and the refinement of      *)
(* HoldLedger.                                                             *)
(***************************************************************************)
EXTENDS SlowAckConsumer, SequenceTheorems, FiniteSetTheorems, TLAPS

-----------------------------------------------------------------------------
(* Frames.                                                                 *)

\* The frames the actions build belong to the sets of frames, and a delivery
\* (to the client or in _pending_events) carries a message.
LEMMA FrameTypes ==
    /\ \A m \in Messages : /\ MsgFrame("deliver", m) \in ClientFrames
                           /\ MsgFrame("deliver", m) \in PendingEvents
                           /\ MsgFrame("ack", m) \in BrokerFrames
                           /\ MsgFrame("reject", m) \in BrokerFrames
    /\ Frame("cancel") \in ClientFrames /\ Frame("cancelok") \in ClientFrames
    /\ Frame("chanclose") \in ClientFrames /\ Frame("chancloseok") \in ClientFrames
    /\ Frame("connclose") \in ClientFrames /\ Frame("conncloseok") \in ClientFrames
    /\ Frame("eof") \in ClientFrames
    /\ Frame("cancel") \in PendingEvents
    /\ Frame("cancel") \in BrokerFrames /\ Frame("chanclose") \in BrokerFrames
    /\ Frame("chancloseok") \in BrokerFrames /\ Frame("connclose") \in BrokerFrames
    /\ \A f \in ClientFrames \cup PendingEvents :
           f.type = "deliver" => f.msg \in Messages
<1>1. \A m \in Messages : /\ MsgFrame("deliver", m) \in ClientFrames
                           /\ MsgFrame("deliver", m) \in PendingEvents
  BY DEF ClientFrames, PendingEvents
<1>2. \A m \in Messages : /\ MsgFrame("ack", m) \in BrokerFrames
                           /\ MsgFrame("reject", m) \in BrokerFrames
  BY DEF BrokerFrames
<1>3. /\ Frame("cancel") \in ClientFrames /\ Frame("cancelok") \in ClientFrames
      /\ Frame("chanclose") \in ClientFrames /\ Frame("chancloseok") \in ClientFrames
      /\ Frame("connclose") \in ClientFrames /\ Frame("conncloseok") \in ClientFrames
      /\ Frame("eof") \in ClientFrames
  BY DEF ClientFrames
<1>4. /\ Frame("cancel") \in PendingEvents
      /\ Frame("cancel") \in BrokerFrames /\ Frame("chanclose") \in BrokerFrames
      /\ Frame("chancloseok") \in BrokerFrames /\ Frame("connclose") \in BrokerFrames
  BY DEF PendingEvents, BrokerFrames
<1>5. ASSUME NEW f \in ClientFrames \cup PendingEvents, f.type = "deliver"
      PROVE  f.msg \in Messages
  <2>1. \/ \E m \in Messages : f = MsgFrame("deliver", m)
        \/ \E t \in {"cancel", "cancelok", "chanclose", "chancloseok",
                     "connclose", "conncloseok", "eof"} : f = Frame(t)
    BY <1>5 DEF ClientFrames, PendingEvents
  <2>2. \A t : Frame(t).type = t
    BY DEF Frame
  <2>3. \A m : MsgFrame("deliver", m).msg = m
    BY DEF MsgFrame
  <2>. QED  BY <1>5, <2>1, <2>2, <2>3
<1>. QED  BY <1>1, <1>2, <1>3, <1>4, <1>5
\* A frame is its type and its message.
LEMMA FrameEquality ==
    /\ \A t, u, m, n : MsgFrame(t, m) = MsgFrame(u, n) <=> t = u /\ m = n
    /\ \A t, m : MsgFrame(t, m).type = t /\ MsgFrame(t, m).msg = m
    /\ \A t : Frame(t) = MsgFrame(t, NoMessage)
BY DEF Frame, MsgFrame

\* A frame about a message is made of its type and the message.
LEMMA FrameForm ==
    /\ \A f \in ClientFrames \cup PendingEvents :
           f.type = "deliver" => f.msg \in Messages /\ f = MsgFrame("deliver", f.msg)
    /\ \A f \in BrokerFrames :
           f.type \in {"ack", "reject"} => f.msg \in Messages /\ f = MsgFrame(f.type, f.msg)
<1>1. ASSUME NEW f \in ClientFrames \cup PendingEvents, f.type = "deliver"
      PROVE  f.msg \in Messages /\ f = MsgFrame("deliver", f.msg)
  <2>1. \/ \E m \in Messages : f = MsgFrame("deliver", m)
        \/ \E t \in {"cancel", "cancelok", "chanclose", "chancloseok",
                     "connclose", "conncloseok", "eof"} : f = Frame(t)
    BY DEF ClientFrames, PendingEvents
  <2>. QED  BY <1>1, <2>1, FrameEquality
<1>2. ASSUME NEW f \in BrokerFrames, f.type \in {"ack", "reject"}
      PROVE  f.msg \in Messages /\ f = MsgFrame(f.type, f.msg)
  <2>1. \/ \E t \in {"ack", "reject"}, m \in Messages : f = MsgFrame(t, m)
        \/ \E t \in {"cancel", "chanclose", "chancloseok", "connclose"} : f = Frame(t)
    BY DEF BrokerFrames
  <2>. QED  BY <1>2, <2>1, FrameEquality
<1>. QED  BY <1>1, <1>2

-----------------------------------------------------------------------------
(* Type correctness.                                                       *)

\* The operations of the actions on the queues of a well-typed state.
LEMMA QueueTypes ==
    ASSUME TypeOK
    PROVE  /\ <<>> \in Seq(ClientFrames) /\ <<>> \in Seq(BrokerFrames)
           /\ <<>> \in Seq(PendingEvents) /\ <<>> \in Seq(Messages)
           /\ \A f \in ClientFrames : /\ Append(toClient, f) \in Seq(ClientFrames)
                                     /\ <<f>> \in Seq(ClientFrames)
           /\ toClient # <<>> => /\ Head(toClient) \in ClientFrames
                                 /\ Tail(toClient) \in Seq(ClientFrames)
           /\ toBroker # <<>> => /\ Head(toBroker) \in BrokerFrames
                                 /\ Tail(toBroker) \in Seq(BrokerFrames)
           /\ \A f \in BrokerFrames : Append(outbuf, f) \in Seq(BrokerFrames)
           /\ toBroker \o outbuf \in Seq(BrokerFrames)
           /\ \A e \in PendingEvents : Append(pendingEvents, e) \in Seq(PendingEvents)
           /\ pendingEvents # <<>> => /\ Head(pendingEvents) \in PendingEvents
                                      /\ Tail(pendingEvents) \in Seq(PendingEvents)
           /\ \A m \in Messages : Append(callbacks, m) \in Seq(Messages)
           /\ readyEvents \o callbacks \in Seq(Messages)
           /\ Len(readyEvents) \in Nat
           /\ readyEvents # <<>> => /\ Head(readyEvents) \in Messages
                                    /\ Tail(readyEvents) \in Seq(Messages)
<1>. USE DEF TypeOK, WireTypeOK, EventTypeOK
<1>1. /\ <<>> \in Seq(ClientFrames) /\ <<>> \in Seq(BrokerFrames)
      /\ <<>> \in Seq(PendingEvents) /\ <<>> \in Seq(Messages)
  OBVIOUS
<1>2. /\ \A f \in ClientFrames : /\ Append(toClient, f) \in Seq(ClientFrames)
                                 /\ <<f>> \in Seq(ClientFrames)
      /\ toClient # <<>> => /\ Head(toClient) \in ClientFrames
                            /\ Tail(toClient) \in Seq(ClientFrames)
  OBVIOUS
<1>3. toBroker # <<>> => Head(toBroker) \in BrokerFrames /\ Tail(toBroker) \in Seq(BrokerFrames)
  OBVIOUS
<1>4. /\ \A f \in BrokerFrames : Append(outbuf, f) \in Seq(BrokerFrames)
      /\ toBroker \o outbuf \in Seq(BrokerFrames)
  OBVIOUS
<1>5. /\ \A e \in PendingEvents : Append(pendingEvents, e) \in Seq(PendingEvents)
      /\ pendingEvents # <<>> => /\ Head(pendingEvents) \in PendingEvents
                                 /\ Tail(pendingEvents) \in Seq(PendingEvents)
  OBVIOUS
<1>6. /\ \A m \in Messages : Append(callbacks, m) \in Seq(Messages)
      /\ readyEvents \o callbacks \in Seq(Messages)
  OBVIOUS
<1>7. /\ Len(readyEvents) \in Nat
      /\ readyEvents # <<>> => /\ Head(readyEvents) \in Messages
                               /\ Tail(readyEvents) \in Seq(Messages)
  OBVIOUS
<1>. QED  BY <1>1, <1>2, <1>3, <1>4, <1>5, <1>6, <1>7

\* The program starts in a well-typed state.
LEMMA InitType == Init => TypeOK
<1>. SUFFICES ASSUME Init PROVE TypeOK
  OBVIOUS
<1>. USE DEF Init
<1>1. BrokerTypeOK /\ ConnTypeOK
  BY DEF BrokerTypeOK, ConnTypeOK
<1>2. WireTypeOK /\ EventTypeOK /\ outbuf \in Seq(BrokerFrames)
  BY DEF WireTypeOK, EventTypeOK
<1>3. MainTypeOK /\ HoldTypeOK
  BY DEF MainTypeOK, HoldTypeOK, Pcs, TryPcs, WorkerStates, Counted
<1>. QED  BY <1>1, <1>2, <1>3 DEF TypeOK

\* What a step does not touch keeps its type.
LEMMA Untouched ==
    ASSUME TypeOK
    PROVE  /\ UNCHANGED brokerVars => BrokerTypeOK'
           /\ UNCHANGED wires => WireTypeOK'
           /\ UNCHANGED connVars => ConnTypeOK'
           /\ UNCHANGED eventVars => EventTypeOK'
           /\ UNCHANGED outbuf => (outbuf \in Seq(BrokerFrames))'
           /\ UNCHANGED mainVars => MainTypeOK'
           /\ UNCHANGED holdVars => HoldTypeOK'
<1>1. UNCHANGED brokerVars => BrokerTypeOK'
  BY DEF TypeOK, brokerVars, BrokerTypeOK
<1>2. UNCHANGED wires => WireTypeOK'
  BY DEF TypeOK, wires, WireTypeOK
<1>3. UNCHANGED connVars => ConnTypeOK'
  BY DEF TypeOK, connVars, ConnTypeOK
<1>4. UNCHANGED eventVars => EventTypeOK'
  BY DEF TypeOK, eventVars, EventTypeOK
<1>5. UNCHANGED mainVars => MainTypeOK'
  BY DEF TypeOK, mainVars, MainTypeOK
<1>6. UNCHANGED holdVars => HoldTypeOK'
  BY DEF TypeOK, holdVars, HoldTypeOK
<1>7. UNCHANGED outbuf => (outbuf \in Seq(BrokerFrames))'
  BY DEF TypeOK
<1>. QED  BY <1>1, <1>2, <1>3, <1>4, <1>5, <1>6, <1>7

\* Every step of every action keeps the types, one proof per group of actions.
LEMMA NextType ==
    ASSUME TypeOK, [Next]_vars
    PROVE  TypeOK'
<1>1. ASSUME NEW m \in Messages, Publish(m)
      PROVE  TypeOK'
  <2>1. BrokerTypeOK'
    BY <1>1 DEF TypeOK, BrokerTypeOK, Publish
  <2>. QED  BY <1>1, <2>1, Untouched DEF TypeOK, Publish
<1>2. ASSUME NEW m \in Messages, Recycled(m)
      PROVE  TypeOK'
  <2>1. BrokerTypeOK'
    BY <1>2 DEF TypeOK, BrokerTypeOK, Recycled
  <2>2. HoldTypeOK'
    BY <1>2 DEF TypeOK, HoldTypeOK, WorkerStates, Counted, Recycled
  <2>. QED  BY <1>2, <2>1, <2>2, Untouched DEF TypeOK, Recycled
<1>3. ASSUME NEW m \in Messages, Deliver(m)
      PROVE  TypeOK'
  <2>1. BrokerTypeOK'
    BY <1>3, FrameTypes, QueueTypes DEF TypeOK, BrokerTypeOK, Deliver
  <2>2. WireTypeOK'
    BY <1>3, FrameTypes, QueueTypes DEF TypeOK, WireTypeOK, Deliver
  <2>. QED  BY <1>3, <2>1, <2>2, Untouched DEF TypeOK, Deliver
<1>4. CASE BrokerReads
  <2>. DEFINE f == Head(toBroker)
  <2>1. Tail(toBroker) \in Seq(BrokerFrames) /\ f \in BrokerFrames
    BY <1>4, QueueTypes DEF BrokerReads
  <2>. HIDE DEF f
  <2>2. CASE BrokerIgnores(f) /\ UNCHANGED <<queue, unacked, acked, broker, toClient>>
    <3>1. BrokerTypeOK'
      BY <1>4, <2>2, FrameTypes DEF TypeOK, BrokerTypeOK, BrokerReads
    <3>2. WireTypeOK'
      BY <1>4, <2>1, <2>2, FrameTypes, QueueTypes DEF TypeOK, WireTypeOK, BrokerReads
    <3>. QED  BY <1>4, <3>1, <3>2, Untouched DEF TypeOK, BrokerReads
  <2>3. CASE BrokerSettle(f)
    <3>1. BrokerTypeOK'
      BY <1>4, <2>3, FrameTypes DEF TypeOK, BrokerTypeOK, BrokerReads, BrokerSettle, Requeue
    <3>2. WireTypeOK'
      BY <1>4, <2>1, <2>3, FrameTypes, QueueTypes DEF TypeOK, WireTypeOK, BrokerReads,
         BrokerSettle, Requeue
    <3>. QED  BY <1>4, <3>1, <3>2, Untouched DEF TypeOK, BrokerReads
  <2>4. CASE BrokerClosing(f)
    <3>1. BrokerTypeOK'
      BY <1>4, <2>4, FrameTypes DEF TypeOK, BrokerTypeOK, BrokerReads, BrokerClosing,
         Requeue
    <3>2. WireTypeOK'
      BY <1>4, <2>1, <2>4, FrameTypes, QueueTypes DEF TypeOK, WireTypeOK, BrokerReads,
         BrokerClosing, Requeue
    <3>. QED  BY <1>4, <3>1, <3>2, Untouched DEF TypeOK, BrokerReads
  <2>. QED  BY <1>4, <2>2, <2>3, <2>4 DEF BrokerReads, f
<1>5. CASE BrokerCancels
  <2>1. BrokerTypeOK'
    BY <1>5, FrameTypes, QueueTypes DEF TypeOK, BrokerTypeOK, BrokerCancels
  <2>2. WireTypeOK'
    BY <1>5, FrameTypes, QueueTypes DEF TypeOK, WireTypeOK, BrokerCancels
  <2>. QED  BY <1>5, <2>1, <2>2, Untouched DEF TypeOK, BrokerCancels
<1>6. CASE ConsumerTimeout
  <2>1. BrokerTypeOK'
    BY <1>6, FrameTypes, QueueTypes DEF TypeOK, BrokerTypeOK, ConsumerTimeout, Requeue
  <2>2. WireTypeOK'
    BY <1>6, FrameTypes, QueueTypes DEF TypeOK, WireTypeOK, ConsumerTimeout, Requeue
  <2>. QED  BY <1>6, <2>1, <2>2, Untouched DEF TypeOK, ConsumerTimeout
<1>7. CASE ConnectionLost
  <2>1. BrokerTypeOK'
    BY <1>7, FrameTypes, QueueTypes DEF TypeOK, BrokerTypeOK, ConnectionLost, Requeue
  <2>2. WireTypeOK'
    BY <1>7, FrameTypes, QueueTypes DEF TypeOK, WireTypeOK, ConnectionLost, Requeue
  <2>. QED  BY <1>7, <2>1, <2>2, Untouched DEF TypeOK, ConnectionLost
<1>8. CASE IoRead
  <2>. DEFINE f == Head(toClient)
  <2>1. f \in ClientFrames /\ WireTypeOK'
    BY <1>8, QueueTypes DEF IoRead, TypeOK, WireTypeOK
  <2>. HIDE DEF f
  <2>2. CASE f.type = "deliver" /\ OnDeliver(f.msg)
    <3>1. ConnTypeOK'
      BY <2>2 DEF TypeOK, ConnTypeOK, connVars, OnDeliver
    <3>2. EventTypeOK'
      BY <1>8, <2>1, <2>2, FrameTypes, QueueTypes DEF TypeOK, EventTypeOK, IoRead, OnDeliver
    <3>3. (outbuf \in Seq(BrokerFrames))'
      BY <2>1, <2>2, FrameTypes, QueueTypes DEF TypeOK, OnDeliver
    <3>. QED  BY <1>8, <2>1, <3>1, <3>2, <3>3, Untouched DEF IoRead, TypeOK
  <2>3. CASE OnCancel
    <3>1. ConnTypeOK'
      BY <2>3 DEF TypeOK, ConnTypeOK, connVars, OnCancel
    <3>2. EventTypeOK'
      BY <1>8, <2>1, <2>3, FrameTypes, QueueTypes DEF TypeOK, EventTypeOK, IoRead, OnCancel
    <3>3. (outbuf \in Seq(BrokerFrames))'
      BY <2>1, <2>3, FrameTypes, QueueTypes DEF TypeOK, OnCancel
    <3>. QED  BY <1>8, <2>1, <3>1, <3>2, <3>3, Untouched DEF IoRead, TypeOK
  <2>4. CASE OnCancelOk
    <3>1. ConnTypeOK'
      BY <2>4 DEF TypeOK, ConnTypeOK, connVars, OnCancelOk
    <3>2. EventTypeOK'
      BY <1>8, <2>1, <2>4 DEF TypeOK, EventTypeOK, IoRead, OnCancelOk
    <3>3. (outbuf \in Seq(BrokerFrames))'
      BY <2>1, <2>4 DEF TypeOK, OnCancelOk
    <3>. QED  BY <1>8, <2>1, <3>1, <3>2, <3>3, Untouched DEF IoRead, TypeOK
  <2>5. CASE OnChannelClose
    <3>1. ConnTypeOK'
      BY <2>5 DEF TypeOK, ConnTypeOK, connVars, OnChannelClose, ChannelClosed
    <3>2. EventTypeOK'
      BY <1>8, <2>1, <2>5, FrameTypes, QueueTypes DEF TypeOK, EventTypeOK, IoRead,
         OnChannelClose, ChannelClosed
    <3>3. (outbuf \in Seq(BrokerFrames))'
      BY <2>1, <2>5, FrameTypes, QueueTypes DEF TypeOK, OnChannelClose, ChannelClosed
    <3>. QED  BY <1>8, <2>1, <3>1, <3>2, <3>3, Untouched DEF IoRead, TypeOK
  <2>6. CASE OnChannelCloseOk
    <3>1. ConnTypeOK'
      BY <2>6 DEF TypeOK, ConnTypeOK, connVars, OnChannelCloseOk, ChannelClosed
    <3>2. EventTypeOK'
      BY <1>8, <2>1, <2>6, QueueTypes DEF TypeOK, EventTypeOK, IoRead, OnChannelCloseOk,
         ChannelClosed
    <3>3. (outbuf \in Seq(BrokerFrames))'
      BY <2>1, <2>6, QueueTypes DEF TypeOK, OnChannelCloseOk, ChannelClosed
    <3>. QED  BY <1>8, <2>1, <3>1, <3>2, <3>3, Untouched DEF IoRead, TypeOK
  <2>7. CASE OnStreamTerminated
    <3>1. ConnTypeOK'
      BY <2>7 DEF TypeOK, ConnTypeOK, connVars, OnStreamTerminated, ChannelClosed
    <3>2. EventTypeOK'
      BY <1>8, <2>1, <2>7, QueueTypes DEF TypeOK, EventTypeOK, IoRead, OnStreamTerminated,
         ChannelClosed
    <3>3. (outbuf \in Seq(BrokerFrames))'
      BY <2>1, <2>7, QueueTypes DEF TypeOK, OnStreamTerminated, ChannelClosed
    <3>. QED  BY <1>8, <2>1, <3>1, <3>2, <3>3, Untouched DEF IoRead, TypeOK
  <2>. QED  BY <1>8, <2>2, <2>3, <2>4, <2>5, <2>6, <2>7 DEF IoRead, f
<1>9. CASE IoWrite
  <2>1. WireTypeOK'
    BY <1>9, QueueTypes DEF TypeOK, WireTypeOK, IoWrite
  <2>2. (outbuf \in Seq(BrokerFrames))'
    BY <1>9, QueueTypes DEF TypeOK, IoWrite
  <2>. QED  BY <1>9, <2>1, <2>2, Untouched DEF TypeOK, IoWrite
<1>10. CASE IoCallbacks
  <2>1. EventTypeOK'
    BY <1>10, QueueTypes DEF TypeOK, EventTypeOK, IoCallbacks
  <2>. QED  BY <1>10, <2>1, Untouched DEF TypeOK, IoCallbacks
<1>11. CASE Loop
  <2>1. MainTypeOK'
    BY <1>11 DEF TypeOK, MainTypeOK, Pcs, TryPcs, PollPcs, Loop, Goto
  <2>. QED  BY <1>11, <2>1, Untouched DEF TypeOK, Loop
<1>12. CASE IoDone
  <2>1. EventTypeOK'
    BY <1>12, QueueTypes DEF TypeOK, EventTypeOK, eventVars, IoDone, Goto, Cleanup
  <2>2. MainTypeOK'
    BY <1>12, QueueTypes DEF TypeOK, MainTypeOK, Pcs, TryPcs, PollPcs, IoDone, Goto, Cleanup
  <2>. QED  BY <1>12, <2>1, <2>2, Untouched DEF TypeOK, IoDone
<1>13. CASE DispatchReady
  <2>1. EventTypeOK'
    BY <1>13, FrameTypes, QueueTypes DEF TypeOK, EventTypeOK, DispatchReady, Goto,
       AckAndFlush
  <2>2. (outbuf \in Seq(BrokerFrames))'
    BY <1>13, FrameTypes, QueueTypes DEF TypeOK, DispatchReady, Goto, AckAndFlush
  <2>3. MainTypeOK'
    BY <1>13, FrameTypes, QueueTypes DEF TypeOK, MainTypeOK, Pcs, TryPcs, PollPcs,
       DispatchReady, Goto, AckAndFlush, EventTypeOK
  <2>. QED  BY <1>13, <2>1, <2>2, <2>3, Untouched DEF TypeOK, DispatchReady
<1>14. CASE DispatchChannel
  <2>1. EventTypeOK'
    BY <1>14 DEF TypeOK, EventTypeOK, DispatchChannel, Goto
  <2>2. MainTypeOK'
    BY <1>14 DEF TypeOK, MainTypeOK, Pcs, TryPcs, PollPcs, DispatchChannel, Goto
  <2>. QED  BY <1>14, <2>1, <2>2, Untouched DEF TypeOK, DispatchChannel
<1>15. CASE DispatchEvent
  <2>1. ConnTypeOK'
    BY <1>15, FrameTypes, QueueTypes DEF TypeOK, ConnTypeOK, DispatchEvent, Goto
  <2>2. EventTypeOK'
    BY <1>15, FrameTypes, QueueTypes DEF TypeOK, EventTypeOK, DispatchEvent, Goto
  <2>3. MainTypeOK'
    BY <1>15, FrameTypes, QueueTypes DEF TypeOK, MainTypeOK, Pcs, TryPcs, PollPcs,
       DispatchEvent, Goto, EventTypeOK
  <2>. QED  BY <1>15, <2>1, <2>2, <2>3, Untouched DEF TypeOK, DispatchEvent
<1>16. CASE OnMessage
  <2>1. (outbuf \in Seq(BrokerFrames))'
    BY <1>16, FrameTypes, QueueTypes DEF TypeOK, MainTypeOK, OnMessage, Goto, AckAndFlush
  <2>2. MainTypeOK'
    BY <1>16, FrameTypes, QueueTypes DEF TypeOK, MainTypeOK, Pcs, TryPcs, PollPcs,
       OnMessage, Goto, AckAndFlush
  <2>. QED  BY <1>16, <2>1, <2>2, Untouched DEF TypeOK, OnMessage
<1>17. CASE OnMessageIncrement
  <2>1. MainTypeOK'
    BY <1>17 DEF TypeOK, MainTypeOK, Pcs, TryPcs, PollPcs, OnMessageIncrement, Goto
  <2>2. HoldTypeOK'
    BY <1>17 DEF TypeOK, HoldTypeOK, WorkerStates, Counted, MainTypeOK, OnMessageIncrement,
       Goto
  <2>. QED  BY <1>17, <2>1, <2>2, Untouched DEF TypeOK, OnMessageIncrement
<1>18. CASE OnMessageStart
  <2>1. MainTypeOK'
    BY <1>18 DEF TypeOK, MainTypeOK, Pcs, TryPcs, PollPcs, OnMessageStart
  <2>2. HoldTypeOK'
    BY <1>18 DEF TypeOK, HoldTypeOK, WorkerStates, Counted, OnMessageStart
  <2>. QED  BY <1>18, <2>1, <2>2, Untouched DEF TypeOK, OnMessageStart
<1>19. CASE FlushDone
  <2>1. EventTypeOK'
    BY <1>19, QueueTypes DEF TypeOK, EventTypeOK, eventVars, FlushDone, Goto, Cleanup
  <2>2. MainTypeOK'
    BY <1>19, QueueTypes DEF TypeOK, MainTypeOK, Pcs, TryPcs, PollPcs, FlushDone, Goto,
       Cleanup
  <2>. QED  BY <1>19, <2>1, <2>2, Untouched DEF TypeOK, FlushDone
<1>20. CASE Stop
  <2>1. ConnTypeOK'
    BY <1>20 DEF TypeOK, ConnTypeOK, connVars, Stop, Goto, CancelFails
  <2>2. EventTypeOK'
    BY <1>20, QueueTypes DEF TypeOK, EventTypeOK, eventVars, Stop, Goto, CancelFails
  <2>3. MainTypeOK'
    BY <1>20, QueueTypes DEF TypeOK, MainTypeOK, Pcs, TryPcs, PollPcs, Stop, Goto,
       CancelFails
  <2>. QED  BY <1>20, <2>1, <2>2, <2>3, Untouched DEF TypeOK, Stop
<1>21. CASE RejectPending
  <2>1. EventTypeOK'
    BY <1>21, FrameTypes, QueueTypes DEF TypeOK, EventTypeOK, RejectPending
  <2>2. (outbuf \in Seq(BrokerFrames))'
    BY <1>21, FrameTypes, QueueTypes DEF TypeOK, RejectPending
  <2>. QED  BY <1>21, <2>1, <2>2, Untouched DEF TypeOK, RejectPending
<1>22. CASE SendCancel
  <2>1. ConnTypeOK'
    BY <1>22 DEF TypeOK, ConnTypeOK, SendCancel, Goto
  <2>2. (outbuf \in Seq(BrokerFrames))'
    BY <1>22, FrameTypes, QueueTypes DEF TypeOK, SendCancel, Goto
  <2>3. MainTypeOK'
    BY <1>22, FrameTypes, QueueTypes DEF TypeOK, MainTypeOK, Pcs, TryPcs, PollPcs,
       SendCancel, Goto
  <2>. QED  BY <1>22, <2>1, <2>2, <2>3, Untouched DEF TypeOK, SendCancel
<1>23. CASE CancelDone
  <2>1. ConnTypeOK'
    BY <1>23 DEF TypeOK, ConnTypeOK, CancelDone, Goto
  <2>2. EventTypeOK'
    BY <1>23, QueueTypes DEF TypeOK, EventTypeOK, CancelDone, Goto
  <2>3. MainTypeOK'
    BY <1>23, QueueTypes DEF TypeOK, MainTypeOK, Pcs, TryPcs, PollPcs, CancelDone, Goto
  <2>. QED  BY <1>23, <2>1, <2>2, <2>3, Untouched DEF TypeOK, CancelDone
<1>24. CASE Close
  <2>1. ConnTypeOK'
    BY <1>24 DEF TypeOK, ConnTypeOK, connVars, Close, Goto
  <2>2. (outbuf \in Seq(BrokerFrames))'
    BY <1>24, FrameTypes, QueueTypes DEF TypeOK, Close, Goto
  <2>3. MainTypeOK'
    BY <1>24, FrameTypes, QueueTypes DEF TypeOK, MainTypeOK, Pcs, TryPcs, PollPcs, Close,
       Goto
  <2>. QED  BY <1>24, <2>1, <2>2, <2>3, Untouched DEF TypeOK, Close
<1>25. CASE ChannelCloseDone
  <2>1. EventTypeOK'
    BY <1>25, QueueTypes DEF TypeOK, EventTypeOK, ChannelCloseDone, Goto
  <2>2. MainTypeOK'
    BY <1>25, QueueTypes DEF TypeOK, MainTypeOK, Pcs, TryPcs, PollPcs, ChannelCloseDone,
       Goto
  <2>. QED  BY <1>25, <2>1, <2>2, Untouched DEF TypeOK, ChannelCloseDone
<1>26. CASE ConnectionCloseDone
  <2>1. EventTypeOK'
    BY <1>26, QueueTypes DEF TypeOK, EventTypeOK, ConnectionCloseDone, Goto, Cleanup
  <2>2. MainTypeOK'
    BY <1>26, QueueTypes DEF TypeOK, MainTypeOK, Pcs, TryPcs, PollPcs, ConnectionCloseDone,
       Goto, Cleanup
  <2>. QED  BY <1>26, <2>1, <2>2, Untouched DEF TypeOK, ConnectionCloseDone
<1>27. CASE Interrupt
  <2>1. MainTypeOK'
    BY <1>27 DEF TypeOK, MainTypeOK, Pcs, TryPcs, PollPcs, Interrupt
  <2>. QED  BY <1>27, <2>1, Untouched DEF TypeOK, Interrupt
<1>28. ASSUME NEW m \in Messages, DelayOver(m)
      PROVE  TypeOK'
  <2>1. HoldTypeOK'
    BY <1>28 DEF TypeOK, HoldTypeOK, WorkerStates, Counted, DelayOver
  <2>. QED  BY <1>28, <2>1, Untouched DEF TypeOK, DelayOver
<1>29. ASSUME NEW m \in Messages, ScheduleAck(m)
      PROVE  TypeOK'
  <2>1. EventTypeOK'
    BY <1>29, QueueTypes DEF TypeOK, EventTypeOK, ScheduleAck
  <2>2. HoldTypeOK'
    BY <1>29 DEF TypeOK, HoldTypeOK, WorkerStates, Counted, ScheduleAck
  <2>. QED  BY <1>29, <2>1, <2>2, Untouched DEF TypeOK, ScheduleAck
<1>30. ASSUME NEW m \in Messages, WorkerDecrement(m)
      PROVE  TypeOK'
  <2>1. HoldTypeOK'
    BY <1>30 DEF TypeOK, HoldTypeOK, WorkerStates, Counted, WorkerDecrement
  <2>. QED  BY <1>30, <2>1, Untouched DEF TypeOK, WorkerDecrement
<1>31. CASE Terminated
  BY <1>31, Untouched DEF Terminated, vars, TypeOK
<1>32. CASE UNCHANGED vars
  BY <1>32, Untouched DEF vars, TypeOK
<1>. QED
  BY <1>1, <1>2, <1>3, <1>4, <1>5, <1>6, <1>7, <1>8, <1>9, <1>10, <1>11, <1>12, <1>13,
     <1>14, <1>15, <1>16, <1>17, <1>18, <1>19, <1>20, <1>21, <1>22, <1>23, <1>24, <1>25,
     <1>26, <1>27, <1>28, <1>29, <1>30, <1>31, <1>32 DEF Next, BrokerStep, Failure,
     MainThread, Worker

\* Every variable keeps its type: queues hold frames and messages of their own
\* kind, and the main thread never returns to a place it did not come from.
THEOREM TypeCorrect == Spec => []TypeOK
<1>1. Init => TypeOK
  BY InitType
<1>2. TypeOK /\ [Next]_vars => TypeOK'
  BY NextType
<1>. QED  BY <1>1, <1>2, PTL DEF Spec

-----------------------------------------------------------------------------
(* The limit on held messages.                                             *)

\* Between the test in on_message and the increment nobody else increments, so
\* the test still holds when the main thread takes the lock again.
HoldInv == HeldWithinLimit /\ (pc = "increment" => heldCount < MaxHeld)

\* Only on_message takes the counter up, and it looks at the limit first.
LEMMA NextHold ==
    ASSUME TypeOK, HoldInv, [Next]_vars
    PROVE  HoldInv'
<1>. USE DEF HoldInv, HeldWithinLimit
<1>1. heldCount \in Int /\ MaxHeld \in Int
  BY LimitsAssumption DEF TypeOK, HoldTypeOK
<1>2. CASE OnMessage
  BY <1>1, <1>2 DEF OnMessage, AckAndFlush, Goto, holdVars
<1>3. CASE OnMessageIncrement
  BY <1>1, <1>3 DEF OnMessageIncrement, Goto
<1>4. ASSUME NEW m \in Messages, WorkerDecrement(m)
      PROVE  HoldInv'
  BY <1>1, <1>4 DEF WorkerDecrement, mainVars
<1>5. ASSUME heldCount' = heldCount, pc' = pc \/ pc' # "increment"
      PROVE  HoldInv'
  BY <1>5
<1>6. CASE \/ \E m \in Messages : Publish(m) \/ Recycled(m) \/ Deliver(m)
                               \/ DelayOver(m) \/ ScheduleAck(m)
           \/ BrokerReads \/ Failure \/ Terminated \/ UNCHANGED vars
  BY <1>5, <1>6 DEF Publish, Recycled, Deliver, DelayOver, ScheduleAck, BrokerReads,
     Failure, BrokerCancels, ConsumerTimeout, ConnectionLost, Terminated, mainVars,
     holdVars, vars
<1>7. CASE IoRead \/ IoWrite \/ IoCallbacks
  BY <1>5, <1>7 DEF IoRead, IoWrite, IoCallbacks, mainVars, holdVars
<1>8. CASE Loop \/ IoDone \/ DispatchReady \/ DispatchChannel \/ DispatchEvent
  BY <1>5, <1>8 DEF Loop, IoDone, DispatchReady, DispatchChannel, DispatchEvent, Goto,
     AckAndFlush, holdVars
<1>9. CASE OnMessageStart \/ Interrupt
  BY <1>5, <1>9 DEF OnMessageStart, Interrupt, holdVars
<1>10. CASE FlushDone
  <2>1. ret # "increment"
    BY DEF TypeOK, MainTypeOK
  <2>. QED  BY <1>5, <1>10, <2>1 DEF FlushDone, Goto, holdVars
<1>11. CASE Stop \/ RejectPending \/ SendCancel \/ CancelDone \/ Close
            \/ ChannelCloseDone \/ ConnectionCloseDone
  BY <1>5, <1>11 DEF Stop, RejectPending, SendCancel, CancelDone, Close, ChannelCloseDone,
     ConnectionCloseDone, Goto, mainVars, holdVars
<1>. QED
  BY <1>2, <1>3, <1>4, <1>6, <1>7, <1>8, <1>9, <1>10, <1>11 DEF Next, BrokerStep,
     MainThread, Worker

\* held_count[0] never exceeds MAX_HELD, whatever the workers, the broker and
\* the user do between the two critical sections of on_message.
THEOREM HeldLimit == Spec => []HeldWithinLimit
<1>1. Init => HoldInv
  BY LimitsAssumption DEF Init, HoldInv, HeldWithinLimit
<1>2. TypeOK /\ HoldInv /\ [Next]_vars => HoldInv'
  BY NextHold
<1>3. HoldInv => HeldWithinLimit
  BY DEF HoldInv
<1>. QED  BY <1>1, <1>2, <1>3, TypeCorrect, PTL DEF Spec

-----------------------------------------------------------------------------
(* Where the main thread is, what is open and what waits for dispatch.     *)

\* The broker sends deliveries first, then at most one cancellation, then the rest.
FrameOrder ==
    /\ \A i, j \in DOMAIN toClient :
        (i < j /\ toClient[i].type # "deliver") => toClient[j].type \notin {"deliver", "cancel"}
    /\ broker = "consuming" => \A i \in DOMAIN toClient : toClient[i].type = "deliver"
    /\ tag = "gone" =>
        /\ broker # "consuming"
        /\ \A i \in DOMAIN toClient : toClient[i].type \notin {"deliver", "cancel"}

\* No close of the channel by the client has been asked for, or answered.
NoCloseSent ==
    /\ \A i \in DOMAIN outbuf : outbuf[i].type # "chanclose"
    /\ \A i \in DOMAIN toBroker : toBroker[i].type # "chanclose"
    /\ \A i \in DOMAIN toClient : toClient[i].type # "chancloseok"

\* While the program consumes, nothing is closing from its side.
Running ==
    pc \in TryPcs =>
        /\ conn # "closing" /\ chan # "closing" /\ tag # "cancelling"
        /\ consumerInfo # "tearingdown" /\ NoCloseSent
        /\ chan = "closed" => conn = "closed" \/ closingReason = "broker"

\* The events that wait for dispatch fit the state of the channel.
Waiting ==
    /\ pc \in TryPcs =>
        /\ \A i \in DOMAIN pendingEvents :
               pendingEvents[i].type # "deliver" => i = Len(pendingEvents) /\ tag = "gone"
        /\ chan = "open" /\ consumerInfo = "none" => pendingEvents = <<>>
    /\ pc = "waitcancel" =>
        /\ tag # "consuming"
        /\ \A i \in DOMAIN pendingEvents : pendingEvents[i].type # "deliver"

\* Where the main thread is tells what is open.
Control ==
    /\ conn = "closed" => chan = "closed"
    /\ chan = "closing" => pc = "waitchanclose"
    /\ pc \in {"events", "onmessage", "increment", "start"} => chan = "open" /\ conn = "open"
    /\ pc = "reject" => chan = "open"
    /\ consumerInfo = "none" /\ chan # "closed" => tag = "gone"

ControlInv == TypeOK /\ FrameOrder /\ Running /\ Waiting /\ Control

\* The states the close handshakes, the cancellations and the main thread
\* combine to.
LEMMA NextControl ==
    ASSUME TypeOK, Control, Running, Waiting, [Next]_vars
    PROVE  Control'
<1>. USE DEF Control
<1>1. CASE UNCHANGED <<conn, chan, tag, consumerInfo, pc>>
  BY <1>1
<1>2. CASE \/ \E m \in Messages : Publish(m) \/ Recycled(m) \/ Deliver(m) \/ Worker(m)
           \/ BrokerReads \/ Failure \/ IoWrite \/ IoCallbacks \/ RejectPending
           \/ Terminated \/ UNCHANGED vars
  BY <1>1, <1>2 DEF Publish, Recycled, Deliver, Worker, DelayOver, ScheduleAck,
     WorkerDecrement, BrokerReads, Failure, BrokerCancels, ConsumerTimeout, ConnectionLost,
     IoWrite, IoCallbacks, RejectPending, Terminated, vars, connVars, mainVars
<1>3. CASE IoRead
  <2>. DEFINE f == Head(toClient)
  <2>1. pc \in PollPcs /\ UNCHANGED pc
    BY <1>3 DEF IoRead, mainVars
  <2>2. CASE OnDeliver(f.msg)
    BY <1>1, <2>1, <2>2 DEF OnDeliver, connVars
  <2>3. CASE OnCancel
    BY <2>1, <2>3 DEF OnCancel, PollPcs
  <2>4. CASE OnCancelOk \/ OnChannelClose \/ OnChannelCloseOk \/ OnStreamTerminated
    BY <2>1, <2>4 DEF OnCancelOk, OnChannelClose, OnChannelCloseOk, OnStreamTerminated,
       ChannelClosed, PollPcs
  <2>. QED  BY <1>3, <2>2, <2>3, <2>4 DEF IoRead
<1>4. CASE Loop \/ IoDone \/ DispatchReady \/ OnMessage \/ OnMessageIncrement
          \/ OnMessageStart \/ Interrupt
  BY <1>4 DEF Loop, IoDone, DispatchReady, OnMessage, OnMessageIncrement, OnMessageStart,
     Interrupt, Goto, AckAndFlush, connVars, TryPcs
<1>5. CASE DispatchChannel
  BY <1>5 DEF DispatchChannel, Goto, connVars, Running, TryPcs, TypeOK, ConnTypeOK
<1>6. CASE DispatchEvent
  <2>1. pendingEvents # <<>> /\ Head(pendingEvents).type # "deliver" => tag = "gone"
    BY <1>6 DEF DispatchEvent, Waiting, TryPcs, TypeOK, EventTypeOK
  <2>. QED  BY <1>6, <2>1 DEF DispatchEvent, Goto
<1>7. CASE FlushDone
  BY <1>7 DEF FlushDone, Goto, ClosedByBroker, connVars, Running, TryPcs, TypeOK,
     ConnTypeOK, MainTypeOK
<1>8. CASE Stop \/ SendCancel \/ CancelDone
  BY <1>8 DEF Stop, SendCancel, CancelDone, CancelFails, Goto, connVars, TypeOK, ConnTypeOK
<1>9. CASE Close \/ ChannelCloseDone \/ ConnectionCloseDone
  BY <1>9 DEF Close, ChannelCloseDone, ConnectionCloseDone, Goto, connVars, TypeOK,
     ConnTypeOK
<1>. QED
  BY <1>2, <1>3, <1>4, <1>5, <1>6, <1>7, <1>8, <1>9 DEF Next, BrokerStep, MainThread

\* Whatever the broker reads or reports, its frames leave in their order.
LEMMA NextFrameOrder ==
    ASSUME TypeOK, FrameOrder, [Next]_vars
    PROVE  FrameOrder'
<1>. USE DEF FrameOrder
<1>1. toClient \in Seq(ClientFrames)
  BY DEF TypeOK, WireTypeOK
<1>2. CASE UNCHANGED <<toClient, tag, broker>>
  BY <1>2
<1>3. ASSUME NEW m \in Messages, Deliver(m)
      PROVE  FrameOrder'
  <2>1. toClient' = Append(toClient, MsgFrame("deliver", m))
        /\ MsgFrame("deliver", m) \in ClientFrames
    BY <1>3, FrameTypes DEF Deliver
  <2>. QED  BY <1>1, <1>3, <2>1, FrameEquality DEF Deliver, connVars
\* The broker stops consuming and says so with a frame that is no delivery.
<1>4. ASSUME broker' # "consuming", UNCHANGED tag,
             NEW f \in ClientFrames, toClient' = Append(toClient, f),
             f.type # "deliver", f.type = "cancel" => broker = "consuming"
      PROVE  FrameOrder'
  BY <1>1, <1>4
<1>5. CASE BrokerReads
  <2>1. CASE UNCHANGED <<broker, toClient>>
    BY <1>2, <1>5, <2>1 DEF BrokerReads, connVars
  <2>2. CASE BrokerSettle(Head(toBroker)) /\ Head(toBroker).msg \notin unacked
    BY <1>4, <1>5, <2>2, FrameTypes, FrameEquality DEF BrokerReads, BrokerSettle, Requeue,
       connVars
  <2>3. CASE BrokerClosing(Head(toBroker))
    BY <1>4, <1>5, <2>3, FrameTypes, FrameEquality DEF BrokerReads, BrokerClosing, Requeue,
       connVars
  <2>. QED  BY <1>5, <2>1, <2>2, <2>3 DEF BrokerReads, BrokerSettle
<1>6. CASE BrokerCancels \/ ConsumerTimeout
  BY <1>4, <1>6, FrameTypes, FrameEquality DEF BrokerCancels, ConsumerTimeout, Requeue,
     connVars
<1>7. CASE ConnectionLost
  <2>1. CASE toClient' = Append(toClient, Frame("connclose"))
    BY <1>4, <1>7, <2>1, FrameTypes, FrameEquality DEF ConnectionLost, Requeue, connVars
  <2>2. CASE toClient' = <<Frame("eof")>>
    BY <1>7, <2>2, FrameEquality DEF ConnectionLost, Requeue, connVars
  <2>. QED  BY <1>7, <2>1, <2>2 DEF ConnectionLost
<1>8. CASE IoRead
  <2>. DEFINE f == Head(toClient)
  <2>1. toClient # <<>> /\ toClient' = Tail(toClient) /\ UNCHANGED broker
    BY <1>8 DEF IoRead, brokerVars
  <2>2. tag' = tag \/ f.type # "deliver"
    BY <1>8 DEF IoRead, OnDeliver, OnCancel, connVars
  <2>3. tag' = tag \/ tag' = "gone"
    BY <1>8 DEF IoRead, OnDeliver, OnCancel, OnCancelOk, OnChannelClose, OnChannelCloseOk,
       OnStreamTerminated, ChannelClosed, connVars
  <2>4. /\ f = toClient[1] /\ 1 \in DOMAIN toClient
        /\ \A i \in DOMAIN Tail(toClient) : /\ i + 1 \in DOMAIN toClient /\ 1 < i + 1
                                            /\ Tail(toClient)[i] = toClient[i + 1]
        /\ \A i, j \in DOMAIN Tail(toClient) : i < j => i + 1 < j + 1
    BY <1>1, <2>1
  <2>. HIDE DEF f
  <2>5. \A i, j \in DOMAIN toClient' :
          (i < j /\ toClient'[i].type # "deliver") => toClient'[j].type \notin {"deliver", "cancel"}
    BY <2>1, <2>4
  <2>6. broker' = "consuming" => \A i \in DOMAIN toClient' : toClient'[i].type = "deliver"
    BY <2>1, <2>4
  <2>7. tag' = "gone" =>
          broker' # "consuming"
                /\ \A i \in DOMAIN toClient' : toClient'[i].type \notin {"deliver", "cancel"}
    BY <2>1, <2>2, <2>3, <2>4
  <2>. QED  BY <2>5, <2>6, <2>7
<1>9. CASE Stop \/ SendCancel \/ CancelDone \/ Close
  BY <1>9 DEF Stop, SendCancel, CancelDone, CancelFails, Close, connVars, wires, brokerVars
<1>10. CASE \/ \E m \in Messages : Publish(m) \/ Recycled(m) \/ Worker(m)
            \/ IoWrite \/ IoCallbacks \/ RejectPending
            \/ Terminated \/ Interrupt \/ UNCHANGED vars
  BY <1>2, <1>10 DEF Publish, Recycled, Worker, DelayOver, ScheduleAck, WorkerDecrement,
     IoWrite, IoCallbacks, RejectPending, Terminated, Interrupt, vars, connVars, wires,
     brokerVars
<1>11. CASE \/ Loop \/ IoDone \/ DispatchReady \/ DispatchChannel \/ DispatchEvent
            \/ OnMessage \/ OnMessageIncrement \/ OnMessageStart \/ FlushDone
            \/ ChannelCloseDone \/ ConnectionCloseDone
  BY <1>2, <1>11 DEF Loop, IoDone, DispatchReady, DispatchChannel, DispatchEvent, OnMessage,
     OnMessageIncrement, OnMessageStart, FlushDone, ChannelCloseDone, ConnectionCloseDone,
     connVars, wires, brokerVars
<1>. QED
  BY <1>3, <1>5, <1>6, <1>7, <1>8, <1>9, <1>10, <1>11 DEF Next, BrokerStep, MainThread,
     Failure

\* While the program consumes, no step of either side starts or answers a close.
LEMMA NextNoCloseSent ==
    ASSUME TypeOK, NoCloseSent, [Next]_vars
    PROVE  NoCloseSent' \/ ~(pc' \in TryPcs)
<1>. SUFFICES ASSUME pc' \in TryPcs PROVE NoCloseSent'
  OBVIOUS
<1>. USE DEF NoCloseSent
<1>1. toClient \in Seq(ClientFrames) /\ toBroker \in Seq(BrokerFrames)
      /\ outbuf \in Seq(BrokerFrames)
  BY DEF TypeOK, WireTypeOK
<1>2. CASE UNCHANGED <<toClient, toBroker, outbuf>>
  BY <1>2
\* The broker answers a close only if it reads one.
<1>3. ASSUME NEW f \in ClientFrames, f.type # "chancloseok",
             toClient' = Append(toClient, f) \/ toClient' = <<f>>, UNCHANGED outbuf,
             toBroker' = toBroker \/ toBroker' = <<>>
                \/ (toBroker # <<>> /\ toBroker' = Tail(toBroker))
      PROVE  NoCloseSent'
  <2>1. \A i \in DOMAIN toClient' : toClient'[i].type # "chancloseok"
    <3>1. CASE toClient' = Append(toClient, f)
      BY <1>1, <1>3, <3>1
    <3>2. CASE toClient' = <<f>>
      BY <1>1, <1>3, <3>2
    <3>. QED  BY <1>3, <3>1, <3>2
  <2>2. \A i \in DOMAIN toBroker' : toBroker'[i].type # "chanclose"
    BY <1>1, <1>3
  <2>. QED  BY <1>3, <2>1, <2>2
<1>4. ASSUME NEW m \in Messages, Deliver(m)
      PROVE  NoCloseSent'
  BY <1>3, <1>4, FrameTypes, FrameEquality DEF Deliver
<1>5. CASE BrokerReads
  <2>1. toBroker # <<>> /\ toBroker' = Tail(toBroker) /\ UNCHANGED outbuf
        /\ Head(toBroker).type # "chanclose"
    BY <1>1, <1>5 DEF BrokerReads
  <2>2. CASE UNCHANGED toClient
    BY <1>1, <2>1, <2>2
  <2>3. CASE \E t \in {"chanclose", "cancelok", "conncloseok"} : toClient' = Append(toClient,
        Frame(t))
    BY <1>3, <2>1, <2>3, FrameTypes, FrameEquality
  <2>. QED  BY <1>5, <2>1, <2>2, <2>3 DEF BrokerReads, BrokerSettle, BrokerClosing
<1>6. CASE Failure
  <2>1. UNCHANGED <<outbuf>> /\ (toBroker' = toBroker \/ toBroker' = <<>>)
    BY <1>6 DEF Failure, BrokerCancels, ConsumerTimeout, ConnectionLost
  <2>2. \E t \in {"cancel", "chanclose", "connclose", "eof"} :
           toClient' = Append(toClient, Frame(t)) \/ toClient' = <<Frame(t)>>
    BY <1>6 DEF Failure, BrokerCancels, ConsumerTimeout, ConnectionLost
  <2>. QED  BY <1>3, <2>1, <2>2, FrameTypes, FrameEquality
<1>7. CASE IoWrite
  <2>1. \A i \in DOMAIN (toBroker \o outbuf) : (toBroker \o outbuf)[i].type # "chanclose"
    BY <1>1
  <2>. QED  BY <1>7, <2>1 DEF IoWrite
\* What the main thread writes while it consumes.
<1>8. ASSUME NEW f \in BrokerFrames, f.type # "chanclose",
             outbuf' = Append(outbuf, f) \/ outbuf' = outbuf \/ outbuf' = <<>>, UNCHANGED toBroker,
             toClient' = toClient \/ (toClient # <<>> /\ toClient' = Tail(toClient))
      PROVE  NoCloseSent'
  <2>1. \A i \in DOMAIN outbuf' : outbuf'[i].type # "chanclose"
    <3>1. CASE outbuf' = Append(outbuf, f)
      BY <1>1, <1>8, <3>1
    <3>2. CASE outbuf' = outbuf \/ outbuf' = <<>>
      BY <1>8, <3>2
    <3>. QED  BY <1>8, <3>1, <3>2
  <2>2. \A i \in DOMAIN toClient' : toClient'[i].type # "chancloseok"
    BY <1>1, <1>8
  <2>. QED  BY <1>8, <2>1, <2>2
<1>9. CASE IoRead
  <2>1. toClient # <<>> /\ toClient' = Tail(toClient) /\ UNCHANGED toBroker
    BY <1>9 DEF IoRead
  <2>2. Head(toClient).type = "deliver" => Head(toClient).msg \in Messages
    BY <1>1, <2>1, FrameTypes
  <2>3. \E f \in BrokerFrames : /\ f.type # "chanclose"
                                /\ outbuf' = Append(outbuf, f) \/ outbuf' = outbuf \/ outbuf' = <<>>
    BY <1>9, <2>2, FrameTypes, FrameEquality DEF IoRead, OnDeliver, OnCancel, OnCancelOk,
       OnChannelClose, OnChannelCloseOk, OnStreamTerminated
  <2>. QED  BY <1>8, <2>1, <2>3
<1>10. CASE DispatchReady \/ OnMessage
  <2>1. UNCHANGED wires
    BY <1>10 DEF DispatchReady, OnMessage
  <2>2. \E f \in BrokerFrames : f.type # "chanclose" /\ (outbuf' = Append(outbuf, f)
        \/ outbuf' = outbuf)
    <3>1. CASE DispatchReady
      BY <3>1, FrameTypes, FrameEquality, QueueTypes DEF DispatchReady, AckAndFlush
    <3>2. CASE OnMessage
      BY <3>2, FrameTypes, FrameEquality DEF OnMessage, AckAndFlush, TypeOK, MainTypeOK
    <3>. QED  BY <1>10, <3>1, <3>2
  <2>. QED  BY <1>8, <2>1, <2>2 DEF wires
<1>11. CASE Stop \/ SendCancel \/ CancelDone \/ Close \/ ChannelCloseDone \/ ConnectionCloseDone
      \/ Interrupt \/ Terminated
  BY <1>11 DEF Stop, SendCancel, CancelDone, Close, ChannelCloseDone, ConnectionCloseDone,
     Interrupt, Goto, TryPcs, Terminated, vars, mainVars
<1>12. CASE RejectPending
  BY <1>12 DEF RejectPending, TryPcs, mainVars
<1>13. CASE \/ \E m \in Messages : Publish(m) \/ Recycled(m) \/ Worker(m)
           \/ IoCallbacks \/ UNCHANGED vars
  BY <1>2, <1>13 DEF Publish, Recycled, Worker, DelayOver, ScheduleAck, WorkerDecrement,
     IoCallbacks, vars, wires
<1>14. CASE \/ Loop \/ IoDone \/ DispatchChannel \/ DispatchEvent
            \/ OnMessageIncrement \/ OnMessageStart \/ FlushDone
  BY <1>2, <1>14 DEF Loop, IoDone, DispatchChannel, DispatchEvent, OnMessageIncrement,
     OnMessageStart, FlushDone, wires
<1>. QED
  BY <1>4, <1>5, <1>6, <1>7, <1>9, <1>10, <1>11, <1>13, <1>14, <1>12 DEF Next, BrokerStep,
     MainThread

\* Who leaves the try statement of main() never comes back to it.
LEMMA TryIsLeft == ASSUME TypeOK, [Next]_vars, pc' \in TryPcs PROVE pc \in TryPcs
<1>. SUFFICES ASSUME pc \notin TryPcs PROVE pc' \notin TryPcs
  OBVIOUS
<1>1. CASE UNCHANGED pc
  BY <1>1
<1>2. CASE Stop \/ SendCancel \/ CancelDone \/ Close \/ ChannelCloseDone \/ ConnectionCloseDone
  BY <1>2 DEF Stop, SendCancel, CancelDone, Close, ChannelCloseDone, ConnectionCloseDone,
     Goto, TryPcs
<1>3. CASE \/ Loop \/ IoDone \/ DispatchReady \/ DispatchChannel \/ DispatchEvent
            \/ OnMessage \/ OnMessageIncrement \/ OnMessageStart \/ FlushDone \/ Interrupt
  BY <1>3 DEF Loop, IoDone, DispatchReady, DispatchChannel, DispatchEvent, OnMessage,
     OnMessageIncrement, OnMessageStart, FlushDone, Interrupt, TryPcs
<1>4. CASE \/ \E m \in Messages : Publish(m) \/ Recycled(m) \/ Deliver(m) \/ Worker(m)
           \/ BrokerReads \/ Failure \/ IoRead \/ IoWrite \/ IoCallbacks \/ RejectPending
           \/ Terminated \/ UNCHANGED vars
  BY <1>1, <1>4 DEF Publish, Recycled, Deliver, Worker, DelayOver, ScheduleAck,
     WorkerDecrement, BrokerReads, Failure, BrokerCancels, ConsumerTimeout, ConnectionLost,
     IoRead, IoWrite, IoCallbacks, RejectPending, Terminated, vars, mainVars
<1>. QED  BY <1>2, <1>3, <1>4 DEF Next, BrokerStep, MainThread

\* Nothing closes from the side of a program that consumes.
LEMMA NextRunning ==
    ASSUME TypeOK, Control, Running, [Next]_vars
    PROVE  Running'
<1>. SUFFICES ASSUME pc' \in TryPcs
     PROVE  /\ conn' # "closing" /\ chan' # "closing" /\ tag' # "cancelling"
            /\ consumerInfo' # "tearingdown"
            /\ (chan' = "closed" => conn' = "closed" \/ closingReason' = "broker")
  BY TryIsLeft, NextNoCloseSent DEF Running
<1>. DEFINE Quiet == /\ conn # "closing" /\ chan # "closing" /\ tag # "cancelling"
                     /\ consumerInfo # "tearingdown"
                     /\ (chan = "closed" => conn = "closed" \/ closingReason = "broker")
<1>1. pc \in TryPcs /\ NoCloseSent /\ Quiet
  BY TryIsLeft DEF Running
<1>2. CASE UNCHANGED connVars
  BY <1>1, <1>2 DEF connVars
<1>3. CASE IoRead
  <2>1. toClient # <<>> /\ Head(toClient).type # "chancloseok"
    BY <1>1, <1>3 DEF IoRead, NoCloseSent, TypeOK, WireTypeOK
  <2>2. CASE OnDeliver(Head(toClient).msg)
    BY <1>2, <2>2 DEF OnDeliver
  <2>3. CASE OnCancel \/ OnCancelOk
    BY <1>1, <2>3 DEF OnCancel, OnCancelOk
  <2>4. CASE OnChannelClose \/ OnStreamTerminated
    BY <1>1, <2>4 DEF OnChannelClose, OnStreamTerminated, ChannelClosed
  <2>. QED  BY <1>3, <2>1, <2>2, <2>3, <2>4 DEF IoRead
<1>4. CASE DispatchEvent
  BY <1>1, <1>4 DEF DispatchEvent
<1>5. CASE Stop \/ RejectPending \/ SendCancel \/ CancelDone \/ Close \/ ChannelCloseDone
      \/ ConnectionCloseDone
  BY <1>1, <1>5 DEF Stop, RejectPending, SendCancel, CancelDone, Close, ChannelCloseDone,
     ConnectionCloseDone, TryPcs
<1>6. CASE \/ \E m \in Messages : Publish(m) \/ Recycled(m) \/ Deliver(m) \/ Worker(m)
           \/ BrokerReads \/ Failure \/ IoWrite \/ IoCallbacks
           \/ Terminated \/ Interrupt \/ UNCHANGED vars
  BY <1>2, <1>6 DEF Publish, Recycled, Deliver, Worker, DelayOver, ScheduleAck,
     WorkerDecrement, BrokerReads, Failure, BrokerCancels, ConsumerTimeout, ConnectionLost,
     IoWrite, Interrupt, IoCallbacks, RejectPending, Terminated, vars
<1>7. CASE \/ Loop \/ IoDone \/ DispatchReady \/ DispatchChannel
            \/ OnMessage \/ OnMessageIncrement \/ OnMessageStart \/ FlushDone
  BY <1>2, <1>7 DEF Loop, IoDone, DispatchReady, DispatchChannel, OnMessage,
     OnMessageIncrement, OnMessageStart, FlushDone
<1>. QED  BY <1>3, <1>4, <1>5, <1>6, <1>7 DEF Next, BrokerStep, MainThread

\* What a step may do to the events that wait while the program consumes.
LEMMA NextWaiting ==
    ASSUME TypeOK, Control, Running, Waiting, FrameOrder, [Next]_vars
    PROVE  Waiting'
<1>. USE DEF Waiting
<1>1. pendingEvents \in Seq(PendingEvents)
  BY DEF TypeOK, EventTypeOK
<1>2. pc' \in TryPcs => pc \in TryPcs
  BY TryIsLeft
<1>3. CASE UNCHANGED <<pendingEvents, tag, chan, consumerInfo>> /\ (pc' = "waitcancel"
      => pc = "waitcancel")
  BY <1>3, <1>2
<1>4. CASE IoRead
  <2>. DEFINE f == Head(toClient)
  <2>1. UNCHANGED pc /\ f \in ClientFrames /\ f = toClient[1] /\ 1 \in DOMAIN toClient
    BY <1>4, QueueTypes DEF IoRead, mainVars, TypeOK, WireTypeOK
  <2>2. tag = "gone" => f.type # "deliver" /\ f.type # "cancel"
    BY <2>1 DEF FrameOrder
  <2>. HIDE DEF f
  <2>3. CASE f.type = "deliver" /\ OnDeliver(f.msg)
    <3>1. UNCHANGED <<tag, chan, consumerInfo>>
      BY <2>3 DEF OnDeliver, connVars
    <3>2. CASE UNCHANGED pendingEvents
      BY <1>3, <2>1, <3>1, <3>2
    <3>3. CASE chan # "closed" /\ tag = "consuming"
          /\ pendingEvents' = Append(pendingEvents, MsgFrame("deliver", f.msg))
      <4>1. pc # "waitcancel" /\ ~(chan = "open" /\ consumerInfo = "none")
        BY <3>3 DEF Control
      <4>2. pc \in TryPcs => \A i \in DOMAIN pendingEvents : pendingEvents[i].type = "deliver"
        BY <3>3
      <4>3. f.msg \in Messages /\ MsgFrame("deliver", f.msg) \in PendingEvents
            /\ MsgFrame("deliver", f.msg).type = "deliver"
        BY <2>1, <2>3, FrameTypes, FrameEquality
      <4>4. pc \in TryPcs => \A i \in DOMAIN pendingEvents' : pendingEvents'[i].type = "deliver"
        BY <1>1, <3>3, <4>2, <4>3
      <4>. QED  BY <2>1, <3>1, <4>1, <4>4
    <3>. QED  BY <2>3, <3>2, <3>3 DEF OnDeliver
  <2>4. CASE f.type = "cancel" /\ OnCancel
    <3>1. CASE chan = "closed"
      BY <1>3, <2>1, <2>4, <3>1 DEF OnCancel
    <3>2. CASE chan # "closed"
      <4>1. pendingEvents' = Append(pendingEvents, Frame("cancel")) /\ consumerInfo' # "none"
        BY <2>2, <2>4, <3>2 DEF OnCancel, Control
      <4>2. pc \in TryPcs => /\ \A i \in DOMAIN pendingEvents : pendingEvents[i].type = "deliver"
                             /\ tag' = "gone"
        BY <2>2, <2>4, <3>2 DEF OnCancel, Running
      <4>3. pc \in TryPcs => \A i \in DOMAIN pendingEvents' :
                  pendingEvents'[i].type # "deliver" => i = Len(pendingEvents')
        BY <1>1, <4>1, <4>2, FrameTypes
      <4>4. pc = "waitcancel" => tag' # "consuming"
            /\ \A i \in DOMAIN pendingEvents' : pendingEvents'[i].type # "deliver"
        BY <1>1, <2>4, <3>2, <4>1, FrameTypes, FrameEquality DEF OnCancel
      <4>. QED  BY <2>1, <4>1, <4>2, <4>3, <4>4
    <3>. QED  BY <3>1, <3>2
  <2>5. CASE OnCancelOk
    BY <2>1, <2>5 DEF OnCancelOk
  <2>6. CASE OnChannelClose \/ OnChannelCloseOk \/ OnStreamTerminated
    <3>1. pendingEvents' = <<>> \/ UNCHANGED pendingEvents
      BY <2>6 DEF OnChannelClose, OnChannelCloseOk, OnStreamTerminated, ChannelClosed
    <3>2. /\ tag' = tag \/ tag' = "gone"
          /\ (chan' = chan /\ consumerInfo' = consumerInfo) \/ chan' = "closed"
      BY <2>6 DEF OnChannelClose, OnChannelCloseOk, OnStreamTerminated, ChannelClosed
    <3>. QED  BY <2>1, <3>1, <3>2
  <2>. QED  BY <1>4, <2>3, <2>4, <2>5, <2>6 DEF IoRead, f
<1>5. CASE DispatchEvent
  <2>1. CASE pendingEvents = <<>>
    BY <1>3, <1>5, <2>1 DEF DispatchEvent, Goto
  <2>2. CASE pendingEvents # <<>>
    <3>1. pc' # "waitcancel" /\ UNCHANGED <<tag, chan>> /\ pendingEvents' = Tail(pendingEvents)
      BY <1>5, <2>2 DEF DispatchEvent
    <3>2. \A i \in DOMAIN Tail(pendingEvents) : i + 1 \in DOMAIN pendingEvents
          /\ Tail(pendingEvents)[i] = pendingEvents[i + 1]
      BY <1>1, <2>2
    <3>3. \A i \in DOMAIN pendingEvents' : pendingEvents'[i].type # "deliver"
          => i = Len(pendingEvents') /\ tag' = "gone"
      BY <1>1, <1>5, <3>1, <3>2, <2>2 DEF DispatchEvent, TryPcs
    <3>4. consumerInfo' = "none" /\ consumerInfo # "none" => pendingEvents' = <<>>
      <4>1. SUFFICES ASSUME consumerInfo' = "none", consumerInfo # "none" PROVE pendingEvents'
            = <<>>
        OBVIOUS
      <4>2. Head(pendingEvents).type # "deliver" /\ Head(pendingEvents) = pendingEvents[1]
            /\ 1 \in DOMAIN pendingEvents
        BY <1>1, <1>5, <2>2, <4>1 DEF DispatchEvent
      <4>3. Len(pendingEvents) = 1
        BY <1>5, <4>2 DEF DispatchEvent, TryPcs
      <4>. QED  BY <1>1, <3>1, <4>3
    <3>5. consumerInfo = "none" => FALSE
      BY <1>5, <2>2 DEF DispatchEvent, Control, TryPcs
    <3>. QED  BY <3>1, <3>3, <3>4, <3>5
  <2>. QED  BY <2>1, <2>2
<1>6. CASE Stop \/ RejectPending \/ SendCancel \/ CancelDone \/ Close \/ ChannelCloseDone
      \/ ConnectionCloseDone
  <2>1. CASE RejectPending
    BY <2>1 DEF RejectPending, TryPcs, mainVars
  <2>2. CASE SendCancel
    BY <1>1, <2>2 DEF SendCancel, Goto, TryPcs, eventVars
  <2>3. CASE Stop \/ CancelDone \/ Close \/ ChannelCloseDone \/ ConnectionCloseDone
    BY <2>3 DEF Stop, CancelDone, Close, ChannelCloseDone, ConnectionCloseDone, Goto, TryPcs
  <2>. QED  BY <1>6, <2>1, <2>2, <2>3
<1>7. CASE Loop \/ IoDone \/ DispatchReady \/ DispatchChannel \/ OnMessage \/ OnMessageIncrement
           \/ OnMessageStart \/ FlushDone \/ Interrupt
  BY <1>3, <1>7 DEF Loop, IoDone, DispatchReady, DispatchChannel, OnMessage,
     OnMessageIncrement, OnMessageStart, FlushDone, Interrupt, Goto, AckAndFlush, Cleanup,
     connVars, eventVars, TypeOK, MainTypeOK
<1>8. CASE \/ \E m \in Messages : Publish(m) \/ Recycled(m) \/ Deliver(m) \/ Worker(m)
           \/ BrokerReads \/ Failure \/ IoWrite \/ IoCallbacks
           \/ Terminated \/ UNCHANGED vars
  BY <1>3, <1>8 DEF Publish, Recycled, Deliver, Worker, DelayOver, ScheduleAck,
     WorkerDecrement, BrokerReads, Failure, BrokerCancels, ConsumerTimeout, ConnectionLost,
     IoWrite, IoCallbacks, Terminated, vars, connVars, mainVars, eventVars
<1>. QED
  BY <1>4, <1>5, <1>6, <1>7, <1>8 DEF Next, BrokerStep, MainThread

\* What is open, what is closing and what is on the wire always fit together.
THEOREM ControlInvariant == Spec => []ControlInv
<1>1. Init => ControlInv
  BY InitType DEF Init, ControlInv, FrameOrder, Running, NoCloseSent, Waiting, Control
<1>2. ControlInv /\ [Next]_vars => ControlInv'
  BY NextType, NextControl, NextFrameOrder, NextRunning, NextWaiting DEF ControlInv
<1>. QED  BY <1>1, <1>2, PTL DEF Spec

\* A cancellation leaves no delivery in _pending_events, on_message runs only
\* on an open channel, and every event finds the consumer it is for.
THEOREM EventsMeetTarget == Spec => []EventsFindTarget
<1>1. ControlInv => EventsFindTarget
  <2>. SUFFICES ASSUME ControlInv PROVE EventsFindTarget
    OBVIOUS
  <2>1. NoPendingAfterCancel
    BY DEF ControlInv, Waiting, NoPendingAfterCancel
  <2>2. MessageOnOpenChannel
    BY DEF ControlInv, Control, MessageOnOpenChannel
  <2>3. ASSUME pc = "events", pendingEvents # <<>>
        PROVE  consumerInfo # "none"
    BY <2>3 DEF ControlInv, Control, Waiting, TryPcs
  <2>4. ASSUME chan # "closed", toClient # <<>>, consumerInfo = "none"
        PROVE  Head(toClient).type \notin {"deliver", "cancel"}
    BY <2>4 DEF ControlInv, Control, FrameOrder, TypeOK, WireTypeOK
  <2>. QED  BY <2>1, <2>2, <2>3, <2>4 DEF EventsFindTarget, ConsumerInfoFound
<1>. QED  BY <1>1, ControlInvariant, PTL
-----------------------------------------------------------------------------
(* Counting in sequences.                                                  *)

\* The positions k later.
Shift(T, k) == {i + k : i \in T}

\* Moving a set of positions does not change how many they are.
LEMMA Shifted ==
    ASSUME NEW T \in SUBSET Nat, IsFiniteSet(T), NEW k \in Int
    PROVE  IsFiniteSet(Shift(T, k)) /\ Cardinality(Shift(T, k)) = Cardinality(T)
<1>. DEFINE f == [i \in T |-> i + k]
<1>1. f \in Bijection(T, Shift(T, k))
  BY DEF Bijection, Injection, Surjection, IsInjective, Shift
<1>. QED  BY <1>1, FS_Bijection DEF ExistsBijection

\* The positions of an element are some of the positions of its sequence.
LEMMA PositionsFinite ==
    ASSUME NEW S, NEW s \in Seq(S), NEW e
    PROVE  /\ IsFiniteSet(Positions(s, e)) /\ Positions(s, e) \subseteq 1 .. Len(s)
           /\ Len(s) \in Nat /\ Positions(s, e) \in SUBSET Nat
           /\ Occurrences(s, e) \in Nat
<1>1. DOMAIN s = 1 .. Len(s) /\ Len(s) \in Nat
  BY LenProperties
<1>2. Positions(s, e) \subseteq 1 .. Len(s)
  BY <1>1 DEF Positions
<1>3. IsFiniteSet(1 .. Len(s))
  BY <1>1, FS_Interval
<1>4. IsFiniteSet(Positions(s, e))
  BY <1>2, <1>3, FS_Subset
<1>5. Positions(s, e) \in SUBSET Nat
  BY <1>1, <1>2
<1>. QED  BY <1>1, <1>2, <1>4, <1>5, FS_CardinalityType DEF Occurrences

\* Nothing is in the empty sequence.
LEMMA OccurrencesEmpty == \A e : Occurrences(<<>>, e) = 0
<1>. TAKE e
<1>1. Positions(<<>>, e) = {}
  BY DEF Positions
<1>. QED  BY <1>1, FS_EmptySet DEF Occurrences

\* Append adds one occurrence of what it appends.
LEMMA OccurrencesAppend ==
    ASSUME NEW S, NEW s \in Seq(S), NEW f \in S
    PROVE  \A e : Occurrences(Append(s, f), e)
                      = Occurrences(s, e) + (IF f = e THEN 1 ELSE 0)
<1>. TAKE e
<1>1. Positions(Append(s, f), e) =
          IF f = e THEN Positions(s, e) \cup {Len(s) + 1} ELSE Positions(s, e)
  BY AppendProperties, LenProperties DEF Positions
<1>2. Len(s) + 1 \notin Positions(s, e)
  BY PositionsFinite
<1>3. IsFiniteSet(Positions(s, e)) /\ Occurrences(s, e) \in Nat
  BY PositionsFinite
<1>4. Cardinality(Positions(s, e) \cup {Len(s) + 1}) = Cardinality(Positions(s, e)) + 1
  BY <1>2, <1>3, FS_AddElement
<1>. QED  BY <1>1, <1>3, <1>4 DEF Occurrences

\* Tail takes one occurrence of the head away.
LEMMA OccurrencesTail ==
    ASSUME NEW S, NEW s \in Seq(S), s # <<>>
    PROVE  \A e : Occurrences(s, e)
                      = Occurrences(Tail(s), e) + (IF Head(s) = e THEN 1 ELSE 0)
<1>. TAKE e
<1>. DEFINE R == Shift(Positions(Tail(s), e), 1)
<1>1. /\ Tail(s) \in Seq(S) /\ Len(s) \in Nat \ {0} /\ DOMAIN s = 1 .. Len(s)
      /\ Len(Tail(s)) = Len(s) - 1 /\ DOMAIN Tail(s) = 1 .. (Len(s) - 1)
      /\ \A i \in 1 .. (Len(s) - 1) : Tail(s)[i] = s[i + 1]
  BY HeadTailProperties, LenProperties, EmptySeq
<1>2. /\ IsFiniteSet(Positions(Tail(s), e)) /\ Positions(Tail(s), e) \in SUBSET Nat
      /\ Occurrences(Tail(s), e) \in Nat
  BY <1>1, PositionsFinite
<1>3. IsFiniteSet(R) /\ Cardinality(R) = Occurrences(Tail(s), e)
  BY <1>2, Shifted DEF Occurrences
<1>4. 1 \notin R
  BY <1>1 DEF Positions, Shift
<1>5. ASSUME NEW i \in Positions(s, e), i # 1
      PROVE  i \in R
  <2>1. i - 1 \in 1 .. (Len(s) - 1) /\ Tail(s)[i - 1] = e
    BY <1>1, <1>5 DEF Positions
  <2>2. i - 1 \in Positions(Tail(s), e) /\ i = (i - 1) + 1
    BY <2>1, <1>1 DEF Positions
  <2>. QED  BY <2>2 DEF Shift
<1>6. R \subseteq Positions(s, e)
  BY <1>1 DEF Positions, Shift
<1>7. 1 \in Positions(s, e) <=> Head(s) = e
  BY <1>1 DEF Positions
<1>. HIDE DEF R
<1>8. Positions(s, e) = IF Head(s) = e THEN R \cup {1} ELSE R
  <2>1. CASE Head(s) = e
    BY <1>5, <1>6, <1>7, <2>1
  <2>2. CASE Head(s) # e
    BY <1>5, <1>6, <1>7, <2>2
  <2>. QED  BY <2>1, <2>2
<1>9. Cardinality(R \cup {1}) = Cardinality(R) + 1
  BY <1>4, <1>3, FS_AddElement
<1>. QED  BY <1>2, <1>8, <1>3, <1>9 DEF Occurrences

\* Concatenation adds the occurrences up.
LEMMA OccurrencesConcat ==
    ASSUME NEW S, NEW s \in Seq(S), NEW t \in Seq(S)
    PROVE  \A e : Occurrences(s \o t, e) = Occurrences(s, e) + Occurrences(t, e)
<1>. TAKE e
<1>. DEFINE R == Shift(Positions(t, e), Len(s))
<1>1. /\ Len(s) \in Nat /\ Len(t) \in Nat /\ DOMAIN s = 1 .. Len(s) /\ DOMAIN t = 1 .. Len(t)
      /\ DOMAIN (s \o t) = 1 .. (Len(s) + Len(t))
      /\ \A i \in 1 .. Len(s) + Len(t) : (s \o t)[i] =
                     IF i <= Len(s) THEN s[i] ELSE t[i - Len(s)]
  BY ConcatProperties, LenProperties
<1>2. /\ IsFiniteSet(Positions(t, e)) /\ Positions(t, e) \in SUBSET Nat
      /\ IsFiniteSet(Positions(s, e)) /\ Occurrences(s, e) \in Nat
      /\ Occurrences(t, e) \in Nat
  BY PositionsFinite
<1>3. IsFiniteSet(R) /\ Cardinality(R) = Occurrences(t, e)
  BY <1>1, <1>2, Shifted DEF Occurrences
<1>4. Positions(s, e) \cap R = {}
  BY <1>1 DEF Positions, Shift
<1>5. ASSUME NEW i \in Positions(s \o t, e), i \notin Positions(s, e)
      PROVE  i \in R
  <2>1. i \in 1 .. Len(s) + Len(t) /\ ~(i <= Len(s)) /\ t[i - Len(s)] = e
    BY <1>1, <1>5 DEF Positions
  <2>2. i - Len(s) \in Positions(t, e) /\ i = (i - Len(s)) + Len(s)
    BY <2>1, <1>1 DEF Positions
  <2>. QED  BY <2>2 DEF Shift
<1>6. Positions(s, e) \subseteq Positions(s \o t, e) /\ R \subseteq Positions(s \o t, e)
  BY <1>1 DEF Positions, Shift
<1>7. Positions(s \o t, e) = Positions(s, e) \cup R
  BY <1>5, <1>6
<1>. HIDE DEF R
<1>8. Cardinality(Positions(s, e) \cup R) = Cardinality(Positions(s, e)) + Cardinality(R)
  <2>1. Cardinality(Positions(s, e) \cup R)
          = Cardinality(Positions(s, e)) + Cardinality(R) - Cardinality(Positions(s, e) \cap R)
    BY <1>3, <1>2, FS_Union
  <2>2. Cardinality(Positions(s, e) \cap R) = 0
    BY <1>4, FS_EmptySet
  <2>. QED  BY <1>3, <1>2, <2>1, <2>2 DEF Occurrences
<1>. QED  BY <1>3, <1>7, <1>8 DEF Occurrences

\* An element occurs if and only if it is somewhere in the sequence.
LEMMA OccurrencesWitness ==
    ASSUME NEW S, NEW s \in Seq(S)
    PROVE  \A e : Occurrences(s, e) = 0 <=> \A i \in DOMAIN s : s[i] # e
<1>. TAKE e
<1>1. Occurrences(s, e) = 0 <=> Positions(s, e) = {}
  BY PositionsFinite, FS_EmptySet DEF Occurrences
<1>. QED  BY <1>1 DEF Positions

\* One element occurs once.
LEMMA OccurrencesSingle ==
    ASSUME NEW S, NEW f \in S
    PROVE  \A e : Occurrences(<<f>>, e) = IF f = e THEN 1 ELSE 0
<1>. TAKE e
<1>1. Positions(<<f>>, e) = IF f = e THEN {1} ELSE {}
  BY DEF Positions
<1>2. Cardinality({1}) = 1
  BY FS_Singleton
<1>. QED  BY <1>1, <1>2, FS_EmptySet DEF Occurrences

-----------------------------------------------------------------------------
(* The inductive invariant.                                                *)

\* A message is with the publisher, ready, delivered or acknowledged.
Disjoint ==
    /\ unpublished \cap (queue \cup unacked \cup acked) = {}
    /\ queue \cap (unacked \cup acked) = {} /\ unacked \cap acked = {}

\* No delivery is ever in two places; while the broker has the channel open it
\* is one the broker waits for; what is settled or not yet sent is nowhere.
Placed(m) ==
    /\ Places(m) <= 1
    /\ ChannelKnown => Places(m) <= Unacked(m)
    /\ m \in unpublished \cup acked => Places(m) = 0
Placement == \A m \in Messages : Placed(m)

\* A message that on_message may still see has no thread from an earlier life.
Fresh ==
    /\ \A m \in Messages :
        (\/ m \in unpublished \/ (broker = "consuming" /\ m \in queue)
         \/ Arriving(m) > 0 \/ Sent("reject", m) > 0) => worker[m] = "none"
    /\ pc = "start" => worker[cur] = "unstarted"

Consuming == pc \in TryPcs /\ chan = "open" /\ ChannelKnown

\* While the program consumes, what the broker waits for is in its place.
InOnePlace(m) == Consuming => Places(m) = Unacked(m)

DeliveryInv ==
    /\ ControlInv /\ Disjoint /\ Placement /\ Fresh
    /\ \A m \in Messages : InOnePlace(m)

-----------------------------------------------------------------------------
(* Where a step moves a message.                                           *)

\* What occurs in the queues of a well-typed state occurs a natural number of times.
LEMMA CountTypes ==
    ASSUME TypeOK
    PROVE  \A e : /\ Occurrences(toClient, e) \in Nat /\ Occurrences(toBroker, e) \in Nat
                 /\ Occurrences(outbuf, e) \in Nat /\ Occurrences(pendingEvents, e) \in Nat
                 /\ Occurrences(callbacks, e) \in Nat /\ Occurrences(readyEvents, e) \in Nat
BY PositionsFinite DEF TypeOK, WireTypeOK, EventTypeOK

\* How the actions change what occurs in the stream to the client.
LEMMA CountClient ==
    ASSUME TypeOK
    PROVE  /\ \A f \in ClientFrames : \A e :
                 Occurrences(Append(toClient, f), e)
                     = Occurrences(toClient, e) + (IF f = e THEN 1 ELSE 0)
           /\ \A f \in ClientFrames : \A e : Occurrences(<<f>>, e) = IF f = e THEN 1 ELSE 0
           /\ toClient # <<>> => \A e :
                 Occurrences(toClient, e)
                     = Occurrences(Tail(toClient), e) + (IF Head(toClient) = e THEN 1 ELSE 0)
<1>. USE DEF TypeOK, WireTypeOK
<1>1. \A f \in ClientFrames : \A e :
          Occurrences(Append(toClient, f), e)
              = Occurrences(toClient, e) + (IF f = e THEN 1 ELSE 0)
  BY OccurrencesAppend
<1>2. \A f \in ClientFrames : \A e : Occurrences(<<f>>, e) = IF f = e THEN 1 ELSE 0
  BY OccurrencesSingle
<1>3. toClient # <<>> => \A e :
          Occurrences(toClient, e)
              = Occurrences(Tail(toClient), e) + (IF Head(toClient) = e THEN 1 ELSE 0)
  BY OccurrencesTail
<1>. QED  BY <1>1, <1>2, <1>3

\* How the actions change what occurs in the output buffer and in the stream to
\* the broker.
LEMMA CountBroker ==
    ASSUME TypeOK
    PROVE  /\ \A f \in BrokerFrames : \A e :
                 Occurrences(Append(outbuf, f), e)
                     = Occurrences(outbuf, e) + (IF f = e THEN 1 ELSE 0)
           /\ \A e : Occurrences(toBroker \o outbuf, e)
                         = Occurrences(toBroker, e) + Occurrences(outbuf, e)
           /\ toBroker # <<>> => \A e :
                 Occurrences(toBroker, e)
                     = Occurrences(Tail(toBroker), e) + (IF Head(toBroker) = e THEN 1 ELSE 0)
<1>. USE DEF TypeOK, WireTypeOK
<1>1. \A f \in BrokerFrames : \A e :
          Occurrences(Append(outbuf, f), e)
              = Occurrences(outbuf, e) + (IF f = e THEN 1 ELSE 0)
  BY OccurrencesAppend
<1>2. \A e : Occurrences(toBroker \o outbuf, e)
                 = Occurrences(toBroker, e) + Occurrences(outbuf, e)
  BY OccurrencesConcat
<1>3. toBroker # <<>> => \A e :
          Occurrences(toBroker, e)
              = Occurrences(Tail(toBroker), e) + (IF Head(toBroker) = e THEN 1 ELSE 0)
  BY OccurrencesTail
<1>. QED  BY <1>1, <1>2, <1>3

\* How the actions change what occurs in _pending_events.
LEMMA CountPending ==
    ASSUME TypeOK
    PROVE  /\ \A f \in PendingEvents : \A e :
                 Occurrences(Append(pendingEvents, f), e)
                     = Occurrences(pendingEvents, e) + (IF f = e THEN 1 ELSE 0)
           /\ pendingEvents # <<>> => \A e :
                 Occurrences(pendingEvents, e)
                     = Occurrences(Tail(pendingEvents), e)
                         + (IF Head(pendingEvents) = e THEN 1 ELSE 0)
<1>. USE DEF TypeOK, EventTypeOK
<1>1. \A f \in PendingEvents : \A e :
          Occurrences(Append(pendingEvents, f), e)
              = Occurrences(pendingEvents, e) + (IF f = e THEN 1 ELSE 0)
  BY OccurrencesAppend
<1>2. pendingEvents # <<>> => \A e :
          Occurrences(pendingEvents, e)
              = Occurrences(Tail(pendingEvents), e)
                  + (IF Head(pendingEvents) = e THEN 1 ELSE 0)
  BY OccurrencesTail
<1>. QED  BY <1>1, <1>2

\* How the actions change what occurs in the callbacks of the connection.
LEMMA CountReady ==
    ASSUME TypeOK
    PROVE  /\ \A m \in Messages : \A e :
                 Occurrences(Append(callbacks, m), e)
                     = Occurrences(callbacks, e) + (IF m = e THEN 1 ELSE 0)
           /\ \A e : Occurrences(readyEvents \o callbacks, e)
                         = Occurrences(readyEvents, e) + Occurrences(callbacks, e)
           /\ readyEvents # <<>> => \A e :
                 Occurrences(readyEvents, e)
                     = Occurrences(Tail(readyEvents), e)
                         + (IF Head(readyEvents) = e THEN 1 ELSE 0)
<1>. USE DEF TypeOK, EventTypeOK
<1>1. \A m \in Messages : \A e :
          Occurrences(Append(callbacks, m), e)
              = Occurrences(callbacks, e) + (IF m = e THEN 1 ELSE 0)
  BY OccurrencesAppend
<1>2. \A e : Occurrences(readyEvents \o callbacks, e)
                  = Occurrences(readyEvents, e) + Occurrences(callbacks, e)
  BY OccurrencesConcat
<1>3. readyEvents # <<>> => \A e :
          Occurrences(readyEvents, e)
              = Occurrences(Tail(readyEvents), e)
                  + (IF Head(readyEvents) = e THEN 1 ELSE 0)
  BY OccurrencesTail
<1>. QED  BY <1>1, <1>2, <1>3

\* Every place of a delivery holds it a natural number of times.
LEMMA PlaceTypes ==
    ASSUME TypeOK, NEW m \in Messages
    PROVE  /\ Arriving(m) \in Nat /\ InThread(m) \in Nat /\ AckReady(m) \in Nat
           /\ Sent("ack", m) \in Nat /\ Sent("reject", m) \in Nat
<1>1. Arriving(m) \in Nat
  BY CountTypes DEF Arriving
<1>2. InThread(m) \in Nat
  BY DEF InThread
<1>3. AckReady(m) \in Nat
  BY CountTypes DEF AckReady
<1>4. Sent("ack", m) \in Nat /\ Sent("reject", m) \in Nat
  BY CountTypes DEF Sent
<1>. QED  BY <1>1, <1>2, <1>3, <1>4

\* The ack of the message was handed over, or written.
Handed(m) == AckReady(m) + Sent("ack", m)

\* A step of the program gives a message no new place and takes one away only
\* when the program stops consuming; what on_message has dealt with does not
\* come back to it, and a new ack comes from on_message or from a thread.
Moved(m) ==
    /\ \/ Handed(m)' <= Handed(m)
       \/ OnMessage /\ heldCount >= MaxHeld /\ cur = m
       \/ ScheduleAck(m) /\ conn # "closed"
    /\ Places(m)' <= Places(m)
    /\ Consuming' => Consuming /\ Places(m)' = Places(m)
    /\ Arriving(m)' + Sent("reject", m)' <= Arriving(m) + Sent("reject", m)

\* A step that leaves every place alone.
LEMMA MovedNothing ==
    ASSUME TypeOK, NEW m \in Messages, Arriving(m)' = Arriving(m), InThread(m)' = InThread(m),
           AckReady(m)' = AckReady(m), Sent("ack", m)' = Sent("ack", m),
           Sent("reject", m)' = Sent("reject", m),
           Consuming' => Consuming
    PROVE  Moved(m)
BY PlaceTypes DEF Moved, Handed, Places, Settling

\* The transport hands a delivery from the stream to _pending_events, or drops it
\* when the channel no longer takes it.
LEMMA ReadMoves ==
    ASSUME TypeOK, Control, Running, FrameOrder, IoRead, NEW m \in Messages
    PROVE  Moved(m)
<1>. DEFINE f == Head(toClient)
            d == MsgFrame("deliver", m)
            hit == IF f = d THEN 1 ELSE 0
            C == IF pc \in {"onmessage", "increment"} /\ cur = m THEN 1 ELSE 0
<1>1. /\ f \in ClientFrames /\ toClient # <<>> /\ toClient' = Tail(toClient)
      /\ f = toClient[1] /\ 1 \in DOMAIN toClient
      /\ UNCHANGED <<brokerVars, toBroker, callbacks, mainVars, holdVars>>
  BY QueueTypes DEF IoRead, TypeOK, WireTypeOK
<1>2. readyEvents' = readyEvents /\ (chan' = "open" => chan = "open")
  BY DEF IoRead, OnDeliver, OnCancel, OnCancelOk, OnChannelClose, OnChannelCloseOk,
     OnStreamTerminated, ChannelClosed, connVars
<1>3. InThread(m)' = InThread(m) /\ AckReady(m)' = AckReady(m) /\ (Consuming' => Consuming)
  BY <1>1, <1>2 DEF InThread, AckReady, holdVars, Consuming, ChannelKnown, mainVars,
     brokerVars
<1>4. Occurrences(toClient, d) = Occurrences(toClient', d) + hit
  BY <1>1, CountClient
<1>5. /\ Occurrences(toClient, d) \in Nat /\ Occurrences(toClient', d) \in Nat
      /\ Occurrences(pendingEvents, d) \in Nat /\ C \in Nat
      /\ InThread(m) \in Nat /\ AckReady(m) \in Nat
      /\ Sent("ack", m) \in Nat /\ Sent("reject", m) \in Nat
  BY <1>1, QueueTypes, PositionsFinite, CountTypes, PlaceTypes
<1>6. /\ Arriving(m) = Occurrences(toClient, d) + Occurrences(pendingEvents, d) + C
      /\ Arriving(m)' = Occurrences(toClient', d) + Occurrences(pendingEvents', d) + C
  BY <1>1 DEF Arriving, mainVars
<1>. HIDE DEF f, d, hit, C
<1>7. /\ f = d <=> f.type = "deliver" /\ f.msg = m
      /\ f.type = "deliver" => f.msg \in Messages
      /\ f.type = "deliver" => tag # "gone"
  BY <1>1, FrameForm, FrameEquality DEF d, FrameOrder
\* What was read is dropped only when the program does not consume any more.
<1>8. ASSUME /\ Occurrences(pendingEvents', d) \in Nat
             /\ Sent("ack", m)' \in Nat /\ Sent("ack", m)' <= Sent("ack", m)
             /\ Sent("reject", m)' \in Nat
             /\ Occurrences(pendingEvents', d) + Sent("reject", m)'
                   <= Occurrences(pendingEvents, d) + hit + Sent("reject", m)
             /\ Consuming' => /\ Sent("ack", m)' = Sent("ack", m)
                              /\ Occurrences(pendingEvents', d) + Sent("reject", m)'
                                    = Occurrences(pendingEvents, d) + hit + Sent("reject", m)
      PROVE  Moved(m)
  BY <1>3, <1>4, <1>5, <1>6, <1>8 DEF Moved, Handed, Places, Settling, hit
<1>9. CASE f.type = "deliver" /\ OnDeliver(f.msg)
  <2>1. CASE /\ chan # "closed" /\ tag = "consuming"
             /\ pendingEvents' = Append(pendingEvents, MsgFrame("deliver", f.msg))
                  /\ UNCHANGED outbuf
    <3>1. Occurrences(pendingEvents', d) = Occurrences(pendingEvents, d) + hit
      BY <1>7, <1>9, <2>1, CountPending, FrameTypes, FrameEquality DEF d, hit
    <3>2. Sent("ack", m)' = Sent("ack", m) /\ Sent("reject", m)' = Sent("reject", m)
      BY <1>1, <2>1 DEF Sent
    <3>. QED  BY <1>5, <1>8, <3>1, <3>2 DEF hit
  <2>2. CASE /\ chan = "open" /\ tag = "cancelling"
             /\ outbuf' = Append(outbuf, MsgFrame("reject", f.msg)) /\ UNCHANGED pendingEvents
    <3>1. Sent("ack", m)' = Sent("ack", m)
      BY <1>1, <1>7, <1>9, <2>2, CountBroker, CountTypes, FrameTypes, FrameEquality
         DEF Sent
    <3>2. Sent("reject", m)' = Sent("reject", m) + hit
      <4>1. Occurrences(outbuf', MsgFrame("reject", m)) = Occurrences(outbuf, MsgFrame("reject", m))
                + (IF f.msg = m THEN 1 ELSE 0)
        BY <1>7, <1>9, <2>2, CountBroker, FrameTypes, FrameEquality
      <4>2. hit = IF f.msg = m THEN 1 ELSE 0
        BY <1>7, <1>9 DEF hit
      <4>. QED  BY <1>1, <4>1, <4>2, CountTypes DEF Sent
    <3>. QED  BY <1>5, <1>8, <2>2, <3>1, <3>2 DEF hit
  <2>3. CASE chan # "open" /\ UNCHANGED <<pendingEvents, outbuf>>
    <3>1. Sent("ack", m)' = Sent("ack", m) /\ Sent("reject", m)' = Sent("reject", m)
      BY <1>1, <2>3 DEF Sent
    <3>2. ~Consuming'
      BY <1>2, <2>3 DEF Consuming
    <3>. QED  BY <1>5, <1>8, <2>3, <3>1, <3>2 DEF hit
  <2>. QED  BY <1>7, <1>9, <2>1, <2>2, <2>3 DEF OnDeliver, TypeOK, ConnTypeOK
<1>10. CASE f.type = "cancel" /\ OnCancel
  <2>1. Occurrences(pendingEvents', d) = Occurrences(pendingEvents, d) /\ UNCHANGED outbuf
    <3>1. UNCHANGED outbuf /\ (pendingEvents' = pendingEvents
          \/ pendingEvents' = Append(pendingEvents, Frame("cancel")))
      BY <1>10 DEF OnCancel
    <3>2. Occurrences(Append(pendingEvents, Frame("cancel")), d) = Occurrences(pendingEvents, d)
      BY <1>5, CountPending, FrameTypes, FrameEquality DEF d
    <3>. QED  BY <3>1, <3>2
  <2>2. Sent("ack", m)' = Sent("ack", m) /\ Sent("reject", m)' = Sent("reject", m)
    BY <1>1, <2>1 DEF Sent
  <2>. QED  BY <1>5, <1>7, <1>8, <1>10, <2>1, <2>2 DEF hit
<1>11. CASE f.type = "cancelok" /\ OnCancelOk
  <2>1. Sent("ack", m)' = Sent("ack", m) /\ Sent("reject", m)' = Sent("reject", m)
    BY <1>1, <1>11 DEF Sent, OnCancelOk
  <2>. QED  BY <1>5, <1>7, <1>8, <1>11, <2>1 DEF OnCancelOk, hit
<1>12. CASE f.type # "deliver" /\ (OnChannelClose \/ OnChannelCloseOk \/ OnStreamTerminated)
  <2>1. pendingEvents' = pendingEvents \/ (~Consuming' /\ pendingEvents' = <<>>)
    BY <1>12 DEF OnChannelClose, OnChannelCloseOk, OnStreamTerminated, ChannelClosed,
       Consuming
  <2>2. \/ outbuf' = outbuf \/ outbuf' = Append(outbuf, Frame("chancloseok"))
        \/ ~Consuming' /\ outbuf' = <<>>
    BY <1>12 DEF OnChannelClose, OnChannelCloseOk, OnStreamTerminated, ChannelClosed,
       Consuming
  <2>3. Occurrences(pendingEvents', d) = Occurrences(pendingEvents, d)
          \/ (~Consuming' /\ Occurrences(pendingEvents', d) = 0)
    BY <2>1, OccurrencesEmpty
  <2>4. ASSUME NEW t \in {"ack", "reject"}
        PROVE  /\ Sent(t, m)' = Sent(t, m)
                    \/ (~Consuming' /\ Sent(t, m)' \in Nat /\ Sent(t, m)' <= Sent(t, m))
    <3>1. Occurrences(Append(outbuf, Frame("chancloseok")), MsgFrame(t, m))
          = Occurrences(outbuf, MsgFrame(t, m))
      BY CountBroker, CountTypes, FrameTypes, FrameEquality
    <3>2. Occurrences(toBroker', MsgFrame(t, m)) = Occurrences(toBroker, MsgFrame(t, m))
      BY <1>1
    <3>3. \/ Occurrences(outbuf', MsgFrame(t, m)) = Occurrences(outbuf, MsgFrame(t, m))
          \/ ~Consuming' /\ Occurrences(outbuf', MsgFrame(t, m)) = 0
      BY <2>2, <3>1, OccurrencesEmpty
    <3>. QED  BY <3>2, <3>3, CountTypes DEF Sent
  <2>5. hit = 0
    BY <1>7, <1>12 DEF hit
  <2>. QED  BY <1>5, <1>8, <2>3, <2>4, <2>5
<1>. QED  BY <1>9, <1>10, <1>11, <1>12 DEF IoRead, f

\* The frames that say nothing about a message are in nobody's way.
LEMMA OtherFrames ==
    ASSUME TypeOK, NEW m \in Messages, NEW t \in {"ack", "reject"}
    PROVE  /\ Occurrences(Append(outbuf, Frame("cancel")), MsgFrame(t, m)) = Occurrences(outbuf,
                MsgFrame(t, m))
           /\ Occurrences(Append(outbuf, Frame("chanclose")), MsgFrame(t, m))
                = Occurrences(outbuf, MsgFrame(t, m))
           /\ Occurrences(Append(outbuf, Frame("connclose")), MsgFrame(t, m))
                = Occurrences(outbuf, MsgFrame(t, m))
BY CountBroker, CountTypes, FrameTypes, FrameEquality

\* A settlement that is written counts for its own message only.
LEMMA SettleFrames ==
    ASSUME TypeOK, NEW n \in Messages, NEW m \in Messages, NEW t \in {"ack", "reject"},
           NEW u \in {"ack", "reject"}
    PROVE  Occurrences(Append(outbuf, MsgFrame(t, n)), MsgFrame(u, m))
              = Occurrences(outbuf, MsgFrame(u, m)) + (IF t = u /\ n = m THEN 1 ELSE 0)
<1>1. MsgFrame(t, n) \in BrokerFrames
  BY FrameTypes
<1>2. MsgFrame(t, n) = MsgFrame(u, m) <=> t = u /\ n = m
  BY FrameEquality
<1>3. Occurrences(Append(outbuf, MsgFrame(t, n)), MsgFrame(u, m))
        = Occurrences(outbuf, MsgFrame(u, m)) + (IF MsgFrame(t, n) = MsgFrame(u, m) THEN 1 ELSE 0)
  BY <1>1, CountBroker
<1>. QED  BY <1>2, <1>3

\* The steps of the event loop and of on_message.
LEMMA LoopMoves ==
    ASSUME TypeOK, Control, Fresh, Placement, NEW m \in Messages,
           \/ Loop \/ IoDone \/ DispatchReady \/ DispatchChannel \/ DispatchEvent
           \/ OnMessage \/ OnMessageIncrement \/ OnMessageStart \/ FlushDone
    PROVE  Moved(m)
<1>1. /\ Arriving(m) \in Nat /\ InThread(m) \in Nat /\ AckReady(m) \in Nat
      /\ Sent("ack", m) \in Nat /\ Sent("reject", m) \in Nat
  BY PlaceTypes
<1>2. CASE Loop \/ DispatchChannel
  <2>1. UNCHANGED <<toClient, toBroker, pendingEvents, callbacks, readyEvents, outbuf, worker,
        chan, broker>>
    BY <1>2 DEF Loop, DispatchChannel, wires, eventVars, connVars, brokerVars, holdVars
  <2>2. pc \in TryPcs /\ pc \notin {"onmessage", "increment"}
        /\ pc' \notin {"onmessage", "increment"}
    BY <1>2 DEF Loop, DispatchChannel, Goto, TryPcs
  <2>. QED  BY <2>1, <2>2, MovedNothing DEF Arriving, InThread, AckReady, Sent, Consuming,
               ChannelKnown
<1>3. CASE IoDone \/ FlushDone
  <2>1. UNCHANGED <<toClient, toBroker, pendingEvents, callbacks, outbuf, worker, chan, broker>>
    BY <1>3 DEF IoDone, FlushDone, Cleanup, wires, eventVars, connVars, brokerVars, holdVars
  <2>2. pc \in TryPcs /\ pc \notin {"onmessage", "increment"}
        /\ pc' \notin {"onmessage", "increment"}
    BY <1>3 DEF IoDone, FlushDone, Goto, TryPcs, TypeOK, MainTypeOK
  <2>3. UNCHANGED readyEvents \/ (readyEvents' = <<>> /\ ~Consuming')
    BY <1>3 DEF IoDone, FlushDone, Cleanup, Goto, Consuming, TryPcs, eventVars
  <2>4. CASE UNCHANGED readyEvents
    BY <2>1, <2>2, <2>4, MovedNothing DEF Arriving, InThread, AckReady, Sent, Consuming,
       ChannelKnown
  <2>5. CASE readyEvents' = <<>> /\ ~Consuming'
    <3>1. Arriving(m)' = Arriving(m) /\ InThread(m)' = InThread(m)
          /\ Sent("ack", m)' = Sent("ack", m) /\ Sent("reject", m)' = Sent("reject", m)
      BY <2>1, <2>2 DEF Arriving, InThread, Sent
    <3>2. AckReady(m)' \in Nat /\ AckReady(m)' <= AckReady(m)
      BY <2>1, <2>5, OccurrencesEmpty, CountTypes DEF AckReady
    <3>. QED  BY <1>1, <2>5, <3>1, <3>2 DEF Moved, Handed, Places, Settling
  <2>. QED  BY <2>3, <2>4, <2>5
<1>4. CASE DispatchReady
  <2>1. UNCHANGED <<toClient, toBroker, pendingEvents, callbacks, worker, chan, broker>>
    BY <1>4 DEF DispatchReady, wires, eventVars, connVars, brokerVars, holdVars
  <2>2. pc \in TryPcs /\ pc \notin {"onmessage", "increment"}
        /\ pc' \notin {"onmessage", "increment"}
    BY <1>4 DEF DispatchReady, Goto, AckAndFlush, TryPcs
  <2>3. CASE UNCHANGED <<readyEvents, outbuf>>
    BY <2>1, <2>2, <2>3, MovedNothing DEF Arriving, InThread, AckReady, Sent, Consuming,
       ChannelKnown
  <2>. DEFINE hit == IF Head(readyEvents) = m THEN 1 ELSE 0
  <2>4. ASSUME readyEvents # <<>>, readyEvents' = Tail(readyEvents)
        PROVE  AckReady(m) = AckReady(m)' + hit /\ AckReady(m)' \in Nat
    <3>1. Occurrences(readyEvents, m) = Occurrences(readyEvents', m) + hit
      BY <2>4, CountReady
    <3>2. Occurrences(readyEvents', m) \in Nat
      BY <2>4, QueueTypes, PositionsFinite
    <3>. QED  BY <2>1, <3>1, <3>2, CountTypes DEF AckReady
  <2>5. Arriving(m)' = Arriving(m) /\ InThread(m)' = InThread(m)
    BY <2>1, <2>2 DEF Arriving, InThread
  <2>6. CASE readyEvents # <<>> /\ readyEvents' = Tail(readyEvents) /\ chan = "open"
             /\ outbuf' = Append(outbuf, MsgFrame("ack", Head(readyEvents)))
    <3>1. Sent("ack", m)' = Sent("ack", m) + hit
      <4>1. Occurrences(outbuf', MsgFrame("ack", m)) = Occurrences(outbuf, MsgFrame("ack", m)) + hit
        BY <2>6, QueueTypes, FrameTypes, FrameEquality, CountBroker
      <4>. QED  BY <2>1, <4>1, CountTypes DEF Sent
    <3>2. Sent("reject", m)' = Sent("reject", m)
      <4>1. Occurrences(outbuf', MsgFrame("reject", m)) = Occurrences(outbuf, MsgFrame("reject", m))
        <5>1. Occurrences(outbuf', MsgFrame("reject", m)) = Occurrences(outbuf,
              MsgFrame("reject", m)) + 0
          BY <2>6, QueueTypes, SettleFrames
        <5>. QED  BY <5>1, CountTypes
      <4>. QED  BY <2>1, <4>1 DEF Sent
    <3>3. AckReady(m) = AckReady(m)' + hit /\ AckReady(m)' \in Nat
      BY <2>4, <2>6
    <3>4. Handed(m)' = Handed(m) /\ Settling(m)' = Settling(m) + hit
      BY <1>1, <3>1, <3>2, <3>3 DEF Handed, Settling
    <3>5. Places(m)' = Places(m)
      BY <1>1, <2>5, <3>1, <3>2, <3>3 DEF Places, Settling
    <3>6. Handed(m) \in Nat /\ Places(m) \in Nat
      BY <1>1 DEF Handed, Places, Settling
    <3>7. Consuming' => Consuming
      BY <2>1, <2>2, <2>6 DEF Consuming, ChannelKnown
    <3>. QED  BY <1>1, <2>5, <3>2, <3>4, <3>5, <3>6, <3>7 DEF Moved
  <2>7. CASE readyEvents # <<>> /\ readyEvents' = Tail(readyEvents) /\ chan # "open"
        /\ UNCHANGED outbuf
    <3>1. Sent("ack", m)' = Sent("ack", m) /\ Sent("reject", m)' = Sent("reject", m)
      BY <2>1, <2>7 DEF Sent
    <3>. QED  BY <1>1, <2>1, <2>4, <2>5, <2>7, <3>1 DEF Moved, Handed, Places, Settling,
                 Consuming
  <2>. QED  BY <1>4, <2>3, <2>6, <2>7 DEF DispatchReady, AckAndFlush
<1>5. CASE DispatchEvent
  <2>1. UNCHANGED <<toClient, toBroker, callbacks, readyEvents, outbuf, worker, chan, broker>>
    BY <1>5 DEF DispatchEvent, wires, eventVars, connVars, brokerVars, holdVars
  <2>2. InThread(m)' = InThread(m) /\ AckReady(m)' = AckReady(m)
        /\ Sent("ack", m)' = Sent("ack", m) /\ Sent("reject", m)' = Sent("reject", m)
    BY <2>1 DEF InThread, AckReady, Sent
  <2>. DEFINE d == MsgFrame("deliver", m)
  <2>3. Arriving(m)' = Arriving(m)
    <3>1. CASE pendingEvents = <<>>
      BY <1>5, <2>1, <3>1 DEF DispatchEvent, Goto, Arriving
    <3>2. CASE pendingEvents # <<>>
      <4>1. Occurrences(pendingEvents, d) = Occurrences(pendingEvents', d)
              + (IF Head(pendingEvents) = d THEN 1 ELSE 0)
        BY <1>5, <3>2, CountPending DEF DispatchEvent
      <4>2. Head(pendingEvents) = d <=> Head(pendingEvents).type = "deliver"
            /\ Head(pendingEvents).msg = m
        BY <3>2, QueueTypes, FrameForm, FrameEquality
      <4>3. (IF pc' \in {"onmessage", "increment"} /\ cur' = m THEN 1 ELSE 0)
              = (IF Head(pendingEvents) = d THEN 1 ELSE 0)
        BY <1>5, <3>2, <4>2 DEF DispatchEvent
      <4>4. pc \notin {"onmessage", "increment"}
        BY <1>5 DEF DispatchEvent
      <4>5. Occurrences(pendingEvents', d) \in Nat
        BY <1>5, <3>2, QueueTypes, PositionsFinite DEF DispatchEvent
      <4>. QED  BY <2>1, <4>1, <4>3, <4>4, <4>5, CountTypes DEF Arriving
    <3>. QED  BY <3>1, <3>2
  <2>4. Consuming' => Consuming
    BY <1>5, <2>1 DEF DispatchEvent, Consuming, ChannelKnown, TryPcs
  <2>. QED  BY <2>2, <2>3, <2>4, MovedNothing
<1>6. CASE OnMessage
  <2>1. UNCHANGED <<toClient, toBroker, pendingEvents, callbacks, readyEvents, worker, chan,
        broker>>
    BY <1>6 DEF OnMessage, wires, eventVars, connVars, brokerVars, holdVars
  <2>2. InThread(m)' = InThread(m) /\ AckReady(m)' = AckReady(m)
    BY <2>1 DEF InThread, AckReady
  <2>3. CASE UNCHANGED <<outbuf, cur>> /\ pc = "onmessage" /\ pc' = "increment"
    BY <2>1, <2>2, <2>3, MovedNothing DEF Arriving, Sent, Consuming, ChannelKnown, TryPcs
  <2>4. CASE outbuf' = Append(outbuf, MsgFrame("ack", cur)) /\ pc = "onmessage" /\ pc' = "flush"
             /\ heldCount >= MaxHeld
    <3>. DEFINE hit == IF cur = m THEN 1 ELSE 0
    <3>1. Sent("ack", m)' = Sent("ack", m) + hit
      <4>1. cur \in Messages
        BY <2>4 DEF TypeOK, MainTypeOK
      <4>2. Occurrences(outbuf', MsgFrame("ack", m)) = Occurrences(outbuf, MsgFrame("ack", m)) + hit
        BY <2>4, <4>1, FrameTypes, FrameEquality, CountBroker
      <4>. QED  BY <2>1, <4>2, CountTypes DEF Sent
    <3>2. Sent("reject", m)' = Sent("reject", m)
      BY <2>1, <2>4, FrameTypes, FrameEquality, CountBroker, CountTypes DEF Sent, TypeOK,
         MainTypeOK
    <3>3. Arriving(m) = Arriving(m)' + hit /\ Arriving(m)' \in Nat
      BY <2>1, <2>4, CountTypes DEF Arriving
    <3>4. Consuming' => Consuming
      BY <2>1, <2>4 DEF Consuming, ChannelKnown, TryPcs
    <3>5. Handed(m)' = Handed(m) + hit /\ Handed(m) \in Nat
      BY <1>1, <2>2, <3>1 DEF Handed
    <3>6. Places(m)' = Places(m) /\ Places(m)' <= Places(m)
      BY <1>1, <2>2, <3>1, <3>2, <3>3 DEF Places, Settling
    <3>7. Handed(m)' <= Handed(m) \/ cur = m
      BY <3>5
    <3>. QED  BY <1>1, <1>6, <2>4, <3>2, <3>3, <3>4, <3>6, <3>7 DEF Moved
  <2>. QED  BY <1>6, <2>3, <2>4 DEF OnMessage, AckAndFlush, Goto
<1>7. CASE OnMessageIncrement
  <2>1. UNCHANGED <<toClient, toBroker, pendingEvents, callbacks, readyEvents, outbuf, cur,
        chan, broker>>
        /\ pc = "increment" /\ pc' = "start" /\ worker' = [worker EXCEPT ![cur] = "unstarted"]
             /\ cur \in Messages
    BY <1>7 DEF OnMessageIncrement, Goto, wires, eventVars, connVars, brokerVars, TypeOK,
       MainTypeOK
  <2>. DEFINE hit == IF cur = m THEN 1 ELSE 0
  <2>2. AckReady(m)' = AckReady(m)
        /\ Sent("ack", m)' = Sent("ack", m) /\ Sent("reject", m)' = Sent("reject", m)
    BY <2>1 DEF AckReady, Sent
  <2>3. Arriving(m) = Arriving(m)' + hit /\ Arriving(m)' \in Nat
    BY <2>1, CountTypes DEF Arriving
  <2>4. cur = m => InThread(m) = 0
    <3>1. Places(m) <= 1
      BY DEF Placement, Placed
    <3>. QED  BY <1>1, <2>3, <3>1 DEF Places, Settling
  <2>5. InThread(m)' = InThread(m) + hit
    BY <2>1, <2>4 DEF InThread, TypeOK, HoldTypeOK
  <2>6. Consuming' => Consuming
    BY <2>1 DEF Consuming, ChannelKnown, TryPcs
  <2>. QED  BY <1>1, <2>2, <2>3, <2>5, <2>6 DEF Moved, Handed, Places, Settling
<1>8. CASE OnMessageStart
  <2>1. UNCHANGED <<toClient, toBroker, pendingEvents, callbacks, readyEvents, outbuf, chan,
        broker>>
        /\ pc = "start" /\ pc' \in {"events", "close"}
    BY <1>8 DEF OnMessageStart, wires, eventVars, connVars, brokerVars
  <2>2. InThread(m)' = InThread(m)
    BY <1>8 DEF OnMessageStart, InThread, Fresh, TypeOK, HoldTypeOK
  <2>. QED  BY <2>1, <2>2, MovedNothing DEF Arriving, AckReady, Sent, Consuming,
               ChannelKnown, TryPcs
<1>. QED  BY <1>2, <1>3, <1>4, <1>5, <1>6, <1>7, <1>8

\* The steps of the threads, which hand over the ack they hold.
LEMMA WorkerMoves ==
    ASSUME TypeOK, Control, NEW n \in Messages, Worker(n), NEW m \in Messages
    PROVE  Moved(m)
<1>1. /\ Arriving(m) \in Nat /\ InThread(m) \in Nat /\ AckReady(m) \in Nat
      /\ Sent("ack", m) \in Nat /\ Sent("reject", m) \in Nat
  BY PlaceTypes
<1>2. UNCHANGED <<toClient, toBroker, pendingEvents, readyEvents, outbuf, pc, cur, chan, broker>>
  BY DEF Worker, DelayOver, ScheduleAck, WorkerDecrement, wires, eventVars, connVars,
     brokerVars, mainVars
<1>3. Arriving(m)' = Arriving(m) /\ Sent("ack", m)' = Sent("ack", m)
      /\ Sent("reject", m)' = Sent("reject", m) /\ Consuming' = Consuming
  BY <1>2 DEF Arriving, Sent, Consuming, ChannelKnown
<1>4. CASE DelayOver(n) \/ WorkerDecrement(n)
  <2>1. InThread(m)' = InThread(m) /\ callbacks' = callbacks
    BY <1>4 DEF DelayOver, WorkerDecrement, InThread, TypeOK, HoldTypeOK, eventVars
  <2>. QED  BY <1>2, <1>3, <2>1, MovedNothing DEF AckReady
<1>5. CASE ScheduleAck(n)
  <2>. DEFINE hit == IF n = m THEN 1 ELSE 0
  <2>1. InThread(m) = InThread(m)' + hit /\ InThread(m)' \in Nat
    BY <1>5 DEF ScheduleAck, InThread, TypeOK, HoldTypeOK
  <2>2. CASE conn = "closed" /\ UNCHANGED callbacks
    BY <1>1, <1>2, <1>3, <2>1, <2>2 DEF AckReady, Moved, Handed, Places, Settling,
       Consuming, Control
  <2>3. CASE conn # "closed" /\ callbacks' = Append(callbacks, n)
    <3>1. AckReady(m)' = AckReady(m) + hit
      BY <1>2, <2>3, CountReady, CountTypes DEF AckReady
    <3>2. Handed(m)' <= Handed(m) \/ n = m
      BY <1>1, <1>3, <3>1 DEF Handed
    <3>3. Places(m)' = Places(m) /\ Places(m) \in Nat
      BY <1>1, <1>3, <2>1, <3>1 DEF Places, Settling
    <3>. QED  BY <1>1, <1>3, <1>5, <2>3, <3>2, <3>3 DEF Moved
  <2>. QED  BY <1>5, <2>2, <2>3 DEF ScheduleAck
<1>. QED  BY <1>4, <1>5 DEF Worker

\* The transport and the callbacks: what is written or queued moves on.
LEMMA IoMoves ==
    ASSUME TypeOK, IoWrite \/ IoCallbacks, NEW m \in Messages
    PROVE  Moved(m)
<1>1. /\ Arriving(m) \in Nat /\ InThread(m) \in Nat /\ AckReady(m) \in Nat
      /\ Sent("ack", m) \in Nat /\ Sent("reject", m) \in Nat
  BY PlaceTypes
<1>2. UNCHANGED <<toClient, pendingEvents, worker, pc, cur, chan, broker>>
  BY DEF IoWrite, IoCallbacks, wires, eventVars, connVars, brokerVars, mainVars, holdVars
<1>3. Arriving(m)' = Arriving(m) /\ InThread(m)' = InThread(m) /\ Consuming' = Consuming
  BY <1>2 DEF Arriving, InThread, Consuming, ChannelKnown
<1>4. CASE IoWrite
  <2>1. ASSUME NEW t \in {"ack", "reject"}
        PROVE  /\ Sent(t, m)' \in Nat /\ Sent(t, m)' <= Sent(t, m)
               /\ broker # "down" => Sent(t, m)' = Sent(t, m)
    <3>. DEFINE e == MsgFrame(t, m)
    <3>1. Occurrences(outbuf', e) = 0
      BY <1>4, OccurrencesEmpty DEF IoWrite
    <3>2. Occurrences(toBroker', e) =
              IF broker = "down" THEN Occurrences(toBroker, e)
              ELSE Occurrences(toBroker, e) + Occurrences(outbuf, e)
      BY <1>4, CountBroker DEF IoWrite
    <3>. QED  BY <3>1, <3>2, CountTypes DEF Sent
  <2>2. AckReady(m)' = AckReady(m)
    BY <1>4 DEF IoWrite, eventVars, AckReady
  <2>. QED  BY <1>1, <1>3, <2>1, <2>2 DEF Moved, Handed, Places, Settling, Consuming,
               ChannelKnown
<1>5. CASE IoCallbacks
  <2>1. Sent("ack", m)' = Sent("ack", m) /\ Sent("reject", m)' = Sent("reject", m)
    BY <1>5 DEF IoCallbacks, wires, Sent
  <2>2. AckReady(m)' = AckReady(m)
    <3>1. Occurrences(readyEvents', m) = Occurrences(readyEvents, m) + Occurrences(callbacks, m)
      BY <1>5, CountReady DEF IoCallbacks
    <3>2. Occurrences(callbacks', m) = 0
      BY <1>5, OccurrencesEmpty DEF IoCallbacks
    <3>. QED  BY <3>1, <3>2, CountTypes DEF AckReady
  <2>. QED  BY <1>3, <2>1, <2>2, MovedNothing
<1>. QED  BY <1>4, <1>5

\* The interrupt and the shutdown.
LEMMA CloseMoves ==
    ASSUME TypeOK, NEW m \in Messages,
           \/ Interrupt \/ Stop \/ RejectPending \/ SendCancel \/ CancelDone
           \/ Close \/ ChannelCloseDone \/ ConnectionCloseDone
    PROVE  Moved(m)
<1>. DEFINE d == MsgFrame("deliver", m)
            C == IF pc \in {"onmessage", "increment"} /\ cur = m THEN 1 ELSE 0
<1>1. UNCHANGED <<toClient, toBroker, callbacks, worker>>
  BY DEF Interrupt, Stop, RejectPending, SendCancel, CancelDone, CancelFails, Close,
     ChannelCloseDone, ConnectionCloseDone, Cleanup, wires, eventVars, brokerVars, holdVars
<1>2. pc' \notin TryPcs /\ pc' \notin {"onmessage", "increment"} /\ ~Consuming'
  BY DEF Interrupt, Stop, RejectPending, SendCancel, CancelDone, Close, ChannelCloseDone,
     ConnectionCloseDone, Goto, mainVars, TryPcs, Consuming
<1>3. InThread(m)' = InThread(m)
  BY <1>1 DEF InThread
<1>4. AckReady(m)' \in Nat /\ AckReady(m)' <= AckReady(m)
  <2>1. readyEvents' = readyEvents \/ readyEvents' = <<>>
    BY DEF Interrupt, Stop, RejectPending, SendCancel, CancelDone, CancelFails, Close,
       ChannelCloseDone, ConnectionCloseDone, Cleanup, eventVars
  <2>2. Occurrences(readyEvents', m) = Occurrences(readyEvents, m)
        \/ Occurrences(readyEvents', m) = 0
    BY <2>1, OccurrencesEmpty
  <2>. QED  BY <1>1, <2>2, CountTypes DEF AckReady
<1>5. /\ Arriving(m) = Occurrences(toClient, d) + Occurrences(pendingEvents, d) + C
      /\ Arriving(m)' = Occurrences(toClient, d) + Occurrences(pendingEvents', d) + 0
  BY <1>1, <1>2 DEF Arriving
<1>6. /\ Occurrences(toClient, d) \in Nat /\ Occurrences(pendingEvents, d) \in Nat /\ C \in Nat
      /\ InThread(m) \in Nat /\ AckReady(m) \in Nat /\ Sent("ack", m) \in Nat
           /\ Sent("reject", m) \in Nat
  BY CountTypes, PlaceTypes
<1>. HIDE DEF C, d
<1>7. CASE RejectPending
  <2>. DEFINE h == Head(pendingEvents)
              hit == IF h = d THEN 1 ELSE 0
  <2>1. h \in PendingEvents /\ pendingEvents' = Tail(pendingEvents) /\ pendingEvents # <<>>
    BY <1>7, QueueTypes DEF RejectPending
  <2>2. Occurrences(pendingEvents, d) = Occurrences(pendingEvents', d) + hit
        /\ Occurrences(pendingEvents', d) \in Nat
    BY <2>1, CountPending, QueueTypes, PositionsFinite
  <2>3. (h = d <=> h.type = "deliver" /\ h.msg = m) /\ (h.type = "deliver" => h.msg \in Messages)
    BY <2>1, FrameForm, FrameEquality DEF d
  <2>. HIDE DEF h
  <2>4. Sent("ack", m)' = Sent("ack", m)
    <3>1. outbuf' = outbuf \/ (h.type = "deliver"
          /\ outbuf' = Append(outbuf, MsgFrame("reject", h.msg)))
      BY <1>7 DEF RejectPending, h
    <3>2. Occurrences(outbuf', MsgFrame("ack", m)) = Occurrences(outbuf, MsgFrame("ack", m))
      <4>1. \/ outbuf' = outbuf
            \/ Occurrences(outbuf', MsgFrame("ack", m)) = Occurrences(outbuf, MsgFrame("ack",
                 m)) + 0
        <5>1. h.type = "deliver"
              => Occurrences(Append(outbuf, MsgFrame("reject", h.msg)), MsgFrame("ack", m))
                                      = Occurrences(outbuf, MsgFrame("ack", m)) + 0
          BY <2>3, SettleFrames
        <5>. QED  BY <3>1, <5>1
      <4>. QED  BY <4>1, CountTypes
    <3>. QED  BY <1>1, <3>2 DEF Sent
  <2>5. Sent("reject", m)' = Sent("reject", m) + hit
    <3>1. Occurrences(outbuf', MsgFrame("reject", m)) = Occurrences(outbuf, MsgFrame("reject",
          m)) + hit
      <4>1. CASE h.type = "deliver"
        BY <1>7, <2>3, <4>1, CountBroker, FrameTypes, FrameEquality DEF RejectPending, h
      <4>2. CASE h.type # "deliver"
        BY <1>7, <2>3, <4>2, CountTypes DEF RejectPending, h
      <4>. QED  BY <4>1, <4>2
    <3>. QED  BY <1>1, <3>1, CountTypes DEF Sent
  <2>. HIDE DEF hit
  <2>. QED  BY <1>2, <1>3, <1>4, <1>5, <1>6, <2>2, <2>4, <2>5 DEF Moved, Handed, Places,
               Settling, hit
<1>8. CASE Interrupt \/ Stop \/ SendCancel \/ CancelDone \/ Close \/ ChannelCloseDone
      \/ ConnectionCloseDone
  <2>1. ASSUME NEW t \in {"ack", "reject"} PROVE Sent(t, m)' = Sent(t, m)
    <3>1. outbuf' \in {outbuf, Append(outbuf, Frame("cancel")), Append(outbuf,
          Frame("chanclose")), Append(outbuf, Frame("connclose"))}
      BY <1>8 DEF Interrupt, Stop, SendCancel, CancelDone, Close, ChannelCloseDone,
         ConnectionCloseDone
    <3>2. Occurrences(outbuf', MsgFrame(t, m)) = Occurrences(outbuf, MsgFrame(t, m))
      BY <3>1, OtherFrames
    <3>. QED  BY <1>1, <3>2 DEF Sent
  <2>2. pendingEvents' = pendingEvents \/ pendingEvents' = <<>>
    BY <1>8 DEF Interrupt, Stop, SendCancel, CancelDone, CancelFails, Close,
       ChannelCloseDone, ConnectionCloseDone, Cleanup, eventVars
  <2>3. Occurrences(pendingEvents', d) = Occurrences(pendingEvents, d)
        \/ Occurrences(pendingEvents', d) = 0
    BY <2>2, OccurrencesEmpty
  <2>. QED  BY <1>2, <1>3, <1>4, <1>5, <1>6, <2>1, <2>3 DEF Moved, Handed, Places, Settling
<1>. QED  BY <1>7, <1>8

-----------------------------------------------------------------------------
(* The account of the deliveries.                                          *)

\* A message keeps to one of the four.
LEMMA NextDisjoint ==
    ASSUME Disjoint, [Next]_vars
    PROVE  Disjoint'
<1>. USE DEF Disjoint
<1>1. ASSUME NEW m \in Messages, Publish(m) \/ Recycled(m) \/ Deliver(m)
      PROVE  Disjoint'
  BY <1>1 DEF Publish, Recycled, Deliver
<1>2. CASE BrokerReads
  <2>. DEFINE f == Head(toBroker)
  <2>1. CASE BrokerSettle(f)
    BY <1>2, <2>1 DEF BrokerReads, BrokerSettle, Requeue
  <2>2. CASE BrokerClosing(f)
    BY <1>2, <2>2 DEF BrokerReads, BrokerClosing, Requeue
  <2>3. CASE UNCHANGED <<queue, unacked, acked>>
    BY <1>2, <2>3 DEF BrokerReads
  <2>. QED  BY <1>2, <2>1, <2>2, <2>3 DEF BrokerReads
<1>3. CASE Failure
  BY <1>3 DEF Failure, BrokerCancels, ConsumerTimeout, ConnectionLost, Requeue
<1>4. CASE UNCHANGED brokerVars
  BY <1>4 DEF brokerVars
<1>5. CASE MainThread
  BY <1>4, <1>5 DEF MainThread, IoRead, IoWrite, IoCallbacks, Loop, IoDone, DispatchReady,
     DispatchChannel, DispatchEvent, OnMessage, OnMessageIncrement, OnMessageStart,
     FlushDone, Stop, RejectPending, SendCancel, CancelDone, Close, ChannelCloseDone,
     ConnectionCloseDone
<1>6. CASE (\E m \in Messages : Worker(m)) \/ Interrupt \/ Terminated \/ UNCHANGED vars
  BY <1>4, <1>6 DEF Worker, DelayOver, ScheduleAck, WorkerDecrement, Interrupt, Terminated,
     vars
<1>. QED  BY <1>1, <1>2, <1>3, <1>5, <1>6 DEF Next, BrokerStep

\* Everything but the broker and the recycling leaves the broker's state alone.
LEMMA BrokerUntouched ==
    /\ MainThread \/ Interrupt \/ (\E m \in Messages : Worker(m)) => UNCHANGED brokerVars
BY DEF MainThread, IoRead, IoWrite, IoCallbacks, Loop, IoDone, DispatchReady,
   DispatchChannel, DispatchEvent, OnMessage, OnMessageIncrement, OnMessageStart, FlushDone,
   Stop, RejectPending, SendCancel, CancelDone, Close, ChannelCloseDone,
   ConnectionCloseDone, Worker, DelayOver, ScheduleAck, WorkerDecrement, Interrupt

\* The number of places is a natural number.
LEMMA PlacesNat == TypeOK => \A m \in Messages : Places(m) \in Nat
BY PlaceTypes DEF Places, Settling

\* A step that gives a message no new place and leaves its standing with the
\* broker keeps the account.
LEMMA PlacedKept ==
    ASSUME TypeOK, TypeOK', NEW m \in Messages, Placed(m), InOnePlace(m), Places(m)' <= Places(m),
           m \in unpublished' \cup acked' => m \in unpublished \cup acked,
           ChannelKnown' => ChannelKnown /\ Unacked(m)' = Unacked(m),
           Consuming' => Consuming /\ Places(m)' = Places(m)
    PROVE  Placed(m)' /\ InOnePlace(m)'
<1>1. Places(m) \in Nat
  BY PlacesNat
<1>2. Places(m)' \in Nat
  <2>1. toClient' \in Seq(ClientFrames) /\ pendingEvents' \in Seq(PendingEvents)
        /\ callbacks' \in Seq(Messages)
        /\ readyEvents' \in Seq(Messages) /\ outbuf' \in Seq(BrokerFrames)
             /\ toBroker' \in Seq(BrokerFrames)
    BY DEF TypeOK, WireTypeOK, EventTypeOK
  <2>2. Arriving(m)' \in Nat /\ AckReady(m)' \in Nat /\ InThread(m)' \in Nat
    BY <2>1, PositionsFinite DEF Arriving, AckReady, InThread
  <2>3. Settling(m)' \in Nat
    BY <2>1, PositionsFinite DEF Settling, Sent
  <2>. QED  BY <2>2, <2>3 DEF Places
<1>3. Unacked(m) \in Nat
  BY DEF Unacked
<1>4. Consuming' => ChannelKnown'
  BY DEF Consuming
<1>5. (Places(m) <= 1)'
  BY <1>1, <1>2 DEF Placed
<1>6. (ChannelKnown => Places(m) <= Unacked(m))'
  BY <1>1, <1>2, <1>3 DEF Placed
<1>7. (m \in unpublished \cup acked => Places(m) = 0)'
  BY <1>1, <1>2 DEF Placed
<1>8. InOnePlace(m)'
  BY <1>4 DEF InOnePlace
<1>. QED  BY <1>5, <1>6, <1>7, <1>8 DEF Placed

\* A delivery gets its only place when the broker sends it.
LEMMA DeliverPlaces ==
    ASSUME TypeOK, TypeOK', Disjoint, NEW n \in Messages, Deliver(n), NEW m \in Messages,
           Placed(m), InOnePlace(m)
    PROVE  Placed(m)' /\ InOnePlace(m)'
<1>. DEFINE hit == IF m = n THEN 1 ELSE 0
<1>1. /\ InThread(m)' = InThread(m) /\ AckReady(m)' = AckReady(m)
      /\ Sent("ack", m)' = Sent("ack", m) /\ Sent("reject", m)' = Sent("reject", m)
      /\ ChannelKnown /\ ChannelKnown' /\ Consuming' = Consuming
  BY DEF Deliver, InThread, AckReady, Sent, holdVars, eventVars, ChannelKnown, Consuming,
     connVars, mainVars
<1>2. Arriving(m)' = Arriving(m) + hit
  <2>1. Occurrences(toClient', MsgFrame("deliver", m)) = Occurrences(toClient,
        MsgFrame("deliver", m)) + hit
    BY CountClient, FrameEquality, FrameTypes DEF Deliver
  <2>. QED  BY <2>1, CountTypes DEF Arriving, Deliver, mainVars, eventVars
<1>3. Places(m)' = Places(m) + hit /\ Places(m) \in Nat
  BY <1>1, <1>2, PlaceTypes DEF Places, Settling
<1>4. Unacked(m)' = Unacked(m) + hit /\ (m = n => Unacked(m) = 0) /\ Unacked(m) \in Nat
  BY DEF Deliver, Unacked, Disjoint
<1>5. (m \in unpublished \cup acked => Places(m) = 0)'
  BY <1>3 DEF Placed, Deliver, Disjoint
<1>6. (ChannelKnown => Places(m) <= Unacked(m))'
  BY <1>1, <1>3, <1>4 DEF Placed
<1>7. (Places(m) <= 1)'
  BY <1>1, <1>3, <1>4 DEF Placed
<1>8. InOnePlace(m)'
  BY <1>1, <1>3, <1>4 DEF InOnePlace
<1>. QED  BY <1>5, <1>6, <1>7, <1>8 DEF Placed

\* What a frame of the stream is for the places of a message.
LEMMA SentHead ==
    ASSUME TypeOK, NEW m \in Messages, NEW t \in {"ack", "reject"}, toBroker # <<>>,
           toBroker' = Tail(toBroker), UNCHANGED outbuf
    PROVE  /\ Sent(t, m) = Sent(t, m)' + (IF Head(toBroker) = MsgFrame(t, m) THEN 1 ELSE 0)
           /\ Sent(t, m)' \in Nat
<1>1. Occurrences(toBroker, MsgFrame(t, m)) = Occurrences(toBroker', MsgFrame(t, m))
         + (IF Head(toBroker) = MsgFrame(t, m) THEN 1 ELSE 0)
  BY CountBroker
<1>2. Occurrences(toBroker', MsgFrame(t, m)) \in Nat
  BY QueueTypes, PositionsFinite
<1>. QED  BY <1>1, <1>2, CountTypes DEF Sent

\* Frames of the broker that are no deliveries.
LEMMA OtherClientFrames ==
    ASSUME TypeOK, NEW m \in Messages, NEW t \in {"cancel", "cancelok", "chanclose", "chancloseok",
                     "connclose", "conncloseok", "eof"}
    PROVE  /\ Occurrences(Append(toClient, Frame(t)), MsgFrame("deliver", m))
                = Occurrences(toClient, MsgFrame("deliver", m))
           /\ Occurrences(<<Frame(t)>>, MsgFrame("deliver", m)) = 0
<1>1. Frame(t) \in ClientFrames /\ Frame(t) # MsgFrame("deliver", m)
  BY FrameEquality DEF ClientFrames
<1>2. Occurrences(Append(toClient, Frame(t)), MsgFrame("deliver", m))
        = Occurrences(toClient, MsgFrame("deliver", m)) + 0
  BY <1>1, CountClient
<1>3. Occurrences(<<Frame(t)>>, MsgFrame("deliver", m)) = 0
  BY <1>1, CountClient
<1>. QED  BY <1>2, <1>3, CountTypes

\* What the broker reads leaves the stream; an ack or a reject leaves it
\* together with the delivery it settles.
LEMMA ReadPlaces ==
    ASSUME TypeOK, TypeOK', Disjoint, Placement, BrokerReads, NEW m \in Messages,
           InOnePlace(m)
    PROVE  Placed(m)' /\ InOnePlace(m)'
<1>. DEFINE f == Head(toBroker)
            settles == f.type \in {"ack", "reject"} /\ f.msg = m
<1>1. toBroker # <<>> /\ toBroker' = Tail(toBroker) /\ f \in BrokerFrames /\ broker # "down"
      /\ UNCHANGED <<outbuf, pendingEvents, callbacks, readyEvents, worker, pc, cur, chan,
           unpublished>>
  BY QueueTypes DEF BrokerReads, connVars, eventVars, mainVars, holdVars
<1>2. Settling(m) = Settling(m)' + (IF settles THEN 1 ELSE 0) /\ Settling(m)' \in Nat
  <2>1. (f = MsgFrame("ack", m) <=> f.type = "ack" /\ f.msg = m)
        /\ (f = MsgFrame("reject", m) <=> f.type = "reject" /\ f.msg = m)
    BY <1>1, FrameForm, FrameEquality
  <2>2. Sent("ack", m) = Sent("ack", m)' + (IF f = MsgFrame("ack", m) THEN 1 ELSE 0)
        /\ Sent("ack", m)' \in Nat
    BY <1>1, SentHead
  <2>3. Sent("reject", m) = Sent("reject", m)' + (IF f = MsgFrame("reject", m) THEN 1 ELSE 0)
        /\ Sent("reject", m)' \in Nat
    BY <1>1, SentHead
  <2>. HIDE DEF f
  <2>. QED  BY <2>1, <2>2, <2>3 DEF Settling
<1>3. Occurrences(toClient', MsgFrame("deliver", m)) = Occurrences(toClient, MsgFrame("deliver", m))
  BY OtherClientFrames DEF BrokerReads, BrokerSettle, BrokerClosing
<1>4. Arriving(m)' = Arriving(m) /\ InThread(m)' = InThread(m) /\ AckReady(m)' = AckReady(m)
  BY <1>1, <1>3 DEF Arriving, InThread, AckReady
<1>5. Places(m) = Places(m)' + (IF settles THEN 1 ELSE 0) /\ Places(m)' \in Nat
  BY <1>2, <1>4, PlaceTypes DEF Places
<1>6. Placed(m)
  BY DEF Placement
<1>. HIDE DEF f
<1>7. ASSUME ~ChannelKnown', UNCHANGED acked
      PROVE  Placed(m)' /\ InOnePlace(m)'
  <2>1. ~Consuming'
    BY <1>7 DEF Consuming
  <2>2. Places(m)' <= Places(m)
    BY <1>5
  <2>. QED  BY <1>1, <1>6, <1>7, <2>1, <2>2, PlacedKept
<1>8. CASE BrokerIgnores(f) /\ UNCHANGED <<queue, unacked, acked, broker, toClient>>
  <2>1. CASE broker = "chanclosed"
    BY <1>7, <1>8, <2>1 DEF ChannelKnown
  <2>2. CASE f.type = "chancloseok"
    <3>1. Places(m)' = Places(m)
      BY <1>5, <2>2
    <3>2. Consuming' = Consuming /\ ChannelKnown' = ChannelKnown /\ Unacked(m)' = Unacked(m)
      BY <1>1, <1>8 DEF Consuming, ChannelKnown, Unacked
    <3>3. Places(m)' <= Places(m)
      BY <1>5
    <3>. QED  BY <1>1, <1>6, <1>8, <3>1, <3>2, <3>3, PlacedKept
  <2>. QED  BY <1>8, <2>1, <2>2 DEF BrokerIgnores
<1>9. CASE BrokerSettle(f) /\ ~BrokerIgnores(f)
  <2>1. ChannelKnown /\ f.msg \in Messages
    BY <1>1, <1>9, FrameForm DEF BrokerSettle, BrokerIgnores, ChannelKnown, TypeOK,
       BrokerTypeOK
  <2>2. f.msg \in unacked
    <3>1. Placed(f.msg) /\ Places(f.msg) \in Nat
      BY <2>1, PlacesNat DEF Placement
    <3>2. Settling(f.msg) > 0
      <4>1. ASSUME NEW n \in Messages, NEW t \in {"ack", "reject"}, f = MsgFrame(t, n)
            PROVE  Settling(n) > 0
        <5>1. Sent(t, n) = Sent(t, n)' + 1 /\ Sent(t, n)' \in Nat
          BY <1>1, <4>1, SentHead DEF f
        <5>. QED  BY <5>1, PlaceTypes DEF Settling
      <4>2. f = MsgFrame(f.type, f.msg) /\ f.type \in {"ack", "reject"}
        BY <1>1, <1>9, FrameForm DEF BrokerSettle
      <4>. QED  BY <2>1, <4>1, <4>2
    <3>3. Places(f.msg) > 0
      BY <2>1, <3>2, PlaceTypes DEF Places, Settling
    <3>. QED  BY <2>1, <3>1, <3>3 DEF Placed, Unacked
  <2>3. /\ unacked' = unacked \ {f.msg} /\ UNCHANGED broker
        /\ acked' = acked \/ acked' = acked \cup {f.msg}
    BY <1>9, <2>2 DEF BrokerSettle
  <2>4. ChannelKnown' /\ Consuming' = Consuming
    BY <1>1, <2>1, <2>3 DEF ChannelKnown, Consuming
  <2>5. Unacked(m) = Unacked(m)' + (IF settles THEN 1 ELSE 0) /\ Unacked(m)' \in Nat
    BY <1>9, <2>2, <2>3 DEF Unacked, BrokerSettle
  <2>. HIDE DEF settles
  <2>6. (ChannelKnown => Places(m) <= Unacked(m))'
    BY <1>5, <1>6, <2>1, <2>5 DEF Placed
  <2>7. (Places(m) <= 1)'
    BY <1>5, <1>6 DEF Placed
  <2>8. (m \in unpublished \cup acked => Places(m) = 0)'
    BY <1>1, <1>5, <1>6, <1>9, <2>3 DEF Placed, settles, BrokerSettle
  <2>9. InOnePlace(m)'
    BY <1>5, <2>4, <2>5 DEF InOnePlace
  <2>. QED  BY <2>6, <2>7, <2>8, <2>9 DEF Placed
<1>10. CASE BrokerClosing(f) /\ ~BrokerIgnores(f)
  <2>1. CASE f.type = "cancel"
    <3>1. ChannelKnown /\ ChannelKnown' /\ UNCHANGED <<acked, unacked>>
      BY <1>1, <1>10, <2>1 DEF BrokerClosing, BrokerIgnores, ChannelKnown, TypeOK,
         BrokerTypeOK
    <3>2. Consuming' = Consuming /\ Unacked(m)' = Unacked(m)
      BY <1>1, <3>1 DEF Consuming, Unacked
    <3>3. Places(m)' = Places(m) /\ Places(m)' <= Places(m)
      BY <1>5, <2>1
    <3>. QED  BY <1>1, <1>6, <3>1, <3>2, <3>3, PlacedKept
  <2>2. CASE f.type # "cancel"
    BY <1>7, <1>10, <2>2 DEF BrokerClosing, Requeue, ChannelKnown
  <2>. QED  BY <2>1, <2>2
<1>. QED  BY <1>8, <1>9, <1>10 DEF BrokerReads, f

\* The other steps of the broker and its failures.
LEMMA BrokerPlaces ==
    ASSUME TypeOK, TypeOK', Failure \/ (\E n \in Messages : Publish(n) \/ Recycled(n)),
           NEW m \in Messages, Placed(m), InOnePlace(m)
    PROVE  Placed(m)' /\ InOnePlace(m)'
<1>1. /\ Arriving(m) \in Nat /\ InThread(m) \in Nat /\ AckReady(m) \in Nat
      /\ Sent("ack", m) \in Nat /\ Sent("reject", m) \in Nat
  BY PlaceTypes
<1>2. ASSUME NEW n \in Messages, Publish(n) \/ Recycled(n)
      PROVE  Placed(m)' /\ InOnePlace(m)'
  <2>1. UNCHANGED <<unacked, broker, toClient, toBroker, chan, pendingEvents, readyEvents,
        callbacks, outbuf, pc, cur>>
    BY <1>2 DEF Publish, Recycled, wires, connVars, eventVars, mainVars
  <2>2. m \in unpublished' \cup acked' => m \in unpublished \cup acked
    BY <1>2 DEF Publish, Recycled
  <2>3. InThread(m)' = InThread(m)
    BY <1>2 DEF Publish, Recycled, InThread, holdVars, TypeOK, HoldTypeOK
  <2>4. Places(m)' = Places(m)
    BY <2>1, <2>3 DEF Places, Arriving, AckReady, Settling, Sent
  <2>5. Places(m)' <= Places(m)
    BY <2>4, PlacesNat
  <2>6. Consuming' = Consuming /\ ChannelKnown' = ChannelKnown /\ Unacked(m)' = Unacked(m)
    BY <2>1 DEF Consuming, ChannelKnown, Unacked
  <2>. QED  BY <2>2, <2>4, <2>5, <2>6, PlacedKept
<1>3. CASE BrokerCancels
  <2>1. UNCHANGED <<unpublished, acked, unacked, toBroker, chan, pendingEvents, readyEvents,
        callbacks, outbuf, pc, cur, worker>>
    BY <1>3 DEF BrokerCancels, connVars, eventVars, mainVars, holdVars
  <2>2. Occurrences(toClient', MsgFrame("deliver", m)) = Occurrences(toClient,
        MsgFrame("deliver", m))
    BY <1>3, OtherClientFrames DEF BrokerCancels
  <2>3. Places(m)' = Places(m)
    BY <2>1, <2>2 DEF Places, Arriving, InThread, AckReady, Settling, Sent
  <2>4. Places(m)' <= Places(m)
    BY <2>3, PlacesNat
  <2>5. ChannelKnown /\ ChannelKnown' /\ Consuming' = Consuming /\ Unacked(m)' = Unacked(m)
    BY <1>3, <2>1 DEF BrokerCancels, Consuming, ChannelKnown, Unacked
  <2>. QED  BY <2>1, <2>3, <2>4, <2>5, PlacedKept
<1>4. CASE ConsumerTimeout \/ ConnectionLost
  <2>1. UNCHANGED <<unpublished, acked, pendingEvents, readyEvents, callbacks, outbuf, pc, cur,
        worker>>
        /\ ~ChannelKnown' /\ ~Consuming'
    BY <1>4 DEF ConsumerTimeout, ConnectionLost, Requeue, eventVars, mainVars, holdVars,
       ChannelKnown, Consuming
  <2>2. \/ Occurrences(toClient', MsgFrame("deliver", m)) = Occurrences(toClient,
             MsgFrame("deliver", m))
        \/ Occurrences(toClient', MsgFrame("deliver", m)) = 0
    BY <1>4, OtherClientFrames DEF ConsumerTimeout, ConnectionLost
  <2>3. Arriving(m)' \in Nat /\ Arriving(m)' <= Arriving(m)
    BY <2>1, <2>2, CountTypes DEF Arriving
  <2>4. toBroker' = toBroker \/ toBroker' = <<>>
    BY <1>4 DEF ConsumerTimeout, ConnectionLost
  <2>5. ASSUME NEW t \in {"ack", "reject"} PROVE Sent(t, m)' \in Nat /\ Sent(t, m)' <= Sent(t, m)
    <3>1. Occurrences(toBroker', MsgFrame(t, m)) = Occurrences(toBroker, MsgFrame(t, m))
          \/ Occurrences(toBroker', MsgFrame(t, m)) = 0
      BY <2>4, OccurrencesEmpty
    <3>. QED  BY <2>1, <3>1, CountTypes DEF Sent
  <2>6. InThread(m)' = InThread(m) /\ AckReady(m)' = AckReady(m)
    BY <2>1 DEF InThread, AckReady
  <2>7. Places(m)' <= Places(m)
    BY <1>1, <2>3, <2>5, <2>6 DEF Places, Settling
  <2>. QED  BY <2>1, <2>7, PlacedKept
<1>. QED  BY <1>2, <1>3, <1>4 DEF Failure

\* All that is not the broker moves messages the way Moved says.
LEMMA ClientMoves ==
    ASSUME TypeOK, Control, Running, FrameOrder, Fresh, Placement, NEW m \in Messages,
           MainThread \/ Interrupt \/ \E n \in Messages : Worker(n)
    PROVE  Moved(m) /\ UNCHANGED brokerVars
<1>1. Moved(m)
  BY ReadMoves, LoopMoves, WorkerMoves, IoMoves, CloseMoves DEF MainThread
<1>. QED  BY <1>1, BrokerUntouched

\* No step gives a delivery a second place.
LEMMA NextPlaces ==
    ASSUME TypeOK, TypeOK', Disjoint, Placement, Fresh, FrameOrder, Running, Control,
           \A m \in Messages : InOnePlace(m), [Next]_vars
    PROVE  Placement' /\ \A m \in Messages : InOnePlace(m)'
<1>. SUFFICES ASSUME NEW m \in Messages
     PROVE  Placed(m)' /\ InOnePlace(m)'
  BY DEF Placement
<1>1. Placed(m) /\ InOnePlace(m)
  BY DEF Placement
<1>2. CASE MainThread \/ Interrupt \/ \E n \in Messages : Worker(n)
  <2>1. Moved(m) /\ UNCHANGED brokerVars
    BY <1>2, ClientMoves
  <2>2. m \in unpublished' \cup acked' => m \in unpublished \cup acked
    BY <2>1 DEF brokerVars
  <2>3. ChannelKnown' => ChannelKnown /\ Unacked(m)' = Unacked(m)
    BY <2>1 DEF brokerVars, ChannelKnown, Unacked
  <2>. QED  BY <1>1, <2>1, <2>2, <2>3, PlacedKept DEF Moved
<1>3. CASE \E n \in Messages : Deliver(n)
  BY <1>1, <1>3, DeliverPlaces
<1>4. CASE BrokerReads
  BY <1>1, <1>4, ReadPlaces
<1>5. CASE Failure \/ \E n \in Messages : Publish(n) \/ Recycled(n)
  BY <1>1, <1>5, BrokerPlaces
<1>6. CASE Terminated \/ UNCHANGED vars
  <2>1. UNCHANGED vars
    BY <1>6 DEF Terminated
  <2>. QED  BY <1>1, <2>1 DEF vars, brokerVars, wires, connVars, eventVars, mainVars,
               holdVars, Placed, InOnePlace, Places, Arriving, InThread, AckReady, Settling,
               Sent, Consuming, ChannelKnown, Unacked
<1>. QED  BY <1>2, <1>3, <1>4, <1>5, <1>6 DEF Next, BrokerStep

\* on_message may still see this message.
Ahead(m) ==
    \/ m \in unpublished \/ (broker = "consuming" /\ m \in queue)
    \/ Arriving(m) > 0 \/ Sent("reject", m) > 0

\* No step shows on_message a message that still has a thread.
LEMMA NextFresh ==
    ASSUME TypeOK, TypeOK', Disjoint, Placement, Fresh, FrameOrder, Running, Control, [Next]_vars
    PROVE  Fresh'
<1>1. \A m \in Messages : Ahead(m) => worker[m] = "none"
  BY DEF Fresh, Ahead
<1>2. pc = "start" => worker[cur] = "unstarted"
  BY DEF Fresh
<1>3. worker \in [Messages -> WorkerStates] /\ (pc \in {"onmessage", "increment", "start"}
      => cur \in Messages)
  BY DEF TypeOK, HoldTypeOK, MainTypeOK
<1>4. \A m \in Messages : Arriving(m) \in Nat /\ Sent("reject", m) \in Nat
  BY PlaceTypes
<1>5. ASSUME NEW m \in Messages, Ahead(m)'
      PROVE  worker'[m] = "none"
  <2>1. CASE MainThread \/ Interrupt \/ \E n \in Messages : Worker(n)
    <3>1. Ahead(m)
      <4>1. Moved(m) /\ UNCHANGED brokerVars
        BY <2>1, ClientMoves
      <4>2. Arriving(m)' \in Nat /\ Sent("reject", m)' \in Nat
        <5>1. toClient' \in Seq(ClientFrames) /\ pendingEvents' \in Seq(PendingEvents)
              /\ outbuf' \in Seq(BrokerFrames) /\ toBroker' \in Seq(BrokerFrames)
          BY DEF TypeOK, WireTypeOK, EventTypeOK
        <5>. QED  BY <5>1, PositionsFinite DEF Arriving, Sent
      <4>3. Arriving(m)' > 0 \/ Sent("reject", m)' > 0 => Arriving(m) > 0 \/ Sent("reject", m) > 0
        BY <1>4, <4>1, <4>2 DEF Moved
      <4>. QED  BY <1>5, <4>1, <4>3 DEF Ahead, brokerVars
    <3>2. worker[m] = "none"
      BY <1>1, <3>1
    <3>3. CASE OnMessageIncrement
      <4>1. CASE m = cur
        <5>1. Arriving(m) = Arriving(m)' + 1 /\ Arriving(m)' \in Nat
          <6>1. /\ pc = "increment" /\ pc' = "start" /\ cur' = cur
                /\ UNCHANGED <<toClient, pendingEvents>>
            BY <3>3 DEF OnMessageIncrement, Goto, wires, eventVars
          <6>. QED  BY <4>1, <6>1, CountTypes DEF Arriving
        <5>2. Sent("reject", m)' = Sent("reject", m)
          BY <3>3 DEF OnMessageIncrement, wires, Sent
        <5>3. Placed(m) /\ Places(m) > 0
          BY <5>1, PlaceTypes DEF Placement, Places, Settling
        <5>4. Arriving(m)' = 0 /\ Sent("reject", m)' = 0
          BY <5>1, <5>2, <5>3, PlaceTypes DEF Placed, Places, Settling
        <5>5. m \notin unpublished /\ ~(broker = "consuming" /\ m \in queue)
          BY <5>3, PlacesNat DEF Placed, ChannelKnown, Unacked, Disjoint
        <5>. QED  BY <1>5, <3>3, <5>4, <5>5 DEF Ahead, OnMessageIncrement, brokerVars
      <4>2. CASE m # cur
        BY <1>3, <3>2, <3>3, <4>2 DEF OnMessageIncrement
      <4>. QED  BY <4>1, <4>2
    <3>4. CASE OnMessageStart
      BY <1>2, <1>3, <3>2, <3>4 DEF OnMessageStart
    <3>5. CASE \E n \in Messages : Worker(n)
      BY <1>3, <3>2, <3>5 DEF Worker, DelayOver, ScheduleAck, WorkerDecrement
    <3>6. CASE UNCHANGED worker
      BY <3>2, <3>6
    <3>7. CASE \/ IoRead \/ IoWrite \/ IoCallbacks \/ Loop \/ IoDone \/ DispatchReady
               \/ DispatchChannel \/ DispatchEvent \/ OnMessage \/ FlushDone \/ Interrupt
               \/ Stop \/ RejectPending \/ SendCancel \/ CancelDone \/ Close
               \/ ChannelCloseDone \/ ConnectionCloseDone
      BY <3>6, <3>7 DEF IoRead, IoWrite, IoCallbacks, Loop, IoDone, DispatchReady,
         DispatchChannel, DispatchEvent, OnMessage, FlushDone, Interrupt, Stop,
         RejectPending, SendCancel, CancelDone, Close, ChannelCloseDone,
         ConnectionCloseDone, holdVars
    <3>. QED  BY <2>1, <3>3, <3>4, <3>5, <3>7 DEF MainThread
  <2>2. ASSUME NEW n \in Messages, Publish(n) \/ Recycled(n)
        PROVE  worker'[m] = "none"
    <3>1. Ahead(m) \/ (m = n /\ Recycled(n))
      BY <1>5, <2>2 DEF Ahead, Publish, Recycled, Arriving, Sent, wires, eventVars, mainVars
    <3>. QED  BY <1>1, <1>3, <2>2, <3>1 DEF Publish, Recycled, holdVars
  <2>3. ASSUME NEW n \in Messages, Deliver(n)
        PROVE  worker'[m] = "none"
    <3>1. Arriving(m)' = Arriving(m) + (IF m = n THEN 1 ELSE 0)
      <4>1. Occurrences(toClient', MsgFrame("deliver", m))
              = Occurrences(toClient, MsgFrame("deliver", m)) + (IF m = n THEN 1 ELSE 0)
        BY <2>3, CountClient, FrameEquality, FrameTypes DEF Deliver
      <4>. QED  BY <2>3, <4>1, CountTypes DEF Arriving, Deliver, mainVars, eventVars
    <3>2. Ahead(m)
      BY <1>5, <1>4, <2>3, <3>1 DEF Ahead, Deliver, Sent
    <3>. QED  BY <1>1, <2>3, <3>2 DEF Deliver, holdVars
  <2>4. CASE BrokerReads
    <3>1. UNCHANGED <<worker, pendingEvents, outbuf, pc, cur, unpublished>>
          /\ toBroker # <<>> /\ toBroker' = Tail(toBroker)
      BY <2>4 DEF BrokerReads, eventVars, mainVars, holdVars
    <3>2. Occurrences(toClient', MsgFrame("deliver", m)) = Occurrences(toClient,
          MsgFrame("deliver", m))
      BY <2>4, OtherClientFrames DEF BrokerReads, BrokerSettle, BrokerClosing
    <3>3. Arriving(m)' = Arriving(m)
      BY <3>1, <3>2 DEF Arriving
    <3>4. Sent("reject", m) = Sent("reject", m)' + (IF Head(toBroker) = MsgFrame("reject",
          m) THEN 1 ELSE 0)
          /\ Sent("reject", m)' \in Nat
      BY <3>1, SentHead
    <3>5. \/ broker' # "consuming" \/ UNCHANGED <<broker, queue>>
          \/ (broker' = broker /\ queue' = queue \cup {Head(toBroker).msg}
               /\ Head(toBroker).type = "reject")
      BY <2>4 DEF BrokerReads, BrokerSettle, BrokerClosing, Requeue
    <3>6. Head(toBroker).type = "reject" => Head(toBroker) = MsgFrame("reject", Head(toBroker).msg)
      BY <3>1, QueueTypes, FrameForm
    <3>7. Ahead(m)
      BY <1>5, <1>4, <3>1, <3>3, <3>4, <3>5, <3>6 DEF Ahead
    <3>. QED  BY <1>1, <3>1, <3>7
  <2>5. CASE Failure
    <3>1. UNCHANGED <<worker, pendingEvents, outbuf, pc, cur, unpublished>> /\ broker' # "consuming"
          /\ (toBroker' = toBroker \/ toBroker' = <<>>)
      BY <2>5 DEF Failure, BrokerCancels, ConsumerTimeout, ConnectionLost, Requeue,
         eventVars, mainVars, holdVars
    <3>2. \/ Occurrences(toClient', MsgFrame("deliver", m)) = Occurrences(toClient,
               MsgFrame("deliver", m))
          \/ Occurrences(toClient', MsgFrame("deliver", m)) = 0
      BY <2>5, OtherClientFrames DEF Failure, BrokerCancels, ConsumerTimeout, ConnectionLost
    <3>3. Arriving(m)' > 0 => Arriving(m) > 0
      BY <3>1, <3>2, CountTypes DEF Arriving
    <3>4. \/ Occurrences(toBroker', MsgFrame("reject", m)) = Occurrences(toBroker,
               MsgFrame("reject", m))
          \/ Occurrences(toBroker', MsgFrame("reject", m)) = 0
      BY <3>1, OccurrencesEmpty
    <3>5. Sent("reject", m)' > 0 => Sent("reject", m) > 0
      BY <3>1, <3>4, CountTypes DEF Sent
    <3>6. Ahead(m)
      BY <1>5, <3>1, <3>3, <3>5 DEF Ahead
    <3>. QED  BY <1>1, <3>1, <3>6
  <2>6. CASE Terminated \/ UNCHANGED vars
    <3>1. UNCHANGED vars
      BY <2>6 DEF Terminated
    <3>. QED  BY <1>5, <1>1, <3>1 DEF vars, brokerVars, wires, eventVars, mainVars,
                 holdVars, Ahead, Arriving, Sent
  <2>. QED  BY <2>1, <2>2, <2>3, <2>4, <2>5, <2>6 DEF Next, BrokerStep
<1>6. ASSUME pc' = "start"
      PROVE  worker'[cur'] = "unstarted"
  <2>1. CASE OnMessageIncrement
    BY <1>3, <2>1 DEF OnMessageIncrement, Goto
  <2>2. CASE UNCHANGED <<pc, cur>> /\ worker'[cur] = worker[cur]
    BY <1>6, <1>2, <2>2
  <2>3. CASE \E n \in Messages : Worker(n) \/ Publish(n) \/ Recycled(n) \/ Deliver(n)
    <3>1. UNCHANGED <<pc, cur>>
      BY <2>3 DEF Worker, DelayOver, ScheduleAck, WorkerDecrement, Publish, Recycled,
         Deliver, mainVars
    <3>2. worker[cur] = "unstarted" /\ cur \in Messages
      BY <1>6, <1>2, <1>3, <3>1
    <3>3. worker'[cur] = worker[cur]
      BY <1>3, <2>3, <3>2 DEF Worker, DelayOver, ScheduleAck, WorkerDecrement, Publish,
         Recycled, Deliver, holdVars
    <3>. QED  BY <2>2, <3>1, <3>3
  <2>4. CASE BrokerReads \/ Failure \/ IoRead \/ IoWrite \/ IoCallbacks \/ RejectPending
        \/ Terminated \/ UNCHANGED vars
    BY <2>2, <2>4 DEF BrokerReads, Failure, BrokerCancels, ConsumerTimeout, ConnectionLost,
       IoRead, IoWrite, IoCallbacks, RejectPending, Terminated, vars, mainVars, holdVars
  <2>5. CASE \/ Loop \/ IoDone \/ DispatchReady
               \/ DispatchChannel \/ DispatchEvent \/ OnMessage \/ OnMessageStart \/ FlushDone
                    \/ Interrupt
               \/ Stop \/ SendCancel \/ CancelDone \/ Close
               \/ ChannelCloseDone \/ ConnectionCloseDone
    <3>1. pc' # "start"
      BY <2>5 DEF Loop, IoDone, DispatchReady, DispatchChannel, DispatchEvent, OnMessage,
         OnMessageStart, FlushDone, Interrupt, Stop, SendCancel, CancelDone, Close,
         ChannelCloseDone, ConnectionCloseDone, AckAndFlush, Goto, TypeOK, MainTypeOK
    <3>. QED  BY <1>6, <3>1
  <2>. QED  BY <2>1, <2>3, <2>4, <2>5 DEF Next, BrokerStep, MainThread
<1>. QED  BY <1>5, <1>6 DEF Fresh, Ahead

\* Nothing is delivered at the start.
LEMMA InitDelivery == Init => DeliveryInv
<1>. SUFFICES ASSUME Init PROVE DeliveryInv
  OBVIOUS
<1>. USE DEF Init
<1>1. TypeOK /\ Disjoint
  BY InitType DEF Disjoint
<1>2. ASSUME NEW m \in Messages
      PROVE  /\ Arriving(m) = 0 /\ InThread(m) = 0 /\ AckReady(m) = 0
             /\ Sent("ack", m) = 0 /\ Sent("reject", m) = 0 /\ Unacked(m) = 0
  BY OccurrencesEmpty DEF Arriving, InThread, AckReady, Sent, Unacked
<1>3. \A m \in Messages : Places(m) = 0 /\ Unacked(m) = 0
  BY <1>2 DEF Places, Settling
<1>4. Placement /\ \A m \in Messages : InOnePlace(m)
  BY <1>3 DEF Placement, Placed, InOnePlace
<1>5. Fresh
  BY <1>2 DEF Fresh
<1>6. FrameOrder /\ Running /\ Waiting /\ Control
  BY DEF FrameOrder, Running, NoCloseSent, Waiting, Control
<1>. QED  BY <1>1, <1>4, <1>5, <1>6 DEF DeliveryInv, ControlInv

\* The invariant of the deliveries is inductive.
LEMMA NextDelivery == ASSUME DeliveryInv, [Next]_vars PROVE DeliveryInv'
<1>. USE DEF DeliveryInv, ControlInv
<1>1. TypeOK'
  BY NextType
<1>2. Disjoint' /\ FrameOrder' /\ Running' /\ Waiting' /\ Control'
  BY NextDisjoint, NextFrameOrder, NextRunning, NextWaiting, NextControl
<1>3. Placement' /\ \A m \in Messages : InOnePlace(m)'
  BY <1>1, NextPlaces
<1>4. Fresh'
  BY <1>1, NextFresh
<1>. QED  BY <1>1, <1>2, <1>3, <1>4

\* Each delivery is in at most one place of the program and the wires, in exactly
\* one while the program consumes, and never comes back while a thread has it.
THEOREM DeliveryInvariant == Spec => []DeliveryInv
<1>1. DeliveryInv /\ [Next]_vars => DeliveryInv'
  BY NextDelivery
<1>. QED  BY <1>1, InitDelivery, PTL DEF Spec

\* What the broker waits for is in exactly one place while the program consumes,
\* and no delivery is settled twice, whatever is cancelled, closed or lost.
THEOREM NoDeliveryLost == Spec => []DeliveriesAccounted
<1>1. DeliveryInv => DeliveriesAccounted
  <2>. SUFFICES ASSUME DeliveryInv PROVE DeliveriesAccounted
    OBVIOUS
  <2>1. DeliveryInOnePlace
    BY DEF DeliveryInv, InOnePlace, Consuming, DeliveryInOnePlace
  <2>2. ASSUME ChannelKnown, NEW m \in Messages
        PROVE  Settling(m) <= Unacked(m)
    <3>1. TypeOK /\ Places(m) <= Unacked(m)
      BY <2>2 DEF DeliveryInv, ControlInv, Placement, Placed
    <3>. QED  BY <3>1, PlaceTypes DEF Places, Settling, Unacked
  <2>. QED  BY <2>1, <2>2 DEF DeliveriesAccounted, SettledAtMostOnce
<1>. QED  BY <1>1, DeliveryInvariant, PTL

-----------------------------------------------------------------------------
(* The counter of held messages.                                           *)

\* The threads that count are finitely many.
LEMMA HoldersFinite == IsFiniteSet(Holders) /\ Cardinality(Holders) \in Nat
<1>1. Holders \subseteq Messages
  BY DEF Holders
<1>. QED  BY <1>1, MessagesAssumption, FS_Subset, FS_CardinalityType

\* The message on_message is about to count has no thread.
LEMMA IncrementFresh ==
    ASSUME DeliveryInv, pc \in {"onmessage", "increment"}
    PROVE  /\ cur \in Messages /\ worker[cur] = "none" /\ Handed(cur) = 0
           /\ cur \notin acked
<1>. USE DEF DeliveryInv, ControlInv
<1>1. cur \in Messages
  BY DEF TypeOK, MainTypeOK
<1>2. Arriving(cur) > 0
  BY <1>1, CountTypes DEF Arriving
<1>3. Placed(cur)
  BY <1>1 DEF Placement
<1>. QED  BY <1>1, <1>2, <1>3, PlaceTypes DEF Fresh, Placed, Places, Settling, Handed

\* Who counts, and how the counter follows.
LEMMA NextHeld ==
    ASSUME DeliveryInv, HeldCountAccurate, [Next]_vars
    PROVE  HeldCountAccurate'
<1>. USE DEF HeldCountAccurate
<1>1. worker \in [Messages -> WorkerStates]
  BY DEF DeliveryInv, ControlInv, TypeOK, HoldTypeOK
<1>2. ASSUME heldCount' = heldCount, Holders' = Holders
      PROVE  HeldCountAccurate'
  BY <1>2
<1>3. CASE OnMessageIncrement
  <2>1. cur \in Messages /\ cur \notin Holders
    BY <1>3, IncrementFresh DEF OnMessageIncrement, Holders, Counted
  <2>2. Holders' = Holders \cup {cur}
    BY <1>1, <1>3, <2>1 DEF OnMessageIncrement, Holders, Counted
  <2>3. Cardinality(Holders \cup {cur}) = Cardinality(Holders) + 1
    BY <2>1, HoldersFinite, FS_AddElement
  <2>. QED  BY <1>3, <2>2, <2>3 DEF OnMessageIncrement
<1>4. ASSUME NEW m \in Messages, WorkerDecrement(m)
      PROVE  HeldCountAccurate'
  <2>1. m \in Holders /\ Holders' = Holders \ {m}
    BY <1>1, <1>4 DEF WorkerDecrement, Holders, Counted
  <2>2. Cardinality(Holders \ {m}) = Cardinality(Holders) - 1
    BY <2>1, HoldersFinite, FS_RemoveElement
  <2>. QED  BY <1>4, <2>1, <2>2 DEF WorkerDecrement
<1>5. ASSUME NEW m \in Messages, Recycled(m) \/ DelayOver(m) \/ ScheduleAck(m)
      PROVE  HeldCountAccurate'
  <2>1. heldCount' = heldCount
    BY <1>5 DEF Recycled, DelayOver, ScheduleAck
  <2>2. Holders' = Holders
    BY <1>1, <1>5 DEF Recycled, DelayOver, ScheduleAck, Holders, Counted
  <2>. QED  BY <1>2, <2>1, <2>2
<1>6. CASE OnMessageStart
  <2>1. pc = "start" => worker[cur] = "unstarted" /\ cur \in Messages
    BY DEF DeliveryInv, ControlInv, Fresh, TypeOK, MainTypeOK
  <2>2. Holders' = Holders
    BY <1>1, <1>6, <2>1 DEF OnMessageStart, Holders, Counted
  <2>. QED  BY <1>2, <1>6, <2>2 DEF OnMessageStart
<1>7. CASE UNCHANGED holdVars
  BY <1>2, <1>7 DEF holdVars, Holders
<1>8. CASE \/ \E m \in Messages : Publish(m) \/ Deliver(m)
           \/ BrokerReads \/ Failure \/ IoRead \/ IoWrite \/ IoCallbacks
           \/ Loop \/ IoDone \/ DispatchReady \/ DispatchChannel \/ DispatchEvent
           \/ OnMessage \/ FlushDone \/ Interrupt \/ Terminated \/ UNCHANGED vars
  BY <1>7, <1>8 DEF Publish, Deliver, BrokerReads, Failure, BrokerCancels, ConsumerTimeout,
     ConnectionLost, IoRead, IoWrite, IoCallbacks, Loop, IoDone, DispatchReady,
     DispatchChannel, DispatchEvent, OnMessage, FlushDone, Interrupt, Terminated, vars
<1>9. CASE Stop \/ RejectPending \/ SendCancel \/ CancelDone \/ Close \/ ChannelCloseDone
      \/ ConnectionCloseDone
  BY <1>7, <1>9 DEF Stop, RejectPending, SendCancel, CancelDone, Close, ChannelCloseDone,
     ConnectionCloseDone
<1>. QED  BY <1>3, <1>4, <1>5, <1>6, <1>8, <1>9 DEF Next, BrokerStep, MainThread, Worker

\* No thread counts at the start.
LEMMA InitHeld == Init => HeldCountAccurate
<1>. SUFFICES ASSUME Init PROVE HeldCountAccurate
  OBVIOUS
<1>1. Holders = {}
  BY DEF Init, Holders, Counted
<1>. QED  BY <1>1, FS_EmptySet DEF Init, HeldCountAccurate

\* The counter of held messages is the number of threads that hold one, at every
\* step of every thread and of the main loop.
THEOREM CountIsExact == Spec => []HeldCountAccurate
<1>1. DeliveryInv /\ HeldCountAccurate /\ [Next]_vars => HeldCountAccurate'
  BY NextHeld
<1>. QED  BY <1>1, InitHeld, DeliveryInvariant, PTL DEF Spec

-----------------------------------------------------------------------------
(* The ledger.                                                             *)

\* The program starts as the ledger does.
LEMMA InitLedger == Init => Ledger!LedgerInit
<1>. SUFFICES ASSUME Init PROVE Ledger!LedgerInit
  OBVIOUS
<1>1. Holders = {} /\ DelayIsOver = {}
  BY DEF Init, Holders, Counted, DelayIsOver
<1>2. AcksDue = {}
  BY OccurrencesEmpty DEF Init, AcksDue, AckReady, Sent
<1>. QED  BY <1>1, <1>2 DEF Init, Ledger!LedgerInit

\* A step that hands over no ack and leaves the threads and the records of the
\* broker alone can only lose acks.
LEMMA OnlyLosses ==
    ASSUME TypeOK, TypeOK', UNCHANGED <<worker, acked>>, AcksDue' \subseteq AcksDue
    PROVE  Ledger!LedgerNext \/ UNCHANGED Ledger!ledger
<1>1. Holders' = Holders /\ DelayIsOver' = DelayIsOver /\ acked' = acked
  BY DEF Holders, DelayIsOver
<1>2. CASE AcksDue' = AcksDue
  BY <1>1, <1>2 DEF Ledger!ledger
<1>3. CASE AcksDue' # AcksDue
  BY <1>1, <1>3 DEF Ledger!LedgerNext, Ledger!Lose
<1>. QED  BY <1>2, <1>3

\* The ledger counts as this module does.
LEMMA LedgerCardinality == ASSUME NEW S PROVE Ledger!Cardinality(S) = Cardinality(S)
BY DEF Ledger!Cardinality, Cardinality

\* The acks handed over for a message are a natural number,
LEMMA HandedNat == ASSUME TypeOK, NEW m \in Messages PROVE Handed(m) \in Nat
BY PlaceTypes DEF Handed

\* and are so after a step.
LEMMA HandedNatNext == ASSUME TypeOK', NEW m \in Messages PROVE Handed(m)' \in Nat
<1>1. callbacks' \in Seq(Messages) /\ readyEvents' \in Seq(Messages)
      /\ outbuf' \in Seq(BrokerFrames) /\ toBroker' \in Seq(BrokerFrames)
  BY DEF TypeOK, WireTypeOK, EventTypeOK
<1>. QED  BY <1>1, PositionsFinite DEF Handed, AckReady, Sent

\* The broker gives nobody an ack.
LEMMA BrokerHands ==
    ASSUME TypeOK, NEW m \in Messages,
           BrokerReads \/ Failure \/ \E n \in Messages : Publish(n) \/ Recycled(n) \/ Deliver(n)
    PROVE  Handed(m)' <= Handed(m)
<1>1. UNCHANGED <<outbuf, callbacks, readyEvents>>
  BY DEF BrokerReads, Failure, BrokerCancels, ConsumerTimeout, ConnectionLost, Publish,
     Recycled, Deliver, eventVars
<1>2. toBroker' \in {toBroker, <<>>} \/ (toBroker # <<>> /\ toBroker' = Tail(toBroker))
  BY DEF BrokerReads, Failure, BrokerCancels, ConsumerTimeout, ConnectionLost, Publish,
     Recycled, Deliver, wires
<1>3. AckReady(m)' = AckReady(m)
  BY <1>1 DEF AckReady
<1>4. Sent("ack", m)' \in Nat /\ Sent("ack", m)' <= Sent("ack", m)
  <2>1. CASE toBroker' \in {toBroker, <<>>}
    BY <1>1, <2>1, OccurrencesEmpty, CountTypes DEF Sent
  <2>2. CASE toBroker # <<>> /\ toBroker' = Tail(toBroker)
    BY <1>1, <2>2, SentHead
  <2>. QED  BY <1>2, <2>1, <2>2
<1>. QED  BY <1>3, <1>4, PlaceTypes DEF Handed

\* Every step of the program is a step of the ledger or leaves it alone.
LEMMA NextLedger ==
    ASSUME DeliveryInv, DeliveryInv', HoldInv, HeldCountAccurate, [Next]_vars
    PROVE  Ledger!LedgerNext \/ UNCHANGED Ledger!ledger
<1>1. TypeOK /\ TypeOK' /\ Disjoint /\ Placement /\ Fresh /\ FrameOrder /\ Running /\ Control
  BY DEF DeliveryInv, ControlInv
<1>2. worker \in [Messages -> WorkerStates]
  BY <1>1 DEF TypeOK, HoldTypeOK
<1>3. \A m \in Messages : Handed(m) \in Nat /\ Handed(m)' \in Nat
  BY <1>1, HandedNat, HandedNatNext
<1>4. \A m \in Messages : (m \in AcksDue <=> Handed(m) > 0) /\ (m \in AcksDue' <=> Handed(m)' > 0)
  BY DEF AcksDue, Handed
<1>5. AcksDue \subseteq Messages /\ AcksDue' \subseteq Messages
  BY DEF AcksDue
<1>6. ASSUME UNCHANGED <<worker, acked>>, \A m \in Messages : Handed(m)' <= Handed(m)
      PROVE  Ledger!LedgerNext \/ UNCHANGED Ledger!ledger
  <2>1. AcksDue' \subseteq AcksDue
    BY <1>6, <1>3, <1>4, <1>5
  <2>. QED  BY <1>1, <1>6, <2>1, OnlyLosses
\* on_message below the limit, and at the limit.
<1>7. CASE OnMessageIncrement
  <2>1. cur \in Messages /\ worker[cur] = "none" /\ Handed(cur) = 0 /\ cur \notin acked
    BY <1>7, IncrementFresh DEF OnMessageIncrement
  <2>2. cur \notin Holders /\ cur \notin AcksDue
    BY <1>4, <2>1 DEF Holders, Counted
  <2>3. Cardinality(Holders) < MaxHeld
    BY <1>7 DEF OnMessageIncrement, HoldInv, HeldCountAccurate
  <2>4. Holders' = Holders \cup {cur} /\ DelayIsOver' = DelayIsOver
    BY <1>7, <1>2, <2>1 DEF OnMessageIncrement, Holders, Counted, DelayIsOver
  <2>5. AcksDue' = AcksDue /\ acked' = acked
    BY <1>7 DEF OnMessageIncrement, AcksDue, AckReady, Sent, eventVars, wires, brokerVars
  <2>6. Ledger!Hold(cur)
    BY <2>1, <2>2, <2>3, <2>4, <2>5, LedgerCardinality DEF Ledger!Hold, Ledger!Free
  <2>. QED  BY <2>1, <2>6 DEF Ledger!LedgerNext
<1>8. CASE OnMessage
  <2>1. cur \in Messages /\ worker[cur] = "none" /\ Handed(cur) = 0 /\ cur \notin acked
    BY <1>8, IncrementFresh DEF OnMessage
  <2>2. UNCHANGED <<worker, acked, toBroker, callbacks, readyEvents>> /\ pc = "onmessage"
    BY <1>8 DEF OnMessage, holdVars, brokerVars, wires, eventVars
  <2>3. CASE heldCount < MaxHeld
    <3>1. UNCHANGED outbuf
      <4>1. ~(heldCount >= MaxHeld)
        BY <1>1, <2>3, LimitsAssumption DEF TypeOK, HoldTypeOK
      <4>. QED  BY <1>8, <4>1 DEF OnMessage
    <3>2. \A m \in Messages : Handed(m)' <= Handed(m)
      BY <1>3, <2>2, <3>1 DEF Handed, AckReady, Sent
    <3>. QED  BY <1>6, <2>2, <3>2
  <2>4. CASE heldCount >= MaxHeld
    <3>1. outbuf' = Append(outbuf, MsgFrame("ack", cur))
      BY <1>8, <2>4 DEF OnMessage, AckAndFlush
    <3>2. ASSUME NEW m \in Messages
          PROVE  Handed(m)' = Handed(m) + (IF cur = m THEN 1 ELSE 0)
      <4>1. Occurrences(outbuf', MsgFrame("ack", m)) = Occurrences(outbuf, MsgFrame("ack", m))
            + (IF cur = m THEN 1 ELSE 0)
        BY <1>1, <2>1, <3>1, SettleFrames
      <4>. QED  BY <1>1, <2>2, <4>1, CountTypes DEF Handed, AckReady, Sent
    <3>3. cur \notin Holders /\ cur \notin AcksDue
      BY <1>4, <2>1 DEF Holders, Counted
    <3>4. Cardinality(Holders) = MaxHeld
      <4>1. heldCount \in Int /\ heldCount <= MaxHeld
        BY <1>1 DEF HoldInv, HeldWithinLimit, TypeOK, HoldTypeOK
      <4>. QED  BY <2>4, <4>1, LimitsAssumption DEF HeldCountAccurate
    <3>5. Holders' = Holders /\ DelayIsOver' = DelayIsOver /\ acked' = acked
      BY <2>2 DEF Holders, DelayIsOver
    <3>6. AcksDue' = AcksDue \cup {cur}
      BY <1>3, <1>4, <1>5, <2>1, <3>2
    <3>7. Ledger!Bounce(cur)
      BY <2>1, <3>3, <3>4, <3>5, <3>6, LedgerCardinality DEF Ledger!Bounce, Ledger!Free
    <3>. QED  BY <2>1, <3>7 DEF Ledger!LedgerNext
  <2>5. heldCount < MaxHeld \/ heldCount >= MaxHeld
    BY <1>1, LimitsAssumption DEF TypeOK, HoldTypeOK
  <2>. QED  BY <2>3, <2>4, <2>5
\* The life of a thread.
<1>9. ASSUME NEW m \in Messages, DelayOver(m)
      PROVE  Ledger!LedgerNext
  <2>1. m \in Holders \ DelayIsOver /\ Holders' = Holders /\ DelayIsOver' = DelayIsOver \cup {m}
    BY <1>9, <1>2 DEF DelayOver, Holders, Counted, DelayIsOver
  <2>2. AcksDue' = AcksDue /\ acked' = acked
    BY <1>9 DEF DelayOver, AcksDue, AckReady, Sent, eventVars, wires, brokerVars
  <2>. QED  BY <2>1, <2>2 DEF Ledger!LedgerNext, Ledger!Ripen
<1>10. ASSUME NEW n \in Messages, ScheduleAck(n)
       PROVE  Ledger!LedgerNext \/ UNCHANGED Ledger!ledger
  <2>1. /\ n \in DelayIsOver /\ Holders' = Holders /\ DelayIsOver' = DelayIsOver
        /\ acked' = acked /\ UNCHANGED <<outbuf, toBroker, readyEvents>>
    BY <1>10, <1>2 DEF ScheduleAck, Holders, Counted, DelayIsOver, wires, brokerVars
  <2>2. CASE UNCHANGED callbacks
    BY <2>1, <2>2 DEF Ledger!ledger, AcksDue, AckReady, Sent
  <2>3. CASE callbacks' = Append(callbacks, n)
    <3>1. ASSUME NEW m \in Messages
          PROVE  Handed(m)' = Handed(m) + (IF n = m THEN 1 ELSE 0)
      <4>1. Occurrences(callbacks', m) = Occurrences(callbacks, m) + (IF n = m THEN 1 ELSE 0)
        BY <1>1, <2>3, CountReady
      <4>. QED  BY <1>1, <2>1, <4>1, CountTypes DEF Handed, AckReady, Sent
    <3>2. AcksDue' = AcksDue \cup {n}
      BY <1>3, <1>4, <1>5, <3>1
    <3>3. n \notin AcksDue /\ n \notin acked
      <4>1. InThread(n) = 1 /\ Placed(n)
        BY <1>10, <1>1 DEF ScheduleAck, InThread, Placement
      <4>. QED  BY <1>1, <1>4, <4>1, PlaceTypes DEF Placed, Places, Settling, Handed
    <3>. QED  BY <2>1, <3>2, <3>3 DEF Ledger!LedgerNext, Ledger!Expire
  <2>. QED  BY <1>10, <2>2, <2>3 DEF ScheduleAck
<1>11. ASSUME NEW m \in Messages, WorkerDecrement(m)
       PROVE  Ledger!LedgerNext
  <2>1. m \in DelayIsOver /\ Holders' = Holders \ {m} /\ DelayIsOver' = DelayIsOver \ {m}
    BY <1>11, <1>2 DEF WorkerDecrement, Holders, Counted, DelayIsOver
  <2>2. AcksDue' = AcksDue /\ acked' = acked
    BY <1>11 DEF WorkerDecrement, AcksDue, AckReady, Sent, eventVars, wires, brokerVars
  <2>. QED  BY <2>1, <2>2 DEF Ledger!LedgerNext, Ledger!GiveBack
\* The broker records an ack, or forgets it.
<1>12. CASE BrokerReads
  <2>1. UNCHANGED worker /\ \A m \in Messages : Handed(m)' <= Handed(m)
    BY <1>12, <1>1, BrokerHands DEF BrokerReads, holdVars
  <2>2. CASE UNCHANGED acked
    BY <1>6, <2>1, <2>2
  <2>3. ASSUME NEW n \in Messages, Head(toBroker) = MsgFrame("ack", n), acked' = acked \cup {n}
        PROVE  Ledger!LedgerNext
    <3>1. Handed(n) > 0 /\ Handed(n)' = 0
      <4>1. Sent("ack", n) = Sent("ack", n)' + 1 /\ Sent("ack", n)' \in Nat
        BY <1>12, <1>1, <2>3, SentHead DEF BrokerReads
      <4>2. Places(n) <= 1
        BY <1>1 DEF Placement, Placed
      <4>3. AckReady(n)' = AckReady(n)
        BY <1>12 DEF BrokerReads, AckReady, eventVars
      <4>4. /\ Arriving(n) \in Nat /\ InThread(n) \in Nat /\ AckReady(n) \in Nat
                 /\ Sent("reject", n) \in Nat
        BY <1>1, PlaceTypes
      <4>5. AckReady(n) = 0 /\ Sent("ack", n)' = 0
        BY <4>1, <4>2, <4>4 DEF Places, Settling
      <4>. QED  BY <4>1, <4>3, <4>5 DEF Handed
    <3>2. \A m \in Messages \ {n} : Handed(m)' = Handed(m)
      <4>1. ASSUME NEW m \in Messages \ {n}
            PROVE  Handed(m)' = Handed(m)
        <5>1. Head(toBroker) # MsgFrame("ack", m)
          BY <2>3, FrameEquality
        <5>2. Sent("ack", m) = Sent("ack", m)' + 0 /\ Sent("ack", m)' \in Nat
          BY <1>12, <1>1, <5>1, SentHead DEF BrokerReads
        <5>3. AckReady(m)' = AckReady(m)
          BY <1>12 DEF BrokerReads, AckReady, eventVars
        <5>. QED  BY <5>2, <5>3 DEF Handed
      <4>. QED  BY <4>1
    <3>3. n \in AcksDue /\ AcksDue' = AcksDue \ {n}
      BY <1>3, <1>4, <1>5, <3>1, <3>2
    <3>4. Holders' = Holders /\ DelayIsOver' = DelayIsOver
      BY <2>1 DEF Holders, DelayIsOver
    <3>. QED  BY <2>3, <3>3, <3>4 DEF Ledger!LedgerNext, Ledger!Ack
  <2>4. \/ UNCHANGED acked
        \/ Head(toBroker).type = "ack" /\ acked' = acked \cup {Head(toBroker).msg}
    BY <1>12 DEF BrokerReads, BrokerSettle, BrokerClosing
  <2>5. Head(toBroker).type = "ack" => Head(toBroker).msg \in Messages
                                       /\ Head(toBroker) = MsgFrame("ack", Head(toBroker).msg)
    BY <1>12, <1>1, QueueTypes, FrameForm DEF BrokerReads
  <2>. QED  BY <2>2, <2>3, <2>4, <2>5
<1>13. ASSUME NEW m \in Messages, Recycled(m)
       PROVE  Ledger!LedgerNext
  <2>1. m \in acked /\ m \notin Holders /\ Holders' = Holders /\ DelayIsOver' = DelayIsOver
    BY <1>13, <1>2 DEF Recycled, Holders, Counted, DelayIsOver
  <2>2. m \notin AcksDue
    BY <1>1, <1>4, <2>1, PlaceTypes DEF Placement, Placed, Places, Settling, Handed
  <2>3. AcksDue' = AcksDue /\ acked' = acked \ {m}
    BY <1>13 DEF Recycled, AcksDue, AckReady, Sent, eventVars, wires
  <2>. QED  BY <2>1, <2>2, <2>3 DEF Ledger!LedgerNext, Ledger!Forget
\* The other steps hand nothing over.
<1>14. CASE Failure \/ \E m \in Messages : Publish(m) \/ Deliver(m)
  <2>1. UNCHANGED <<worker, acked>>
    BY <1>14 DEF Failure, BrokerCancels, ConsumerTimeout, ConnectionLost, Publish, Deliver,
       holdVars
  <2>. QED  BY <1>6, <1>14, <1>1, <2>1, BrokerHands
<1>15. CASE OnMessageStart
  <2>1. worker[cur] = "unstarted"
    BY <1>15, <1>1 DEF Fresh, OnMessageStart
  <2>2. Holders' = Holders /\ DelayIsOver' = DelayIsOver
    BY <1>15, <1>2, <2>1 DEF OnMessageStart, Holders, Counted, DelayIsOver
  <2>3. AcksDue' = AcksDue /\ acked' = acked
    BY <1>15 DEF OnMessageStart, AcksDue, AckReady, Sent, eventVars, wires, brokerVars
  <2>. QED  BY <2>2, <2>3 DEF Ledger!ledger
<1>16. CASE \/ IoRead \/ IoWrite \/ IoCallbacks \/ Loop \/ IoDone \/ DispatchReady
            \/ DispatchChannel \/ DispatchEvent \/ FlushDone \/ Interrupt
            \/ Stop \/ RejectPending \/ SendCancel \/ CancelDone \/ Close
            \/ ChannelCloseDone \/ ConnectionCloseDone
  <2>1. UNCHANGED <<worker, acked>>
    BY <1>16 DEF IoRead, IoWrite, IoCallbacks, Loop, IoDone, DispatchReady, DispatchChannel,
       DispatchEvent, FlushDone, Interrupt, Stop, RejectPending, SendCancel, CancelDone,
       Close, ChannelCloseDone, ConnectionCloseDone, holdVars, brokerVars
  <2>2. ASSUME NEW m \in Messages
        PROVE  Handed(m)' <= Handed(m)
    <3>1. Moved(m)
      BY <1>16, <1>1, ClientMoves DEF MainThread
    <3>2. ~OnMessage
      BY <1>16 DEF IoRead, IoWrite, IoCallbacks, Loop, IoDone, DispatchReady,
         DispatchChannel, DispatchEvent, FlushDone, Interrupt, Stop, RejectPending,
         SendCancel, CancelDone, Close, ChannelCloseDone, ConnectionCloseDone, OnMessage,
         AckAndFlush, Goto, PollPcs
    <3>3. ~ScheduleAck(m)
      BY <1>2, <2>1 DEF ScheduleAck
    <3>. QED  BY <3>1, <3>2, <3>3 DEF Moved
  <2>. QED  BY <1>6, <2>1, <2>2
<1>17. CASE Terminated \/ UNCHANGED vars
  <2>1. UNCHANGED vars
    BY <1>17 DEF Terminated
  <2>. QED  BY <1>6, <1>3, <2>1 DEF vars, holdVars, brokerVars, wires, eventVars, Handed,
               AckReady, Sent
<1>. QED
  BY <1>7, <1>8, <1>9, <1>10, <1>11, <1>12, <1>13, <1>14, <1>15, <1>16, <1>17 DEF Next,
     BrokerStep, MainThread, Worker

\* The program with its threads, callbacks and wires implements the ledger of
\* held messages.
THEOREM LedgerImplemented == Spec => ImplementsLedger
<1>1. DeliveryInv /\ DeliveryInv' /\ HoldInv /\ HeldCountAccurate /\ [Next]_vars
        => [Ledger!LedgerNext]_(Ledger!ledger)
  BY NextLedger
<1>2. Init => HoldInv
  BY LimitsAssumption DEF Init, HoldInv, HeldWithinLimit
<1>3. TypeOK /\ HoldInv /\ [Next]_vars => HoldInv'
  BY NextHold
<1>4. Spec => []HoldInv
  BY <1>2, <1>3, TypeCorrect, PTL DEF Spec
<1>. QED  BY <1>1, <1>4, InitLedger, DeliveryInvariant, CountIsExact, PTL DEF Spec,
             ImplementsLedger, Ledger!LedgerSpec
=============================================================================
