---------------------------- MODULE InboundStream ----------------------------
(***************************************************************************)
(* What a Connection makes of the bytes it receives: _on_data_available    *)
(* cuts them into frames (frame.decode_frame), gives a method frame to its *)
(* callbacks and every other one to its channel, whose assembler           *)
(* (ContentFrameAssembler) puts contents together; and the heartbeat       *)
(* checker watches what was received.                                      *)
(*                                                                         *)
(* The stream is a sequence of symbols that may be cut anywhere: two for a *)
(* frame's header, one for each unit of payload, and the end marker.  The  *)
(* peer interleaves the contents of its channels, replies and heartbeats.  *)
(* The handler of a content is left out (PikaChannel, SlowAckConsumer).    *)
(***************************************************************************)
EXTENDS CallbackManager, Integers, FiniteSets

CONSTANTS
    Channels,       \* open channels
    Arguments,      \* what a reply may be matched by, as a consumer tag
    Workloads,      \* what the peer may send, with bounds on its frames, on the
                    \* callbacks that are added and on the clock
    MaxBody,        \* bound on the size of a content's body
    BodyMax,        \* _body_max_length
    Timeout,        \* the heartbeat timeout that an end proposes, in ticks
    Margin          \* the five seconds that the check interval adds, in ticks

ASSUME StreamBoundsAssumption ==
    /\ \A w \in Workloads : /\ w.types \subseteq {"heartbeat", "reply", "content"}
                            /\ {w.frames, w.adds, w.time} \subseteq Nat
    /\ MaxBody \in Nat /\ BodyMax \in Nat \ {0} /\ Margin \in Nat
    /\ Timeout \in Nat \ {0} /\ Timeout % 2 = 0

VARIABLES
    peer,       \* the frames it sent, its unfinished contents, and those it finished
    net,        \* symbols on their way to the client
    conn,       \* Connection: _frame_buffer, counters, and the frame being processed
    callbacks,  \* the CallbackManager's stack
    uses,       \* for each callback: how often it was added, called and removed
    channels,   \* each channel's assembler, and the contents it passed on
    hb,         \* HeartbeatChecker
    now

vars == <<peer, net, conn, callbacks, uses, channels, hb, now>>

Registered ==
    {[callback |-> "onReply", oneShot |-> TRUE, arguments |-> a] : a \in Arguments}
        \cup {[callback |-> "once", oneShot |-> TRUE, arguments |-> None],
              [callback |-> "always", oneShot |-> FALSE, arguments |-> None]}
Symbol(part, frame) == [part |-> part, frame |-> frame]
NoContent == [method |-> 0, header |-> 0, size |-> 0, seen |-> 0, fragments |-> <<>>]

Symbols == [part : {"type", "size", "payload", "end"},
            frame : {None} \cup ToSet(peer.frames)]

TypeOK ==
    /\ peer.work \in Workloads /\ Len(peer.frames) <= peer.work.frames
    /\ net \in Seq(Symbols) /\ conn.buffer \in Seq(Symbols)
    /\ conn.received \in Nat /\ conn.processed \in 0..Len(peer.frames)
    /\ conn.busy \in BOOLEAN /\ conn.inCall \in BOOLEAN
    /\ conn.ended \in {None, "idle", "error"}
    /\ \A k \in DOMAIN callbacks : callbacks[k] # <<>> /\ k \in Channels \X {"Ok"}
    /\ \A r \in Registered : uses.added[r] \in 0..peer.work.adds
    /\ \A c \in Channels : channels[c].seen \in 0..MaxBody
    /\ hb.on \in BOOLEAN /\ (hb.on => hb.sendAt >= now /\ hb.checkAt >= now)
    /\ now \in 0..peer.work.time

\* _tune_heartbeat_timeout: the client's value, 0 included, before the server's.
TuneHeartbeat(client, server) == IF client = None THEN server ELSE client
SendInterval == Timeout \div 2
CheckInterval == Timeout + Margin

Init ==
    /\ net = <<>> /\ callbacks = EmptyStack /\ now = 0
    /\ conn = [buffer |-> <<>>, received |-> 0, processed |-> 0, busy |-> FALSE,
               calls |-> <<>>, inCall |-> FALSE, ended |-> None, lastFrame |-> 0]
    /\ uses = [added |-> [r \in Registered |-> 0], called |-> [r \in Registered |-> 0],
               removed |-> [r \in Registered |-> 0]]
    /\ channels = [c \in Channels |-> NoContent @@ [passed |-> <<>>]]
    /\ \E work \in Workloads, client \in {None, 0, Timeout}, server \in {0, Timeout} :
        /\ TuneHeartbeat(client, server) > 0 <=> work.time > 0
        /\ peer = [work |-> work, frames |-> <<>>, contents |-> [c \in Channels |-> <<>>],
                   ids |-> 0,
                   sending |-> [c \in Channels |->
                                   [id |-> 0, left |-> 0, stage |-> "none"]]]
        /\ hb = [on |-> TuneHeartbeat(client, server) > 0, mark |-> 0,
                 sendAt |-> SendInterval, checkAt |-> CheckInterval, lastSent |-> 0]
-----------------------------------------------------------------------------
(* Frames.                                                                 *)

\* Frame._marshal.
Marshal(f) ==
    <<Symbol("type", None), Symbol("size", f)>>
        \o [i \in 1..f.length |-> Symbol("payload", None)] \o <<Symbol("end", None)>>
HeaderSize == 2

\* Mutant: a frame whose end marker is missing yet is taken for complete.
DecodeFrameEarly(buffer) ==
    LET f == buffer[HeaderSize].frame
        frameEnd == HeaderSize + f.length + 1
    IN IF Len(buffer) < HeaderSize \/ frameEnd > Len(buffer) + 1
       THEN [consumed |-> 0, frame |-> None]
       ELSE [consumed |-> IF frameEnd > Len(buffer) THEN Len(buffer) ELSE frameEnd,
             frame |-> f]

\* frame.decode_frame: nothing is consumed before the frame is complete.
DecodeFrame(buffer) ==
    LET f == buffer[HeaderSize].frame
        frameEnd == HeaderSize + f.length + 1
    IN IF Len(buffer) < HeaderSize \/ frameEnd > Len(buffer)
       THEN [consumed |-> 0, frame |-> None]
       ELSE [consumed |-> frameEnd, frame |-> f]

\* _send_message cuts a body into frames of at most _body_max_length.
BodyFrames(length) ==
    LET chunks == (length + BodyMax - 1) \div BodyMax IN
    [i \in 1..chunks |->
        IF i * BodyMax > length THEN length - (i - 1) * BodyMax ELSE BodyMax]
-----------------------------------------------------------------------------
(* The peer.                                                               *)

Frame(type, channel, id, value, length) ==
    [type |-> type, channel |-> channel, id |-> id, value |-> value, length |-> length]
PeerFrame(kind, f) ==
    /\ conn.ended = None /\ ~conn.busy
    /\ kind \in peer.work.types /\ Len(peer.frames) < peer.work.frames
    /\ net' = net \o Marshal(f)
    /\ UNCHANGED <<conn, callbacks, uses, channels, hb, now>>

PeerHeartbeat ==
    LET f == Frame("heartbeat", None, 0, None, 0) IN
    PeerFrame("heartbeat", f) /\ peer' = [peer EXCEPT !.frames = Append(@, f)]

\* A reply, between contents of its channel.
PeerReplies(c, a) ==
    LET f == Frame("reply", c, 0, a, 1) IN
    /\ peer.sending[c].stage = "none" /\ PeerFrame("reply", f)
    /\ peer' = [peer EXCEPT !.frames = Append(@, f)]

\* A content is its method (Basic.Deliver, Basic.GetOk or Basic.Return), its header
\* with the size of the body, and the frames of the body.
Finished(c, left) ==
    IF left > 0 THEN peer.contents[c]
    ELSE Append(peer.contents[c],
                [id |-> peer.sending[c].id, last |-> Len(peer.frames) + 1])
Sending(id, left) ==
    [id |-> id, left |-> left, stage |-> IF left > 0 THEN "body" ELSE "none"]

PeerContent(c) ==
    LET id == peer.ids + 1 IN
    /\ peer.sending[c].stage = "none" /\ PeerFrame("content", Frame("method", c, id, 0, 1))
    /\ peer' = [peer EXCEPT !.frames = Append(@, Frame("method", c, id, 0, 1)), !.ids = id,
                            !.sending[c] = [id |-> id, left |-> 0, stage |-> "header"]]

PeerHeader(c, size) ==
    LET f == Frame("header", c, peer.sending[c].id, size, 1) IN
    /\ peer.sending[c].stage = "header" /\ PeerFrame("content", f)
    /\ peer' = [peer EXCEPT !.frames = Append(@, f), !.contents[c] = Finished(c, size),
                            !.sending[c] = Sending(@.id, size)]

PeerBody(c, length) ==
    LET f == Frame("body", c, peer.sending[c].id, 0, length)
        left == peer.sending[c].left - length
    IN /\ peer.sending[c].stage = "body" /\ left >= 0 /\ PeerFrame("content", f)
       /\ peer' = [peer EXCEPT !.frames = Append(@, f), !.contents[c] = Finished(c, left),
                               !.sending[c] = Sending(@.id, left)]
-----------------------------------------------------------------------------
(* _on_data_available.                                                     *)

Open == conn.ended = None

\* The socket delivers any part of what is under way.
Arrives(length) ==
    /\ Open /\ ~conn.busy /\ length <= Len(net)
    /\ conn' = [conn EXCEPT !.buffer = @ \o SubSeq(net, 1, length), !.busy = TRUE]
    /\ net' = SubSeq(net, length + 1, Len(net))
    /\ UNCHANGED <<peer, callbacks, uses, channels, hb, now>>

Reading == Open /\ conn.busy /\ conn.calls = <<>> /\ ~conn.inCall
Decoded == DecodeFrame(conn.buffer)

NothingMore ==
    /\ Reading /\ Decoded.frame = None /\ conn' = [conn EXCEPT !.busy = FALSE]
    /\ UNCHANGED <<peer, net, callbacks, uses, channels, hb, now>>

\* _trim_frame_buffer and the count of frames.
Trimmed ==
    [conn EXCEPT !.buffer = SubSeq(@, Decoded.consumed + 1, Len(@)), !.processed = @ + 1,
                 !.received = @ + Decoded.consumed, !.lastFrame = now]
Got(types) == Reading /\ Decoded.frame # None /\ Decoded.frame.type \in types

\* HeartbeatChecker.received only counts.
OnHeartbeat ==
    /\ Got({"heartbeat"}) /\ conn' = Trimmed
    /\ UNCHANGED <<peer, net, callbacks, uses, channels, hb, now>>

\* A method frame with callbacks is theirs, whether they match or not; without, the
\* channel's assembler refuses it (_on_unexpected_frame).
OnReply ==
    /\ Got({"reply"})
    /\ LET f == Decoded.frame
           key == <<f.channel, "Ok">>
           processed == ProcessEntries(callbacks, key, "connection", f.value)
       IN IF Pending(callbacks, key) = 0 THEN conn' = Trimmed /\ UNCHANGED callbacks
          ELSE /\ callbacks' = processed.stack
               /\ conn' = [Trimmed EXCEPT !.calls = processed.called]
    /\ UNCHANGED <<peer, net, uses, channels, hb, now>>

\* _finish and _reset.
Finish(a) == [a EXCEPT !.passed = Append(@, [id |-> a.method, header |-> a.header,
                                             fragments |-> a.fragments]),
                       !.method = 0, !.header = 0, !.size = 0, !.seen = 0,
                       !.fragments = <<>>]

\* ContentFrameAssembler.process: a header of an empty body, or the last fragment,
\* completes the content.
Assemble(a, f) ==
    CASE f.type = "method" -> [a EXCEPT !.method = f.id]
      [] f.type = "header" ->
             LET got == [a EXCEPT !.header = f.id, !.size = f.value] IN
             IF f.value = 0 THEN Finish(got) ELSE got
      [] f.type = "body" ->
             LET got == [a EXCEPT !.seen = @ + f.length, !.fragments = Append(@, f)] IN
             IF got.seen = got.size THEN Finish(got) ELSE got

\* Mutant: one assembler serves all channels.
OnContentFrameShared ==
    /\ Got({"method", "header", "body"}) /\ conn' = Trimmed
    /\ channels' = [c \in Channels |->
           IF c # Decoded.frame.channel
           THEN [Assemble(channels[c], Decoded.frame) EXCEPT !.passed = channels[c].passed]
           ELSE Assemble(channels[c], Decoded.frame)]
    /\ UNCHANGED <<peer, net, callbacks, uses, hb, now>>

\* _deliver_frame_to_channel and _handle_content_frame.
OnContentFrame ==
    /\ Got({"method", "header", "body"}) /\ conn' = Trimmed
    /\ channels' = [channels EXCEPT ![Decoded.frame.channel] = Assemble(@, Decoded.frame)]
    /\ UNCHANGED <<peer, net, callbacks, uses, hb, now>>
-----------------------------------------------------------------------------
(* Callbacks.                                                              *)

Registration(d) ==
    [callback |-> d.callback, oneShot |-> d.oneShot, arguments |-> d.arguments]

CallNext ==
    /\ Open /\ conn.calls # <<>> /\ ~conn.inCall
    /\ conn' = [conn EXCEPT !.calls = Tail(@), !.inCall = TRUE]
    /\ uses' = [uses EXCEPT !.called[Registration(Head(conn.calls))] = @ + 1]
    /\ UNCHANGED <<peer, net, callbacks, channels, hb, now>>

CallReturns ==
    /\ conn.inCall /\ conn' = [conn EXCEPT !.inCall = FALSE]
    /\ UNCHANGED <<peer, net, callbacks, uses, channels, hb, now>>

\* The exception leaves process and _on_data_available; the transport aborts.
CallRaises ==
    /\ conn.inCall
    /\ conn' = [conn EXCEPT !.inCall = FALSE, !.calls = <<>>, !.busy = FALSE,
                            !.ended = "error"]
    /\ UNCHANGED <<peer, net, callbacks, uses, channels, hb, now>>

\* The application, or Channel.rpc for it, adds and removes callbacks at any time.
CanChange == Open /\ (~conn.busy \/ conn.inCall)
AddCallback(c, r) ==
    /\ CanChange /\ FoldFunction(+, 0, uses.added) < peer.work.adds
    /\ callbacks' = AddEntry(callbacks, <<c, "Ok">>,
                             CallbackDict(r.callback, r.oneShot, None, r.arguments))
    /\ uses' = [uses EXCEPT !.added[r] = @ + 1]
    /\ UNCHANGED <<peer, net, conn, channels, hb, now>>

UsesLeft(stack, c, r) ==
    FoldLeft(LAMBDA n, d : IF Registration(d) = r THEN n + d.calls ELSE n, 0,
             EntriesAt(stack, <<c, "Ok">>))
RemoveCallback(c, r) ==
    /\ CanChange /\ Pending(callbacks, <<c, "Ok">>) > 0
    /\ callbacks' = RemoveEntry(callbacks, <<c, "Ok">>, r.callback, r.arguments)
    /\ uses' = [uses EXCEPT !.removed[r] = @ + UsesLeft(callbacks, c, r)]
    /\ UNCHANGED <<peer, net, conn, channels, hb, now>>
-----------------------------------------------------------------------------
(* The heartbeat checker.  Its timers and the data take turns in the loop. *)

LoopTurn == Open /\ ~conn.busy /\ hb.on

SendHeartbeat ==
    /\ LoopTurn /\ now = hb.sendAt
    /\ hb' = [hb EXCEPT !.sendAt = now + SendInterval, !.lastSent = now]
    /\ UNCHANGED <<peer, net, conn, callbacks, uses, channels, now>>

\* Mutant: the window's count is not taken again.
CheckHeartbeatStale ==
    /\ LoopTurn /\ now = hb.checkAt
    /\ IF conn.received # hb.mark
       THEN hb' = [hb EXCEPT !.checkAt = now + CheckInterval] /\ UNCHANGED conn
       ELSE conn' = [conn EXCEPT !.ended = "idle"] /\ UNCHANGED hb
    /\ UNCHANGED <<peer, net, callbacks, uses, channels, now>>

\* _check_heartbeat: one window without a frame ends the connection.
CheckHeartbeat ==
    /\ LoopTurn /\ now = hb.checkAt
    /\ IF conn.received # hb.mark
       THEN /\ hb' = [hb EXCEPT !.mark = conn.received, !.checkAt = now + CheckInterval]
            /\ UNCHANGED conn
       ELSE conn' = [conn EXCEPT !.ended = "idle"] /\ UNCHANGED hb
    /\ UNCHANGED <<peer, net, callbacks, uses, channels, now>>

\* Timers that are due run before time goes on: callbacks do not block the loop.
Tick ==
    /\ LoopTurn /\ now < peer.work.time /\ now < hb.sendAt /\ now < hb.checkAt
    /\ now' = now + 1
    /\ UNCHANGED <<peer, net, conn, callbacks, uses, channels, hb>>
-----------------------------------------------------------------------------
Peer ==
    \/ PeerHeartbeat
    \/ \E c \in Channels :
          \/ PeerContent(c)
          \/ \E a \in Arguments : PeerReplies(c, a)
          \/ \E size \in 0..MaxBody : PeerHeader(c, size)
          \/ \E length \in 1..BodyMax : PeerBody(c, length)

Next ==
    \/ Peer \/ \E length \in 1..Len(net) : Arrives(length)
    \/ NothingMore \/ OnHeartbeat \/ OnReply \/ OnContentFrame
    \/ CallNext \/ CallReturns \/ CallRaises
    \/ \E c \in Channels, r \in Registered : AddCallback(c, r) \/ RemoveCallback(c, r)
    \/ SendHeartbeat \/ CheckHeartbeat \/ Tick

Spec == Init /\ [][Next]_vars
-----------------------------------------------------------------------------
(* Properties.                                                             *)

\* However the stream is cut, what is buffered and under way is the frames that are
\* not processed yet, the bytes of the others are counted, and the contents each
\* channel passed on are those the peer finished in the processed frames, complete,
\* in order and from their own frames only.  A body that is sent is cut likewise.
StreamDecodes ==
    LET rest == [i \in 1..(Len(peer.frames) - conn.processed) |->
                     Marshal(peer.frames[conn.processed + i])]
        done == [i \in 1..conn.processed |-> Len(Marshal(peer.frames[i]))]
    IN /\ conn.buffer \o net = FlattenSeq(rest)
       /\ conn.received = FoldLeft(+, 0, done)
ContentsComplete ==
    \A c \in Channels :
        LET finished == SelectSeq(peer.contents[c], LAMBDA m : m.last <= conn.processed) IN
        /\ [i \in DOMAIN channels[c].passed |-> channels[c].passed[i].id]
               = [i \in DOMAIN finished |-> finished[i].id]
        /\ \A m \in ToSet(channels[c].passed) :
               /\ m.header = m.id
               /\ m.fragments = SelectSeq(peer.frames,
                      LAMBDA f : f.type = "body" /\ f.id = m.id)
BodiesCut ==
    \A length \in 0..(MaxBody + BodyMax) :
        /\ FoldLeft(+, 0, BodyFrames(length)) = length
        /\ \A size \in ToSet(BodyFrames(length)) : size \in 1..BodyMax
ContentsInOrder == StreamDecodes /\ ContentsComplete /\ BodiesCut

\* Every use of a one-shot callback is called once, still registered, or removed,
\* however callbacks add and remove each other while they are called (unless one
\* raises: those collected after it are lost).
UsesCounted ==
    conn.ended # "error" =>
        \A r \in {q \in Registered : q.oneShot} :
            uses.added[r] = uses.called[r] + uses.removed[r]
                + FoldFunction(+, 0, [c \in Channels |-> UsesLeft(callbacks, c, r)])
                + Cardinality({i \in DOMAIN conn.calls : Registration(conn.calls[i]) = r})

\* A connection is given up as idle only when no frame was complete for a whole
\* check interval, which is longer than the timeout; a silent peer is found within
\* two of them; and the client is not silent for longer than half the timeout.
IdleIsIdle ==
    hb.on =>
        /\ conn.ended = "idle" => now - conn.lastFrame >= CheckInterval
        /\ Open => /\ now - conn.lastFrame <= 2 * CheckInterval
                   /\ now - hb.lastSent <= SendInterval
=============================================================================
