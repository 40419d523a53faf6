---------------------------- MODULE StreamServices ----------------------------
(***************************************************************************)
(* The asynchronous services that a connection is built from, one after the*)
(* other: the address resolver with its thread (selector_ioloop_adapter),  *)
(* the socket connector, the stream connector with its TLS handshake, and  *)
(* the plaintext or TLS transport (io_services_utils).                     *)
(*                                                                         *)
(* The I/O loop runs queued callbacks and the reader and the writer that   *)
(* are registered for the socket.  A transport's consume and produce are a *)
(* step for each recv and send, with the protocol's data_received between  *)
(* them: there, and between callbacks, the user writes, aborts and cancels.*)
(* Bytes are numbered in the order they are written.  The TLS engine is    *)
(* external: todo lists the handshake records it has to write and read     *)
(* before application data can be sent, also when the peer renegotiates.   *)
(***************************************************************************)
EXTENDS Integers, Sequences, SequencesExt, FiniteSets

CONSTANTS
    MaxWritten,   \* bound on the bytes that the user writes
    MaxRecords,   \* bound on the records that the peer sends of its own accord
    MaxConsume,   \* _MAX_CONSUME_BYTES, in records
    MaxRoom,      \* room in the socket's send buffer
    None

ASSUME ServiceBoundsAssumption ==
    /\ MaxWritten \in Nat /\ MaxRecords \in Nat
    /\ MaxConsume \in Nat \ {0} /\ MaxRoom \in Nat \ {0}

\* None is no reader, writer or action.
ASSUME NoneAssumption == None \notin {"connect", "handshake", "transport", "consume", "produce"}

VARIABLES
    service,    \* the service at work: its kind, its state, and how it ended
    reports,    \* how often the user was told the end of each kind of service
    canceled,   \* the services whose cancel() returned True
    thread,     \* the resolver's thread
    loop,       \* queued callbacks, and what is registered for the socket
    actions,    \* _ssl_readable_action and _ssl_writable_action
    run,        \* the handshake, consume or produce that the loop is in
    tx,         \* _tx_buffers, _tx_buffered_byte_count; bytes written and sent
    ssl,        \* the TLS engine
    wire        \* the kernel's socket and the peer

vars == <<service, reports, canceled, thread, loop, actions, run, tx, ssl, wire>>
transport == <<actions, run, tx>>
outside == <<reports, canceled, thread>>

Kinds == {"resolver", "socket", "stream", "transport"}
Callbacks == {"resolved", "startSocket", "startStream", "readable", "lost", "failed"}

TypeOK ==
    /\ service \in [kind : Kinds, ok : BOOLEAN,
                    state : {"active", "canceled", "completed", "failed", "aborted"}]
    /\ reports \in [Kinds -> 0..2] /\ canceled \subseteq Kinds
    /\ thread \in {"waiting", "resolving", "resolved", "done"}
    /\ loop.queue \in Seq(Callbacks)
    /\ loop.reader \in {None, "handshake", "transport"}
    /\ loop.writer \in {None, "connect", "handshake", "transport"}
    /\ actions \in [read : {None, "consume", "produce"},
                    write : {None, "consume", "produce"}]
    /\ run \in [what : {"idle", "handshake", "consume", "produce"}, n : 0..MaxConsume,
                inData : BOOLEAN]
    /\ tx.buffers \in Seq(Seq(1..MaxWritten)) /\ tx.count \in 0..MaxWritten
    /\ tx.written \in 0..MaxWritten /\ tx.sent \in Seq(1..MaxWritten)
    /\ ssl.on \in BOOLEAN /\ ssl.todo \in Seq({"write", "read"}) /\ ssl.pending \in Nat
    /\ wire.open \in BOOLEAN /\ wire.connect \in {"no", "pending", "ok", "failed"}
    /\ wire.rx \in Seq({"app", "hs", "eof", "reset"}) /\ wire.room \in 0..MaxRoom

\* _AddressResolver.start was called; tls: with an ssl_context.
Init ==
    /\ service = [kind |-> "resolver", state |-> "active", ok |-> FALSE]
    /\ reports = [k \in Kinds |-> 0] /\ canceled = {} /\ thread = "waiting"
    /\ loop = [queue |-> <<>>, reader |-> None, writer |-> None]
    /\ actions = [read |-> None, write |-> None]
    /\ run = [what |-> "idle", n |-> 0, inData |-> FALSE]
    /\ tx = [buffers |-> <<>>, count |-> 0, written |-> 0, sent |-> <<>>]
    /\ \E tls \in BOOLEAN : ssl = [on |-> tls, todo |-> <<>>, pending |-> 0]
    /\ wire = [open |-> TRUE, connect |-> "no", rx |-> <<>>, room |-> MaxRoom, owed |-> 0,
               records |-> 0]
-----------------------------------------------------------------------------
Idle == run.what = "idle"
UserTurn == Idle \/ run.inData
At(kind) == service.kind = kind /\ service.state = "active"
Queued(l, callback) == [l EXCEPT !.queue = Append(@, callback)]
Unwatched(l) == [l EXCEPT !.reader = None, !.writer = None]

\* The loop takes a queued callback.
Turn(callback) == Idle /\ loop.queue # <<>> /\ Head(loop.queue) = callback
Taken == [loop EXCEPT !.queue = Tail(@)]

Arrived(kind) == wire.rx # <<>> /\ Head(wire.rx) = kind
Broken == Contains(wire.rx, "reset")
Room == wire.room > 0 /\ ~Broken

\* _report_completion: the state changes first, then on_done is called.
Complete(ok) ==
    /\ service' = [service EXCEPT !.state = "completed", !.ok = ok]
    /\ reports' = [reports EXCEPT ![service.kind] = @ + 1]

-----------------------------------------------------------------------------
(* The resolver: _resolve runs in a thread of its own.                     *)

ThreadStarts ==
    /\ thread = "waiting" /\ thread' = "resolving"
    /\ UNCHANGED <<service, reports, canceled, loop, transport, ssl, wire>>

\* getaddrinfo returned, or raised.
Resolve ==
    /\ thread = "resolving" /\ thread' = "resolved"
    /\ UNCHANGED <<service, reports, canceled, loop, transport, ssl, wire>>

\* Under the mutex.
ThreadDelivers ==
    /\ thread = "resolved" /\ thread' = "done"
    /\ loop' = IF At("resolver") THEN Queued(loop, "resolved") ELSE loop
    /\ UNCHANGED <<service, reports, canceled, transport, ssl, wire>>

\* Mutant: the resolver may have been canceled since the result was queued.
DispatchResultUnchecked ==
    /\ Turn("resolved") /\ loop' = Taken /\ \E ok \in BOOLEAN : Complete(ok)
    /\ UNCHANGED <<canceled, thread, transport, ssl, wire>>

DispatchResult ==
    /\ Turn("resolved") /\ loop' = Taken
    /\ IF At("resolver") THEN \E ok \in BOOLEAN : Complete(ok)
       ELSE UNCHANGED <<service, reports>>
    /\ UNCHANGED <<canceled, thread, transport, ssl, wire>>

\* The user goes on to the next service, in its on_done or later.
StartNext(from, kind, start) ==
    /\ Idle /\ service = [kind |-> from, state |-> "completed", ok |-> TRUE]
    /\ service' = [kind |-> kind, state |-> "active", ok |-> FALSE]
    /\ loop' = Queued(loop, start)
    /\ UNCHANGED <<outside, transport, ssl, wire>>
StartSocket == StartNext("resolver", "socket", "startSocket")
StartStream == StartNext("socket", "stream", "startStream")

\* cancel() of the first three services.  The timer of a thread that did not start
\* is canceled; the stream connector closes the socket.
Cancel ==
    /\ UserTurn /\ service.kind # "transport" /\ service.state = "active"
    /\ service' = [service EXCEPT !.state = "canceled"]
    /\ canceled' = canceled \cup {service.kind}
    /\ thread' = IF service.kind = "resolver" /\ thread = "waiting" THEN "done" ELSE thread
    /\ loop' = Unwatched(loop)
    /\ wire' = [wire EXCEPT !.open = service.kind # "stream"]
    /\ UNCHANGED <<reports, transport, ssl>>
-----------------------------------------------------------------------------
(* The socket connector.                                                   *)

SocketStartAsync ==
    /\ Turn("startSocket")
    /\ \/ At("socket") /\ loop' = [Taken EXCEPT !.writer = "connect"]
          /\ wire' = [wire EXCEPT !.connect = "pending"] /\ UNCHANGED <<service, reports>>
       \/ At("socket") /\ Complete(FALSE) /\ loop' = Taken /\ UNCHANGED wire
       \/ ~At("socket") /\ loop' = Taken /\ UNCHANGED <<service, reports, wire>>
    /\ UNCHANGED <<canceled, thread, transport, ssl>>

\* The kernel's connect ends.
Connects ==
    /\ wire.connect = "pending"
    /\ \E how \in {"ok", "failed"} : wire' = [wire EXCEPT !.connect = how]
    /\ UNCHANGED <<service, outside, loop, transport, ssl>>

SocketWritable ==
    /\ Idle /\ loop.writer = "connect" /\ wire.connect \in {"ok", "failed"} /\ At("socket")
    /\ Complete(wire.connect = "ok") /\ loop' = [loop EXCEPT !.writer = None]
    /\ UNCHANGED <<canceled, thread, transport, ssl, wire>>
-----------------------------------------------------------------------------
(* The stream connector.                                                   *)

\* Reporting an exception closes the socket.
StreamFails(l) ==
    /\ Complete(FALSE) /\ loop' = Unwatched(l) /\ wire' = [wire EXCEPT !.open = FALSE]

\* _linkup: the transport registers its reader and the connector reports it; TLS
\* may hold decrypted data already, so that the reader is queued as well.
Linkup(l) ==
    /\ service' = [kind |-> "transport", state |-> "active", ok |-> TRUE]
    /\ reports' = [reports EXCEPT !["stream"] = @ + 1]
    /\ loop' = LET watched == [l EXCEPT !.reader = "transport"] IN
               IF ssl.on THEN Queued(watched, "readable") ELSE watched
    /\ actions' = [actions EXCEPT !.read = IF ssl.on THEN "consume" ELSE None]
    /\ UNCHANGED wire

StreamStartAsync ==
    /\ Turn("startStream")
    /\ \/ /\ At("stream") /\ ~ssl.on /\ Linkup(Taken) /\ UNCHANGED <<run, ssl>>
       \/ /\ At("stream") /\ StreamFails(Taken) /\ UNCHANGED <<actions, run, ssl>>
       \/ /\ At("stream") /\ ssl.on /\ loop' = Taken
          /\ run' = [run EXCEPT !.what = "handshake"]
          /\ ssl' = [ssl EXCEPT !.todo = <<"write", "read", "write">>]
          /\ UNCHANGED <<service, reports, actions, wire>>
       \/ /\ ~At("stream") /\ loop' = Taken
          /\ UNCHANGED <<service, reports, actions, run, ssl, wire>>
    /\ UNCHANGED <<canceled, thread, tx>>

\* _do_ssl_handshake as the reader or the writer.
HandshakeEvent ==
    /\ Idle /\ At("stream") /\ run' = [run EXCEPT !.what = "handshake"]
    /\ \/ loop.reader = "handshake" /\ wire.rx # <<>>
       \/ loop.writer = "handshake" /\ (Room \/ Broken)
    /\ UNCHANGED <<service, outside, loop, actions, tx, ssl, wire>>

Doing(what) == run.what = what /\ ~run.inData
Ended == [run EXCEPT !.what = "idle", !.n = 0, !.inData = FALSE]
TodoIs(step) == ssl.todo # <<>> /\ Head(ssl.todo) = step

HandshakeWants ==
    /\ Doing("handshake") /\ run' = Ended
    /\ \/ /\ TodoIs("read") /\ wire.rx = <<>>
          /\ loop' = [loop EXCEPT !.reader = "handshake", !.writer = None]
       \/ /\ TodoIs("write") /\ ~Room /\ ~Broken
          /\ loop' = [loop EXCEPT !.writer = "handshake", !.reader = None]
    /\ UNCHANGED <<service, outside, actions, tx, ssl, wire>>

\* Done, or an exception of the engine.
HandshakeDone ==
    /\ Doing("handshake") /\ run' = Ended
    /\ \/ ssl.todo = <<>> /\ Linkup(Unwatched(loop))
       \/ /\ \/ TodoIs("read") /\ wire.rx # <<>>
             \/ TodoIs("write") /\ Broken
          /\ StreamFails(loop) /\ UNCHANGED actions
    /\ UNCHANGED <<canceled, thread, tx, ssl>>
-----------------------------------------------------------------------------
(* The TLS engine's own steps within a handshake, a recv or a send.        *)

EngineWrites ==
    /\ run.what # "idle" /\ ~run.inData /\ ssl.on /\ TodoIs("write") /\ Room
    /\ ssl' = [ssl EXCEPT !.todo = Tail(@)]
    /\ wire' = [wire EXCEPT !.room = @ - 1,
                            !.owed = @ + IF Contains(Tail(ssl.todo), "read") THEN 1 ELSE 0]
    /\ UNCHANGED <<service, outside, loop, transport>>

EngineReads ==
    /\ run.what # "idle" /\ ~run.inData /\ ssl.on /\ TodoIs("read") /\ Arrived("hs")
    /\ ssl' = [ssl EXCEPT !.todo = Tail(@)] /\ wire' = [wire EXCEPT !.rx = Tail(@)]
    /\ UNCHANGED <<service, outside, loop, transport>>

\* The peer renegotiates.
EngineAsked ==
    /\ Doing("consume") /\ ssl.on /\ ssl.todo = <<>> /\ ssl.pending = 0 /\ Arrived("hs")
    /\ ssl' = [ssl EXCEPT !.todo = <<"write", "read">>]
    /\ wire' = [wire EXCEPT !.rx = Tail(@)]
    /\ UNCHANGED <<service, outside, loop, transport>>

\* What a send reads before the handshake record stays with the engine.
EngineKeeps ==
    /\ Doing("produce") /\ ssl.on /\ TodoIs("read") /\ Arrived("app")
    /\ ssl' = [ssl EXCEPT !.pending = @ + 1]
    /\ wire' = [wire EXCEPT !.rx = Tail(@)]
    /\ UNCHANGED <<service, outside, loop, transport>>
-----------------------------------------------------------------------------
(* The transport: abort, notification and writing.                         *)

\* _initiate_abort: a failure that comes after the user's abort is dropped, and
\* only an abort or a failure that is new queues its notification.
Abort(error) ==
    LET quiet == IF service.state = "active" THEN Unwatched(loop) ELSE loop
        again == IF error THEN service.state # "active" ELSE service.state = "aborted"
    IN /\ tx' = IF service.state = "active" THEN [tx EXCEPT !.buffers = <<>>] ELSE tx
       /\ service' = IF again THEN service
                     ELSE [service EXCEPT !.state = IF error THEN "failed" ELSE "aborted"]
       /\ loop' = IF again THEN quiet ELSE Queued(quiet, IF error THEN "failed" ELSE "lost")

\* The user aborts, also from data_received.
UserAbort ==
    /\ UserTurn /\ service.kind = "transport" /\ service.state # "completed" /\ Abort(FALSE)
    /\ UNCHANGED <<outside, actions, run, ssl, wire>>

\* _connection_lost_notify_async, with _close_and_finalize.
Notify ==
    /\ \/ Turn("lost") \/ Turn("failed")
    /\ loop' = Taken
    /\ IF service.state = "completed" \/ (Turn("failed") /\ service.state # "failed")
       THEN UNCHANGED <<service, reports, wire>>
       ELSE /\ service' = [service EXCEPT !.state = "completed"]
            /\ reports' = [reports EXCEPT !["transport"] = @ + 1]
            /\ wire' = [wire EXCEPT !.open = FALSE]
    /\ UNCHANGED <<canceled, thread, transport, ssl>>

\* write of one to two bytes: the first that is buffered registers the writer.
Write(bytes) ==
    /\ UserTurn /\ At("transport") /\ tx.written + bytes <= MaxWritten
    /\ tx' = [tx EXCEPT !.buffers = Append(@, [i \in 1..bytes |-> tx.written + i]),
                        !.count = @ + bytes, !.written = @ + bytes]
    /\ LET register == tx.count = 0 /\ (ssl.on => actions.write = None) IN
       /\ loop' = IF register THEN [loop EXCEPT !.writer = "transport"] ELSE loop
       /\ actions' = IF register /\ ssl.on THEN [actions EXCEPT !.write = "produce"]
                     ELSE actions
    /\ UNCHANGED <<service, outside, run, ssl, wire>>
-----------------------------------------------------------------------------
(* The socket's events, and the queued _on_socket_readable.                *)

Begins(action) == run' = IF action = None THEN run ELSE [run EXCEPT !.what = action]
OnSocketReadable ==
    IF ~At("transport") THEN UNCHANGED run
    ELSE Begins(IF ssl.on THEN actions.read ELSE "consume")

ReadableEvent ==
    /\ Idle /\ loop.reader = "transport" /\ wire.rx # <<>> /\ OnSocketReadable
    /\ UNCHANGED <<service, outside, loop, actions, tx, ssl, wire>>

ReadableQueued ==
    /\ Turn("readable") /\ loop' = Taken /\ OnSocketReadable
    /\ UNCHANGED <<service, outside, actions, tx, ssl, wire>>

WritableEvent ==
    /\ Idle /\ loop.writer = "transport" /\ At("transport")
    /\ Room \/ Broken
    /\ Begins(IF ssl.on THEN actions.write ELSE "produce")
    /\ UNCHANGED <<service, outside, loop, actions, tx, ssl, wire>>
-----------------------------------------------------------------------------
(* _consume.                                                               *)

\* recv returns data, from the engine's before the socket's, and data_received is
\* called.
Receives ==
    /\ Doing("consume") /\ At("transport") /\ run.n < MaxConsume
    /\ ssl.pending > 0 \/ Arrived("app")
    /\ run' = [run EXCEPT !.n = @ + 1, !.inData = TRUE]
    /\ IF ssl.pending > 0
       THEN ssl' = [ssl EXCEPT !.pending = @ - 1] /\ UNCHANGED wire
       ELSE wire' = [wire EXCEPT !.rx = Tail(@)] /\ UNCHANGED ssl
    /\ UNCHANGED <<service, outside, loop, actions, tx>>

DataReceived ==
    /\ run.inData /\ run' = [run EXCEPT !.inData = FALSE]
    /\ UNCHANGED <<service, outside, loop, actions, tx, ssl, wire>>

\* An exception of data_received, or the stream's end: eof_received of a connection
\* does not keep a plaintext stream open.
ConsumeFails ==
    /\ Doing("consume") \/ run.inData
    /\ \/ run.inData /\ Abort(TRUE)
       \/ /\ ~run.inData /\ At("transport") /\ run.n < MaxConsume /\ ssl.pending = 0
          /\ Arrived("eof") \/ Arrived("reset") \/ (TodoIs("write") /\ Broken)
          /\ Abort(ssl.on \/ Arrived("reset"))
    /\ run' = Ended /\ UNCHANGED <<outside, actions, ssl, wire>>

\* Plaintext: would block, or enough for one turn.
ConsumeEnds ==
    /\ Doing("consume")
    /\ \/ ~At("transport")
       \/ ~ssl.on /\ (run.n = MaxConsume \/ wire.rx = <<>>)
    /\ run' = Ended /\ UNCHANGED <<service, outside, loop, actions, tx, ssl, wire>>

\* TLS: what the engine wants decides which event consumes next.  Bytes that were
\* buffered meanwhile want their producer back.
Watches(l, a, arm) ==
    /\ loop' = IF arm THEN [l EXCEPT !.writer = "transport"] ELSE l
    /\ actions' = IF arm THEN [a EXCEPT !.write = "produce"] ELSE a

\* Mutant: bytes that were written meanwhile are left to the next write.
ConsumeOnReadableOnly(l) ==
    LET was == actions.write = "consume" IN
    Watches([l EXCEPT !.reader = IF actions.read = None THEN "transport" ELSE @,
                      !.writer = IF was THEN None ELSE @],
            [read |-> "consume", write |-> IF was THEN None ELSE actions.write], FALSE)

ConsumeOnReadable(l) ==
    LET was == actions.write = "consume" IN
    Watches([l EXCEPT !.reader = IF actions.read = None THEN "transport" ELSE @,
                      !.writer = IF was THEN None ELSE @],
            [read |-> "consume", write |-> IF was THEN None ELSE actions.write],
            tx.buffers # <<>> /\ (was \/ actions.write = None))

ConsumeOnWritable(l) ==
    Watches([l EXCEPT !.writer = IF actions.write = None THEN "transport" ELSE @,
                      !.reader = IF actions.read # None THEN None ELSE @],
            [read |-> None, write |-> "consume"], FALSE)

TlsConsumeEnds ==
    /\ Doing("consume") /\ At("transport") /\ ssl.on /\ run' = Ended
    /\ \/ run.n = MaxConsume /\ ConsumeOnReadable(Queued(loop, "readable"))
       \/ /\ run.n < MaxConsume /\ ssl.pending = 0
          /\ \/ TodoIs("write") /\ ~Room /\ ~Broken /\ ConsumeOnWritable(loop)
             \/ ~TodoIs("write") /\ wire.rx = <<>> /\ ConsumeOnReadable(loop)
    /\ UNCHANGED <<service, outside, tx, ssl, wire>>
-----------------------------------------------------------------------------
(* _produce.                                                               *)

CanSend == Doing("produce") /\ tx.buffers # <<>> /\ ssl.todo = <<>>

\* Mutant: the chunk is counted as sent, however little of it was.
SendsCountChunk ==
    /\ CanSend /\ Room
    /\ LET chunk == Head(tx.buffers)
           bytes == IF Len(chunk) < wire.room THEN Len(chunk) ELSE wire.room
           rest == SubSeq(chunk, bytes + 1, Len(chunk))
       IN /\ tx' = [tx EXCEPT !.sent = @ \o SubSeq(chunk, 1, bytes),
                 !.count = @ - Len(chunk),
                 !.buffers = IF rest = <<>> THEN Tail(@) ELSE <<rest>> \o Tail(@)]
          /\ wire' = [wire EXCEPT !.room = @ - bytes]
    /\ UNCHANGED <<service, outside, loop, actions, run, ssl>>

\* Mutant: the rest of a chunk goes to the end of the queue.
SendsBehind ==
    /\ CanSend /\ Room
    /\ LET chunk == Head(tx.buffers)
           bytes == IF Len(chunk) < wire.room THEN Len(chunk) ELSE wire.room
           rest == SubSeq(chunk, bytes + 1, Len(chunk))
       IN /\ tx' = [tx EXCEPT !.sent = @ \o SubSeq(chunk, 1, bytes), !.count = @ - bytes,
                 !.buffers = IF rest = <<>> THEN Tail(@) ELSE Append(Tail(@), rest)]
          /\ wire' = [wire EXCEPT !.room = @ - bytes]
    /\ UNCHANGED <<service, outside, loop, actions, run, ssl>>

\* send takes as much of the first chunk as there is room for.
Sends ==
    /\ CanSend /\ Room
    /\ LET chunk == Head(tx.buffers)
           bytes == IF Len(chunk) < wire.room THEN Len(chunk) ELSE wire.room
           rest == SubSeq(chunk, bytes + 1, Len(chunk))
       IN /\ tx' = [tx EXCEPT !.sent = @ \o SubSeq(chunk, 1, bytes), !.count = @ - bytes,
                 !.buffers = IF rest = <<>> THEN Tail(@) ELSE <<rest>> \o Tail(@)]
          /\ wire' = [wire EXCEPT !.room = @ - bytes]
    /\ UNCHANGED <<service, outside, loop, actions, run, ssl>>

ProduceFails ==
    /\ Doing("produce") /\ tx.buffers # <<>> /\ Abort(TRUE)
    /\ Broken \/ (TodoIs("read") /\ Arrived("eof"))
    /\ run' = Ended /\ UNCHANGED <<outside, actions, ssl, wire>>

\* Plaintext: all is sent, or the send would block.
ProduceEnds ==
    /\ Doing("produce") /\ ~ssl.on /\ run' = Ended
    /\ \/ tx.buffers = <<>> /\ loop' = [loop EXCEPT !.writer = None]
       \/ CanSend /\ ~Room /\ ~Broken /\ UNCHANGED loop
    /\ UNCHANGED <<service, outside, actions, tx, ssl, wire>>

\* TLS: as in _consume; afterwards a consumer that lost its event gets it back, and
\* data that the engine holds already is consumed without one.
ProduceOn(l, a) ==
    IF a.read = None
    THEN /\ loop' = Queued([l EXCEPT !.reader = "transport"], "readable")
         /\ actions' = [a EXCEPT !.read = "consume"]
    ELSE /\ loop' = IF ssl.pending > 0 THEN Queued(l, "readable") ELSE l
         /\ actions' = a

ProduceOnWritable ==
    LET was == actions.read = "produce" IN
    ProduceOn([loop EXCEPT !.writer = IF actions.write = None THEN "transport" ELSE @,
                           !.reader = IF was THEN None ELSE @],
              [write |-> "produce", read |-> IF was THEN None ELSE actions.read])

ProduceOnReadable ==
    ProduceOn([loop EXCEPT !.reader = IF actions.read = None THEN "transport" ELSE @,
                           !.writer = IF actions.write # None THEN None ELSE @],
              [write |-> None, read |-> "produce"])

ProducedAll ==
    IF actions.read = "produce"
    THEN ProduceOn([loop EXCEPT !.reader = None], [actions EXCEPT !.read = None])
    ELSE ProduceOn([loop EXCEPT !.writer = None], [actions EXCEPT !.write = None])

TlsProduceEnds ==
    /\ Doing("produce") /\ ssl.on /\ run' = Ended
    /\ \/ tx.buffers = <<>> /\ ProducedAll
       \/ /\ tx.buffers # <<>> /\ ~Broken
          /\ \/ ~TodoIs("read") /\ ~Room /\ ProduceOnWritable
             \/ TodoIs("read") /\ wire.rx = <<>> /\ ProduceOnReadable
    /\ UNCHANGED <<service, outside, tx, ssl, wire>>
-----------------------------------------------------------------------------
(* The peer and the network.                                               *)

Connected == wire.connect = "ok" /\ wire.open /\ ~Broken
Ending == Contains(wire.rx, "eof")
PeerReads ==
    /\ Connected /\ wire.room < MaxRoom /\ wire' = [wire EXCEPT !.room = MaxRoom]
    /\ UNCHANGED <<service, outside, loop, transport, ssl>>

PeerAnswers ==
    /\ Connected /\ ~Ending /\ wire.owed > 0
    /\ wire' = [wire EXCEPT !.owed = @ - 1, !.rx = Append(@, "hs")]
    /\ UNCHANGED <<service, outside, loop, transport, ssl>>

\* The peer sends data or asks for a new handshake, ends its stream or breaks it.
PeerSends ==
    /\ Connected /\ ~Ending /\ wire.records < MaxRecords
    /\ \E record \in {"app", "hs", "eof", "reset"} :
          /\ record \in {"app", "hs"} => service.kind = "transport"
          /\ record = "hs" => ssl.on
          /\ wire' = [wire EXCEPT !.records = @ + 1, !.rx = Append(@, record)]
    /\ UNCHANGED <<service, outside, loop, transport, ssl>>
-----------------------------------------------------------------------------
Thread == ThreadStarts \/ Resolve \/ ThreadDelivers
Connectors ==
    \/ DispatchResult \/ SocketStartAsync \/ SocketWritable \/ StreamStartAsync
    \/ HandshakeEvent \/ HandshakeWants \/ HandshakeDone
Engine == EngineWrites \/ EngineReads \/ EngineAsked \/ EngineKeeps
Transport ==
    \/ Notify \/ ReadableEvent \/ ReadableQueued \/ WritableEvent
    \/ Receives \/ DataReceived \/ ConsumeFails \/ ConsumeEnds \/ TlsConsumeEnds
    \/ Sends \/ ProduceFails \/ ProduceEnds \/ TlsProduceEnds
Loop == Connectors \/ Engine \/ Transport
User ==
    \/ StartSocket \/ StartStream \/ Cancel \/ UserAbort
    \/ \E bytes \in 1..2 : Write(bytes)

Next == Thread \/ Loop \/ User \/ Connects \/ PeerReads \/ PeerAnswers \/ PeerSends
Spec == Init /\ [][Next]_vars

\* The threads and the loop run; getaddrinfo and connect end; the peer reads what is
\* sent and answers the handshakes.
FairSpec ==
    /\ Spec /\ WF_vars(Thread) /\ WF_vars(Loop) /\ WF_vars(Connects)
    /\ WF_vars(PeerReads) /\ WF_vars(PeerAnswers)
-----------------------------------------------------------------------------
(* Properties.                                                             *)

\* The user is told the end of a service once, by on_done or connection_lost, and
\* never of one whose cancel() returned True, whatever the thread, the queued
\* callbacks and the socket's events still bring; and a service that is over has
\* nothing registered for a socket that it closed.
OneOutcomeEach ==
    /\ \A k \in Kinds : reports[k] <= IF k \in canceled THEN 0 ELSE 1
    /\ service.state = "completed" => reports[service.kind] = 1
    /\ (~wire.open \/ service.state # "active") => loop.reader = None /\ loop.writer = None

\* A chunk holds the bytes that were written after those of the chunk before it, or
\* after those that were sent; the last chunk ends with what was written last.
Before(k) == IF k = 1 THEN Len(tx.sent) ELSE Last(tx.buffers[k - 1])
InOrder ==
    /\ \A i \in DOMAIN tx.sent : tx.sent[i] = i
    /\ \A k \in DOMAIN tx.buffers :
           /\ tx.buffers[k] # <<>>
           /\ \A i \in DOMAIN tx.buffers[k] : tx.buffers[k][i] = Before(k) + i
    /\ tx.written = Before(Len(tx.buffers) + 1)

\* Between callbacks of an active transport the registered events are those its
\* actions need, the bytes to send are counted and have an event that will send
\* them, their order is the order of the writes, decrypted data that no event
\* announces has a callback queued, and the assertions of the writers hold.
WatchesAndBuffersAgree ==
    At("transport") =>
        /\ InOrder /\ tx.count = tx.written - Len(tx.sent)
        /\ (run.what = "produce" /\ ssl.on /\ tx.buffers = <<>>) =>
               (actions.read = "produce") # (actions.write = "produce")
        /\ Idle /\ ~ssl.on =>
               loop.reader = "transport" /\ (loop.writer # None <=> tx.buffers # <<>>)
        /\ Idle /\ ssl.on =>
               /\ (loop.reader # None <=> actions.read # None)
               /\ (loop.writer # None <=> actions.write # None)
               /\ tx.buffers # <<>> => {actions.read, actions.write} # {"consume", None}
                                           \/ actions.write = "consume"
               /\ "consume" \in {actions.read, actions.write} \/ actions.read = "produce"
               /\ ssl.pending > 0 => Contains(loop.queue, "readable")

\* A service that was started ends unless it is canceled, bytes that were written
\* are sent and data that arrived is consumed unless the transport ends, in every
\* order in which TLS wants to read in order to write and to write in order to read;
\* and an abort is followed by connection_lost.
StreamProgresses ==
    /\ \A k \in Kinds \ {"transport"} :
           At(k) ~> (service.kind # k \/ service.state # "active")
    /\ (At("transport") /\ tx.buffers # <<>>) ~> (tx.buffers = <<>>)
    /\ (At("transport") /\ wire.rx # <<>>) ~> (wire.rx = <<>> \/ ~At("transport"))
    /\ (service.state \in {"aborted", "failed"}) ~> (service.state = "completed")
=============================================================================
