# Formal models of rmq-gc-lag's slow-ack consumer and the pika it runs on

The repository reproduces a RabbitMQ problem by keeping messages
unacknowledged for a long time.  Its program is `slow_ack_consumer.py`, which
runs on the pika 1.3.2 vendored in `lib/python/pika`; all the concurrency of
the program is in how those two work together.  This directory models them in
TLA+, checks the models with TLC and proves most of the safety properties with
TLAPS.

## 1. The system

| Part | State | Operations | Interacts with |
|---|---|---|---|
| Slow-ack consumer (`slow_ack_consumer.py`) | `held_count`, one daemon thread per held message | `on_message`, `worker`, `ack_message`, interrupt and closing in `main` | calls BlockingChannel; its threads call `add_callback_threadsafe` |
| BlockingConnection, BlockingChannel (`blocking_connection.py`) | `_pending_events`, `_ready_events`, `_channels_pending_dispatch`, `_consumer_infos`, the generator, a `_CallbackResult` for each kind of reply | `_flush_output`, `process_data_events`, `_dispatch_events`, the methods that wait for a reply, `basic_consume`, `consume`, `cancel`, `basic_get`, `basic_publish`, timers, `close` | polls the I/O loop inside every call; gets callbacks of Channel and Connection |
| Channel (`channel.py`), callback manager (`callback.py`) | `_state`, `_blocking`, `_blocked`, `_consumers`, `_cancelled` | `_rpc`, `basic_consume`, `basic_cancel`, `close`, one handler per frame | frames of the broker through Connection |
| Connection (`connection.py`) | `connection_state`, channels, frame buffer | opening handshake, `close`, termination of the stream | transport, Channel, Heartbeat |
| Connection workflow (`connection_workflow.py`, `base_connection.py`) | state of the workflow and of its connector, timers, errors | DNS, TCP, transport and AMQP phases, retries, `abort` | I/O services, Connection, `on_done` of the application |
| I/O loop and timers (`select_connection.py`) | `_callbacks`, `_timeout_heap`, `_num_cancellations`, interrupt socket | `poll`, `process_timeouts`, `call_later`, `remove_timeout`, `add_callback_threadsafe` | called by any thread |
| Poller and selector adapter (`select_connection.py`, `selector_ioloop_adapter.py`) | `_fd_handlers`, `_fd_events`, `_watchers`, the kernel's polling object | `set_reader` ... `remove_writer`, `poll`, `_dispatch_fd_events` | callbacks of transports and connectors |
| Socket connector, stream transports (`io_services_utils.py`) | `_tx_buffers`, state of the transport | connect, TLS handshake, consume, produce, abort | poller, Connection |
| Heartbeat (`heartbeat.py`) | byte counts, idle intervals, two timers | check, send, stop | timers, Connection |
| Content assembly and frames (`channel.py`, `frame.py`) | the partial content | decode, assemble | Connection to Channel |
| Broker (external) | queue, unacknowledged deliveries, consumers | deliver, settle, cancel, close | the TCP stream |

The main thread is the only one that runs pika, except for
`add_callback_threadsafe`.  It is re-entrant: every `basic_ack` polls until its
frame is written, and the poll reads frames, runs timers and queues events
while outer loops are half way through theirs.

What is hard, and what makes each part correct:

* **Consumer.** The limit is tested in one critical section and the counter
  incremented in another; each held message is on its way to one ack through a
  thread, the loop's callbacks, the ready events, the output buffer and the
  wire, while the broker may cancel, time the channel out or vanish, and the
  user may interrupt.  The limit holds, no delivery is lost or settled twice,
  a hold ends in a settlement, and the program ends.
* **BlockingChannel.** The events it works through are older than the state it
  works on; callbacks call methods that poll for more, and the objects the replies
  are put into are used again by every call.  Each event finds its channel open and
  its consumer known, each call gets its own reply and leaves nothing behind, also
  when it raises, and no delivery is lost between the wire and the application.
* **Channel.** Requests queue behind a synchronous one, both ends cancel and
  close at any time, tags are used again.  One request is in flight, both ends
  agree once nothing is on the wire, and a close completes.
* **Connection and transport.** The end can come from the broker, the socket, two
  timers, `close` or an exception, several of them before the queued notification
  runs, and with channels half closed.  The application hears of it once with a
  reason, a channel number passes on no frame, and `close` ends.
* **Connectors and transports.** A thread's result, a queued start or report and the
  socket's events race with `cancel` and `abort`; TLS reads in order to write and
  writes in order to read.  Each service ends once, bytes leave in order, and
  whatever is buffered has an event that will empty it.
* **Frames, contents, callbacks, heartbeat.** The stream is cut anywhere, contents of
  several channels interleave, callbacks add and remove callbacks while they are
  called, and the checker compares counts a window apart.
* **Connection workflow.** Timers, tasks, handshakes and `abort` race.  One
  report is made, every address has its attempts, and no connection leaks.
* **I/O loop.** A callback queued while the loop decides to wait must wake it;
  a removed timeout never runs; no live one is forgotten.
* **Poller.** Handlers remove and register descriptors, and poll again, in the
  middle of a dispatch.  An event reaches only the registration it is for.

`PROJECT.json` lists each hazard at its line with the properties that watch it.

## 2. The modules

| Module | Models | One action is |
|---|---|---|
| `SlowAckConsumer` | the consumer with the BlockingConnection, Channel and Connection operations it drives, composed with its threads, the stream and the broker | a step of a thread, or of the main thread between two points where another thread, or a frame, can come in |
| `HoldLedger` | what the consumer promises about holds and acks (abstract) | one change of the ledger |
| `SlowAckConsumerProofs` | theorems about `SlowAckConsumer`: types, the limit, the control flow, its deliveries, the counter and the ledger | |
| `IOLoop` | `IOLoop` and `_Timer`; one loop thread, other threads that queue callbacks | a step of the loop, or one call from the running callback or another thread |
| `IOLoopProofs` | theorems about `IOLoop` | |
| `Poller` | `_PollerBase` with `PollPoller`/`EPollPoller`, under `SelectorIOServicesAdapter` | one call, one handler, or one callback |
| `PollerProofs` | theorems about `Poller` | |
| `ConnectionWorkflow` | `AMQPConnectionWorkflow` with `AMQPConnector`, as `BaseConnection` uses them | one callback of the loop with everything it calls |
| `ConnectionWorkflowProofs` | theorems about `ConnectionWorkflow` | |
| `PikaConnection` | `Connection` on an established stream: handshakes, channel numbers, timers, with the abort and notification of the transport, the life of each channel, and a broker | one frame, one timer, one callback of the loop or one call of the application |
| `PikaConnectionProofs` | theorems about the end of a `PikaConnection` and the frames of its channels | |
| `PikaChannel` | `Channel` with the callbacks it registers, and a broker | one call of the application or one frame |
| `PikaChannelProofs` | theorems about `PikaChannel` | |
| `BlockingCalls` | the calls of `BlockingChannel` and `BlockingConnection` from the application and from callbacks, the generator, the dispatch of events, and a broker | one call up to its flush, one thing a poll handles, one frame, one event dispatched |
| `BlockingCallsProofs` | theorems about `BlockingCalls` | |
| `StreamServices` | `_AddressResolver` with its thread, `_AsyncSocketConnector`, `_AsyncStreamConnector`, `_AsyncPlaintextTransport` and `_AsyncSSLTransport`, one after the other | a step of the thread, a callback of the loop, or one `recv` or `send` of a callback |
| `StreamServicesProofs` | theorems about `StreamServices` | |
| `CallbackManager` | `CallbackManager` as operators on its stack | |
| `InboundStream` | `_on_data_available` with `decode_frame`, `ContentFrameAssembler`, the callback manager and `HeartbeatChecker` | one frame, one callback, one timer, a read or a tick |
| `MC*` | the instances for TLC: symmetry sets and sequences a `.cfg` cannot write | |

`SlowAckConsumer` keeps the names of the code where it can.  The main thread's
`pc` names where it is: `loop` (`start_consuming`), `io` (`process_data_events`
polling), `connevents` (`_dispatch_connection_events`), `chanevents`
(`_dispatch_channel_events`), `events` (`_dispatch_events`), `onmessage`,
`increment` and `start` (the three parts of `on_message`), `flush` (the flush of
a `basic_ack`, with `ret` for where it returns), then `stop`, `reject`,
`waitcancel` (`stop_consuming`) and `close`, `waitchanclose`, `waitconnclose`
(`connection.close`).  At the `pc`s of `PollPcs` the thread is inside
`_flush_output`, and reading a frame (`IoRead`), writing the buffer (`IoWrite`)
and running the loop's callbacks (`IoCallbacks`) are actions of their own, in
any order, because `poll` returns with whichever descriptors are ready.  A
worker thread is `unstarted`, `sleeping`, `scheduling`, `counting` and `done`,
or `crashed` when `add_callback_threadsafe` found the connection closed: its
exception ends the thread before the decrement, so that its hold stays counted.

Definitions whose comment begins with "Mutant:" are not part of any
specification: each is a plausible bug in the definition that follows it, and
substituting it breaks the property that `PROJECT.json` names under `mutants`.

### Abstractions

* A message stands for its payload and its delivery tag.  With `Recycle`, a
  settled message's identity is published again as a new message, so that a
  small set makes an unbounded run.
* The broker is not in the repository.  It delivers up to the prefetch,
  requeues when a channel or connection ends, answers in order, takes a settle
  it does not know for a channel error, and may cancel, time out or disappear
  at any moment.
* `KeyboardInterrupt` comes anywhere inside the `try` of `main`, between two
  actions and once: a second one during the cleanup ends the process anyway.
* Durations are reduced to order: `time.sleep` ends some time.  `IOLoop` has a
  clock, with every deadline within its bound.
* `BlockingCalls` has one connection with one channel.  A call appends its frame and
  its flush then polls until it is done: what a poll handles (a timer, the limit of
  `process_data_events`, a write, a frame) is an action, and `EndRound` ends the
  poll.  The broker reads a frame when it is written.  `app.call` is the innermost
  call; `app.dispatcher` the `process_data_events` whose dispatch is under way, out
  of which callbacks call.  Methods that share a reply are told apart by the number
  of their call.  The interrupt, threads and the closing by the application are
  `SlowAckConsumer`'s.
* `StreamServices` makes the services of one connection in a row.  The TLS engine is
  external: `ssl.todo` is what a handshake, the first one or one in between, still
  has to write and read, and `ssl.pending` the records it has decrypted.  Bytes are
  numbered as they are written, so that their order can be told.
* `InboundStream` cuts the stream into symbols: two for a header, one for each unit of
  payload and the end marker.  The peer's frames obey the protocol.  What a content
  or a reply makes the channel do is left to the other modules.  One tick is half
  the heartbeat timeout; timers run in the tick they are due in, for no callback
  blocks the loop.  Each instance of `Workloads` sends other frames: contents that
  interleave, replies with callbacks that change each other, and heartbeats with
  contents under the clock.
* In `PikaChannel` the user's callbacks do nothing, and each callback given to
  `basic_cancel` is a function of its own (the callback manager counts equal
  ones together).
* `Poller` leaves out the hang-up bit, which no mask clears: a hang-up alone
  calls a handler that then calls neither reader nor writer.
* `PikaConnection` begins when the transport is made.  A read brings any number of
  the frames that have arrived, which are processed in a row whatever becomes of
  the connection in between, as `_on_data_available` does; the application calls
  between reads or from a callback.  While the close callback of a channel runs
  (`CLOSED`) its number is taken, until `_on_channel_cleanup`.  What a channel
  does besides opening and closing is `PikaChannel`'s.  `DataRaises` stands for
  any exception of a callback or of the decoder.  The heartbeat check may find the
  connection idle at any time.  `channel()` is called without an explicit number:
  one that is in use would replace its channel.  The broker acts while the
  transport is active, for nobody reads afterwards.
* `ConnectionWorkflow` notes an exception that leaves a callback in `raised`
  and goes on from what was assigned before it.

## 3. What TLC checks

| Run | Bounds | States | What it shows |
|---|---|---|---|
| `slow_ack_safety` | 3 messages, 2 holds, prefetch 3, recycled | 701 000 | `HeldWithinLimit`, `HeldCountAccurate`, `DeliveriesAccounted`, `EventsFindTarget`, `ImplementsLedger` |
| `slow_ack_liveness` | 2 messages, 1 hold, prefetch 2, recycled | 188 000 | `HoldEndsInSettlement`, `ProgramEnds` |
| `slow_ack_in_flight` | 2 messages, 1 hold | violated | `HeldInFlightWithinLimit` |
| `ioloop` | 3 timeouts, 1 callback, clock 0..1, 1 exception | 362 000 | `NoLostWakeup`, `TimeoutsAccounted`, `RemovedNeverRuns`, `EveryCallHasItsTurn` |
| `poller_safety` | 2 descriptors, 3 watchers, 2 polls, nesting 2 | 1 427 000 | `ViewsAgree`, `EventsOfOwnRegistration` |
| `workflow_safety` | hosts with 2, 1 and 2 addresses, 2 cycles, 2 aborts | 9 800 | `OutcomeReported`, `AbandonedConnectionCloses`, `WorkflowEnds` |
| `workflow_abort` | 1 address, 1 abort | violated | `AbortLeavesNoConnection` |
| `channel_safety` | 2 tags, 4 calls, 1 delivery | 435 000 | `RpcInFlight`, `ConsumersAgree`, `CloseCompletes` |
| `connection_safety` | 2 numbers, 2 channels opened, 1 content, blocked once | 805 000 | `EndsOnce`, `FramesInPlace`, `CloseEnds` |
| `blocking_calls` | 3 calls, 1 delivery, 1 notice of the broker, 1 tag with a callback, 1 with a generator, 1 timer | 1 096 000 | `CallsCleanUp`, `EventsAccounted`, `CallsEnd` |
| `stream_services` | 3 bytes, 4 records of the peer, 2 records in one turn, room for 1 byte | 230 000 | `OneOutcomeEach`, `WatchesAndBuffersAgree`, `StreamProgresses` |
| `inbound_stream` | 2 channels; 6 frames of contents; 2 replies with 3 callbacks added; 3 frames over 7 ticks | 351 000 | `ContentsInOrder`, `UsesCounted`, `IdleIsIdle` |

Each module's `TypeOK` is checked with its safety run.

**Why the bounds are enough.**  The consumer's three messages and two holds make
the cases that differ: a delivery below the limit, one at the limit, two threads
that decrement in between, an event waiting behind another, the prefetch full.
Prefetch is above `MaxHeld`, as 1100 is above 1000.  Two timeouts of one batch
are enough for one to cancel the other, a third stays on the heap and makes the
collection's threshold matter.  Two descriptors and three watcher objects make
a handler remove another's registration and use its number again, during a
nested poll.  Three hosts with several addresses and two cycles tell the three
nested counts of the workflow apart.  Two tags and four calls make a request
with and one without reply wait behind another, both cancellations cross and a
tag consumed again.  Two numbers and two channels make `close` find one channel
in each of two states, and a number used again after both ends closed it; the
safety properties were also checked once with a third channel (5.9 million
states).  Three calls make a consumer, a call in its callback and one after either;
one consumer of each kind is enough for their events to mix, and one notice lets the
broker's cancellation or a blocked notice cross any call.  Room for one byte makes
every send of two a partial one, and four records bring data, a renegotiation, data
behind it and an end.  Six frames are two contents with bodies that interleave frame
by frame, seven ticks two check intervals and more.

**Deadlock** is checked except for the workflow, which ends, and the channel and
the connection, which end closed; the calls, the services and the stream, whose
application and peer need do nothing more.  The consumer's end is the explicit stuttering step
`Terminated`, so that every other stop would be reported.

**Fairness.**  The main thread runs whenever it can.  Reading, writing and
callbacks are each weakly fair because `poll` reports every ready descriptor
and each turn ends in `process_timeouts`.  Each worker's `sleep` ends and its
thread is scheduled.  The broker reads and delivers.  Publications, failures
and interrupts are never forced.  In `IOLoop` the owner keeps calling the loop
(`_flush_output` does), callbacks return, a wait ends once its interrupt or
timeout is there.  In the workflow the timers and the resolver thread end and a
stream being terminated says so; the broker need never answer, which is what
the timeouts are for.  In the channel both ends keep reading.  In the connection
the loop goes on reading, running queued callbacks and returning from the
channels' callbacks, and the broker keeps reading; if that closes or vanishes
instead, the end of the stream is noticed.  In the calls one condition on the whole
program is enough, `WF_vars(System)`: while the library can run, buffered frames can be
written, frames that arrived read, a timer or a limit come, or a callback end, by an
exception perhaps, one of these happens, in whatever order; the broker answers what it
reads but delivers, cancels or closes only if it wants to.  In the services the thread and the loop run,
`getaddrinfo` and `connect` end, and the peer reads and answers handshakes.

`HoldEndsInSettlement` is not obvious: `_dispatch_events` loops while there are
pending events and each immediate ack polls for more, so that ready acks wait
behind it.  The loop ends because an ack that waits keeps its delivery
unacknowledged and the prefetch bounds those; without `BrokerReads` being fair,
or without the prefetch, it need not.

**Refinement.**  `ImplementsLedger` maps the threads that are counted to the
ledger's `held`, those past their sleep to `ripe`, and the callbacks, ready
events and acks on the wire to `due`.  It says that the broker never records an
ack that was neither held for its whole delay nor bounced at a full house,
whatever fails.  A message that is recycled leaves the ledger with `Forget`, and
may do so only when no hold and no ack of it are left in the program.

## 4. Disagreements found

Two runs show where the code departs from what its documentation says; the
findings in `PROJECT.json` quote the lines.

1. *Messages in flight* (`slow_ack_in_flight`).  README.md says up to 1000
   messages are held in flight simultaneously.  A thread gives its hold back
   when its ack is queued, not when it is sent, so more can be unacknowledged.
2. *abort() during the AMQP handshake* (`workflow_abort`).  `_deactivate` asserts
   that there is no connection before `abort` looks whether there is one, so that
   the connection is not closed, and may open and be dropped.

Seen while modelling and visible in the modules, without a property of its own:

* A timeout callback that raises loses the rest of its batch (`IOLoop!Raise`, the
  variable `lost`); `TimeoutsAccounted` and `EveryCallHasItsTurn` except those.
* `_num_cancellations` is documented as the number of canceled timeouts on the heap
  (`select_connection.py:221`).  One that removes itself from its own callback is
  counted although it left the heap.  The count is never too low
  (`TimeoutsAccounted`), so collection is early, not late.
* The callbacks given to `Channel.basic_cancel` are registered for any
  `Basic.CancelOk` of the channel, not for the one of their tag (`channel.py:253`),
  so that with two cancellations outstanding the second is called for the first.
* `Channel.flow` keeps one callback for `Channel.FlowOk`, which a second call that is
  queued behind the first replaces (`channel.py:724`).
* `consume()` without a time limit that is called from a callback never returns: its
  `process_data_events` is not granted the dispatch and has no waiter then
  (`BlockingCalls!WaiterReady`).
* An exception that leaves a callback leaves the pending events behind it without a
  request for their dispatch until the next event makes one
  (`BlockingCalls!CallbackRaises`, the exception in `EventsAccounted`).
* The heartbeat's documentation counts any activity of the connection
  (`heartbeat.py:19-36`); `bytes_received` counts complete frames only
  (`connection.py:2320`), so that a frame that takes longer than the check interval
  to arrive ends its connection (`InboundStream!CheckHeartbeat`).
* `CallbackManager.process` removes or counts every one-shot callback before it calls
  the first: those behind one that raises are lost (`InboundStream!CallRaises`).
* `CallbackManager.remove` of a callback with arguments also removes the same
  callback that was added without any (`CallbackManager!RemoveEntry`).
* When `connection_made` raises, `_linkup` closes a socket whose reader stays
  registered (`io_services_utils.py:601-616`).
* A timer that fires between the abort and its notification replaces the reason of
  the end that the application is told (`PikaConnection!TerminateStream`).
* A worker whose `add_callback_threadsafe` raises, or that cannot start, never
  gives its hold back.  The connection is closed or closing then.
* In the `finally` of `main`, `connection.close()` on a connection that is closed
  already raises `ConnectionWrongStateError`, which replaces the original error.
* A host that does not resolve ends the whole cycle of the workflow, with later
  configurations untried (`Unresolved`); the class says so,
  `create_connection`'s documentation promises each configuration.
* A second `abort()` queues a second completion, which calls `None` (`Completion`).
* After `close()` during the handshake the workflow reports the class
  `AMQPConnectionWorkflowAborted` instead of an instance of it
  (`connection_workflow.py:856`), and `BaseConnection` fails its assertion
  (`Report`, `"abortedClass"`).
* A stack timeout after an `abort()` that raised fails an assertion too, and the
  workflow may go on to the next address (`StackTimeout`).
* `basic_get` of `Channel` does not test whether the channel is open.
* A tag canceled with `nowait` never leaves `_cancelled`, so that it cannot be
  consumed again on that channel (`BasicCancel`).
* `slow_ack_consumer.py`'s docstring says "more than 1000"; the test is `>=`.

## 5. What is proved

TLAPS checks the theorems below for every value of the constants that the named
assumptions of the modules allow.  Each safety theorem has the same shape: an
inductive invariant that the initial states satisfy, that every action keeps (one
step of the proof per action), and that implies the property.  `PROJECT.json`
lists the theorems with the properties they state.

**The consumer, its limit** (`SlowAckConsumerProofs`).

* `TypeCorrect`: `TypeOK` is inductive as it stands.
* `HeldLimit`: the limit is not inductive: from `heldCount = MaxHeld` and
  `pc = "increment"` the increment breaks it.  `HoldInv` adds that at `increment`
  the counter is below the limit.  `OnMessage` establishes it when its test fails;
  afterwards only the main thread increments, and it is at `increment`, and
  threads only decrement.  So the two critical sections of `on_message` need not
  be one.
* `EventsMeetTarget` (`EventsFindTarget`): that an event finds its channel and its
  consumer depends on what the broker may still send.  `ControlInv` says which
  frames of the three handshakes (cancellation, channel, connection) can be on the
  wire in each state and in which order (`FrameOrder`), at which `pc`s the program
  is still running (`Running`), what each waiting `pc` waits for (`Waiting`), and
  which states of connection, channel and consumer occur together (`Control`).

**The consumer, its deliveries** (`SlowAckConsumerProofs`).

* `NoDeliveryLost` (`DeliveriesAccounted`), `CountIsExact` (`HeldCountAccurate`)
  and `LedgerImplemented` (`ImplementsLedger`, with a step of the ledger or none for
  each step of the program) rest on `DeliveryInv`: a message is with the publisher,
  ready, delivered or acknowledged (`Disjoint`); its delivery is in at most one place
  (wire, pending events, the callback in progress, a thread, the loop's callbacks,
  ready events, output buffer, wire back), and in none before it is sent and after it
  is settled (`Placement`); a recycled message has no thread of its former life
  (`Fresh`); and while the program consumes, a delivery the broker waits for is in
  exactly one place (`InOnePlace`).  Counting occurrences in a
  sequence that grows, loses its head, or is emptied is a set of lemmas of its own.

**The loop** (`IOLoopProofs`).  `LoopInv` adds to the properties which
variables each phase of the loop has in use (`Phases`) and that a timeout is in at
most one of the heap, the batch and the running callback (`Visits`).  Proved:
`NoWakeupLost`, `NoTimeoutLost` (`TimeoutsAccounted`), and the action property
`RemovalIsFinal` (`RemovedNeverRuns`).

**The poller** (`PollerProofs`).  `PollerInv` says of the stack of nested
dispatches that what is left of the innermost one is for registrations that exist
(`Current`), that the ones around it have nothing left, because a nested poll works
on the same map (`Nested`), and that the watcher of a handler call is the
one that was registered when the poll returned (`Owned`).  Proved: `ViewsAlwaysAgree`, and the action property
`EventsAreOwn` (`EventsOfOwnRegistration`) at any depth of nesting.

**The workflow** (`ConnectionWorkflowProofs`).  `WorkflowInv` ties the task
that is queued or under way to the state of the workflow and of its connector
(`ConnectorShape`, `OneThing`), the outcome to what was reported (`Reported`), the
three nested counts to the attempts made so far (`Position`), and says that a
connection has one handshake (`OneHandshake`) and what holds as long as `abort` was
not called (`NotAborted`).  Proved: `OutcomeIsReported`, `AbandonedCloses`.

**The services** (`StreamServicesProofs`).  `ServicesInv` has a part for
each service: what its outcome leaves registered and queued (`Outcomes`,
`RunsService`, `ConnectorEvents`), and for the transport that the bytes sent, those
buffered and those not yet written are the numbers in order, and which events are
registered when it waits for the socket or, over TLS, for the engine
(`TransportInv`).  Proved: `OneOutcomeOfEach`, `WatchesAndBuffersAlwaysAgree`.

**The connection** (`PikaConnectionProofs`).

* `ConnectionEndsOnce` (`EndsOnce`): `ConnectionInv` says that one step of the
  opening handshake is on its way (`OneOpening`), what is queued for the loop in
  each state of the transport (`TransportShape`), that the reason is known before
  the end (`ReasonKnown`), which timers and channels each state allows (`Life`),
  and what the application was told (`Told`); that no assertion failed is one of its
  conjuncts.  `CloseIsLast` is the part of `FramesInPlace` about `Connection.Close`.
* `FramesStayInPlace` (`FramesInPlace`): that the first frame of a read is not for
  the next user of its number is about every frame behind it, in both directions.
  `FramesInv` gives each channel number a `ClientSide` (the frames that were read or
  are on their way to the client are of the channel's present life, in the order of
  one life, and fit the client's state) and a `BrokerSide` (the same for the frames
  on their way to the broker, which may also hold the `CloseOk` of one life before
  the `Open` of the next, and the broker's view).  The sides hold while somebody
  reads: the client's while the transport is active or a read is under way, the
  broker's while the transport is active and it serves the connection.  `OpenOnFree`
  is kept beyond that, for the frames of a dead stream stay where they are.
  The lemmas say what a channel sees of a stream that loses its head or gains a
  frame, so that each action is reasoned about for one channel, and the others see
  the same (`Kept`).

**The channel** (`PikaChannelProofs`).  `ChannelInv` has two parts besides the types.

* `OneRpcInFlight` (`RpcInFlight`): `OneAsked` says that the request in `_blocking`
  is the only one that awaits a reply among the frames on their way to the broker,
  that no reply but its own is on the way back, not both at once, and that one of
  them is there as long as the broker answers.  What `_blocked` holds is sent up to
  the next request that awaits a reply, so that the lemmas are about the first such
  entry, and about the row of `close()`, in which only the last one does.
* `ConsumersAlwaysAgree` (`ConsumersAgree`): `Lanes` gives each tag a lane, which is what
  of the tag is blocked or on the wire to the broker (`Out`) and on the wire to the client.
  `InOrder` says in which order the frames of a lane come and that all deliveries are of
  the tag's present life; `ClientSide` and `BrokerSide` fit the lane to what
  each end thinks of the consumer, also when both ends cancel at the same time and the
  tag is consumed again.  An action changes one lane; the others see the same stream
  (`Alike`).

**The calls** (`BlockingCallsProofs`).  `CallsInv` is one invariant, for its parts need
each other.

* `CallAndDispatch` says how calls nest: a dispatch belongs to one `process_data_events`
  that is past its own flush, a callback runs under it, and a call under way besides
  is the callback's, so that a second `process_data_events` is never granted the
  dispatch and `depth` counts both.  `AtTheEnd` says that a closed channel knows no
  consumer and hears nothing more.
* `CallsAlwaysCleanUp` (`CallsCleanUp`): all calls share one `_CallbackResult` for each
  kind of reply, so that a result that stays is taken for the next call's.  `OneReply`
  says that the call's method on its way out, its reply on the way in and its result
  exclude each other, and that no other call's is anywhere; `Returning` and `Getting`
  add the message that a publish gets back before its confirm, and `_on_getok`.
  `Lanes` relates, for each consumer, what `BlockingChannel` thinks of it
  (`Fits`), what may still be on the wire (`WireLane`) and which events wait for it
  (`EventLane`): a cancellation is the last that is heard of it, and it has no event
  before it is set up or after it is forgotten.
* `EventsAlwaysAccounted` (`EventsAccounted`): `Accounted` follows each delivery from
  the broker over the wire, the pending events or the generator's, `basic_get`'s result
  and the application to its settlement, while the channel is open at both ends: it
  is in one place, also when a consumer or a generator is cancelled and what waited
  for it is rejected.  Places are counted by the cardinality of sets of positions;
  the lemmas say what appending, taking the head, joining, cutting, and splitting a
  queue by consumer (`Of`, `Without`) do to the count.  `Wanted` has the timers and the
  requests for a dispatch.

Every inductive invariant was first checked by TLC on the instance of its module.

**Assumptions.**  Those of the modules and no others: the sets of messages and
timers are finite, the names that mean nothing are no member of them, limits,
prefetch, delays of a poll and rooms are positive, bounds are naturals, there is a
configuration and each has an address (`ConfigsAssumption`), and there is a
descriptor (`FdsAssumption`: the loop always has its interrupt).  In `BlockingCalls`
the names of timers are not those of the other events, as a `_TimerEvt` is no event
of a channel.  TLC evaluates them
in every run of their module.

**Only model-checked.**  Liveness (`HoldEndsInSettlement`, `ProgramEnds`,
`EveryCallHasItsTurn`, `WorkflowEnds`, `CloseCompletes`, `CloseEnds`, `CallsEnd`,
`StreamProgresses`) rests on fairness and ENABLED, which this prover does not handle.
The safety properties of `InboundStream` (with `CallbackManager`) have no theorem.  `CallbackManager.process`
and the sums of `InboundStream` are folds, defined by recursion over
data, about which the provers can conclude nothing by induction: what those
properties need of them has to be stated without the fold first.

Four modules are written for the proofs: those of `SlowAckConsumer`
count with the cardinality of sets of positions, queue by queue, and `InOrder` of
`StreamServices` compares the buffered chunks with the bytes written position by
position, where a concatenation of all chunks would be a recursive definition.
`RpcInFlight` of `PikaChannel` counts positions instead of filtering the streams, and
`RpcRow` says at once what `_rpc` does with the row of requests that `close()` makes.
`BlockingCalls` picks the events of a consumer out of a queue by their positions in
ascending order (`Picked`), where `SelectSeq` is defined by recursion.  Its proof found
an error of the model: a timer could be scheduled again under its name while its callback
ran, where the code makes a new `_TimerEvt`; `CallLater` now excludes the timer whose
callback runs.

## 6. Not modelled

`PROJECT.json` gives every part with its status.  Left out for good: `spec.py`
(generated encoders), the encoding of field tables in `data.py`, the asyncio, gevent, Tornado and Twisted adapters (not used
by this program), credentials, validators and other data classes, the make
targets and the broker's own message store.  An exception that `socket.socket`
or a socket option raises in `AMQPConnector.start` leaves the loop's callback and
ends `BlockingConnection`'s constructor, which is not modelled.  In the parts that
are modelled: `connection_made` that raises, `Channel.Flow` of the broker, frames
that break the protocol, explicit channel numbers, `update_secret`, `start` and
`stop` of the loop, and `SelectPoller` and `KQueuePoller`, which differ from the
other two in their system calls.

## 7. Plan

Done: every module of section 2, its runs, and the theorems of section 5.

Left: `InboundStream`, namely its types, `IdleIsIdle` (the counts of the checker
against the clock), `UsesCounted`, and `ContentsInOrder` as far as it needs no
recursion.  `CallbackManager.process` and the sums of frames would first have to be
stated without folds.
