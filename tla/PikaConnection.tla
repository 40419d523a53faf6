--------------------------- MODULE PikaConnection ---------------------------
(***************************************************************************)
(* connection.Connection on an established transport: the opening          *)
(* handshake, channel numbers, the closing handshake with channels still   *)
(* open, the blocked-connection and heartbeat timers, and the end of the   *)
(* stream through the abort of io_services_utils._AsyncTransportBase,      *)
(* which reports the loss from a queued callback.                          *)
(*                                                                         *)
(* One action is one frame, one timer, one callback of the loop or one     *)
(* call of the application.  The frames of one read are processed in a     *)
(* row, whatever became of the connection in between; the application     *)
(* makes its calls between reads or in callbacks during one.               *)
(***************************************************************************)
EXTENDS Integers, Sequences, FiniteSets, SequencesExt

CONSTANTS
    ChannelMax,     \* the negotiated channel_max
    MaxLives,       \* bound on the channels ever opened
    MaxContents,    \* bound on the contents the broker sends
    MaxBlocks       \* bound on how often the broker blocks the connection

ASSUME BoundsAssumption ==
    /\ ChannelMax \in Nat \ {0} /\ MaxLives \in Nat
    /\ MaxContents \in Nat /\ MaxBlocks \in Nat

Numbers == 1..ChannelMax

VARIABLES
    state,          \* connection_state
    opened,         \* _opened
    error,          \* _error
    heartbeat,      \* _heartbeat_checker is there, with its timers
    blockedTimer,   \* _blocked_conn_timer is set
    channels,       \* _channels: the state of each, with its life
    lives,          \* channels opened so far
    transport,      \* _state of the transport
    notifies,       \* queued calls of _connection_lost_notify_async
    gotEof,         \* _got_eof
    reading,        \* data_received is under way
    buffer,         \* its frames that are not processed yet
    outcome,        \* on_open, on_open_error and on_close callbacks made
    failed,         \* an assertion failed, or an error had no reply code
    toBroker, toClient,
    broker,         \* "handshake", "up", "closing" (sent Close) or "gone"
    brokerChannels, \* the broker's channels
    contents, blocks

connVars == <<state, opened, error, heartbeat, blockedTimer>>
channelVars == <<channels, lives>>
transportVars == <<transport, notifies, gotEof, failed>>
readVars == <<reading, buffer>>
brokerVars == <<toClient, broker, brokerChannels, contents, blocks>>
vars == <<connVars, channelVars, transportVars, readVars, outcome, toBroker, brokerVars>>

\* CLOSING: Channel.Close was sent; BLOCKED: it waits behind Channel.Open;
\* CLOSED: the channel's close callback runs and its number is still taken.
ChannelStates == {"none", "OPENING", "OPEN", "BLOCKED", "CLOSING", "CLOSED"}
NoChannel == [state |-> "none", life |-> 0]
Used == {c \in Numbers : channels[c].state # "none"}

Frame(type) == [type |-> type, channel |-> 0, life |-> 0]
ChannelFrame(type, c, life) == [type |-> type, channel |-> c, life |-> life]
Frames(types, channelTypes) ==
    {Frame(t) : t \in types}
        \cup {ChannelFrame(t, c, l) : t \in channelTypes, c \in Numbers, l \in 1..MaxLives}
BrokerFrames == Frames({"Header", "StartOk", "TuneOk+Open", "Close"},
                       {"Open", "Close", "CloseOk"})
ClientFrames == Frames({"Start", "Tune", "OpenOk", "Close", "CloseOk", "Blocked", "Unblocked"},
                       {"OpenOk", "Close", "CloseOk", "Content"})
Reasons == {"none", "client", "aborted", "broker", "handshake", "blocked", "heartbeat", "lost"}

TypeOK ==
    /\ state \in {"PROTOCOL", "START", "TUNE", "OPEN", "CLOSING", "CLOSED"}
    /\ opened \in BOOLEAN /\ error \in Reasons
    /\ heartbeat \in BOOLEAN /\ blockedTimer \in BOOLEAN
    /\ channels \in [Numbers -> [state: ChannelStates, life: 0..MaxLives]]
    /\ lives \in 0..MaxLives
    /\ transport \in {"ACTIVE", "ABORTED", "FAILED", "COMPLETED"}
    /\ notifies \in Seq({"none", "error"}) /\ Len(notifies) <= 2
    /\ gotEof \in BOOLEAN /\ failed \in BOOLEAN
    /\ reading \in BOOLEAN /\ buffer \in Seq(ClientFrames)
    /\ outcome \in Seq([call: {"open", "open_error", "close"}, error: Reasons])
    /\ toBroker \in Seq(BrokerFrames) /\ toClient \in Seq(ClientFrames)
    /\ broker \in {"handshake", "up", "closing", "gone"}
    /\ brokerChannels \in [Numbers -> [state: {"none", "open", "closing"}, life: 0..MaxLives]]
    /\ contents \in 0..MaxContents /\ blocks \in 0..MaxBlocks

\* _proto_connection_made has sent the protocol header.
Init ==
    /\ state = "PROTOCOL" /\ opened = FALSE /\ error = "none"
    /\ heartbeat = FALSE /\ blockedTimer = FALSE
    /\ channels = [c \in Numbers |-> NoChannel] /\ lives = 0
    /\ transport = "ACTIVE" /\ notifies = <<>> /\ gotEof = FALSE /\ failed = FALSE
    /\ reading = FALSE /\ buffer = <<>> /\ outcome = <<>>
    /\ toBroker = <<Frame("Header")>> /\ toClient = <<>> /\ broker = "handshake"
    /\ brokerChannels = [c \in Numbers |-> NoChannel] /\ contents = 0 /\ blocks = 0
-----------------------------------------------------------------------------
(* The transport.                                                          *)

\* write() ignores what comes after the transport was aborted or has failed.
Send(frames) ==
    toBroker' = IF transport = "ACTIVE" THEN toBroker \o frames ELSE toBroker

\* Mutant: a transport that is on its way down is aborted again.
InitiateAbortAgain(cause, asserted) ==
    /\ failed' = (failed \/ ~asserted \/ transport = "COMPLETED")
    /\ transport' = IF cause = "none" THEN "ABORTED" ELSE "FAILED"
    /\ notifies' = Append(notifies, cause)

\* _initiate_abort, with the assertions made so far.
InitiateAbort(cause, asserted) ==
    /\ failed' = (failed \/ ~asserted \/ transport = "COMPLETED"
                    \/ (cause = "error" /\ transport = "FAILED"))
    /\ IF \/ transport \in {"COMPLETED", "ABORTED"}
          \/ transport = "FAILED" /\ cause = "error"
       THEN UNCHANGED <<transport, notifies>>
       ELSE /\ transport' = IF cause = "none" THEN "ABORTED" ELSE "FAILED"
            /\ notifies' = Append(notifies, cause)

\* Connection._terminate_stream; "none" leaves the reason that is there.
TerminateStream(reason) ==
    /\ error' = IF reason = "none" THEN error ELSE reason
    /\ heartbeat' = FALSE
    /\ InitiateAbort("none", error' # "none") /\ UNCHANGED gotEof

\* _consume: one recv() gives whatever has arrived.
Receive ==
    /\ transport = "ACTIVE" /\ ~reading /\ toClient # <<>>
    /\ \E n \in 1..Len(toClient) :
          buffer' = SubSeq(toClient, 1, n) /\ toClient' = SubSeq(toClient, n + 1, Len(toClient))
    /\ reading' = TRUE
    /\ UNCHANGED <<connVars, channelVars, transportVars, outcome, toBroker, broker,
                   brokerChannels, contents, blocks>>

CallbackRuns == \E c \in Numbers : channels[c].state = "CLOSED"

EndOfData ==
    /\ reading /\ buffer = <<>> /\ ~CallbackRuns /\ reading' = FALSE
    /\ UNCHANGED <<connVars, channelVars, transportVars, buffer, outcome, toBroker,
                   brokerVars>>

\* An exception out of data_received.
DataRaises ==
    /\ reading /\ opened /\ ~CallbackRuns
    /\ InitiateAbort("error", TRUE)
    /\ reading' = FALSE /\ buffer' = <<>>
    /\ UNCHANGED <<connVars, channelVars, gotEof, outcome, toBroker, brokerVars>>

Eof ==
    /\ transport = "ACTIVE" /\ ~reading /\ broker = "gone" /\ toClient = <<>>
    /\ gotEof' = TRUE /\ InitiateAbort("none", TRUE)
    /\ UNCHANGED <<connVars, channelVars, readVars, outcome, toBroker, brokerVars>>

SocketError ==
    /\ transport = "ACTIVE" /\ ~reading
    /\ InitiateAbort("error", TRUE) /\ UNCHANGED gotEof
    /\ UNCHANGED <<connVars, channelVars, readVars, outcome, toBroker, brokerVars>>

Outcome(reason) == [call |-> IF opened THEN "close" ELSE "open_error", error |-> reason]

\* Connection._on_stream_terminated, from connection_lost, then _init_connection_state
\* clears what is left.
OnStreamTerminated(cause) ==
    LET reason == IF cause = "error" \/ gotEof THEN "lost" ELSE error IN
    /\ failed' = (failed \/ reason = "none")
    /\ state' = "CLOSED" /\ heartbeat' = FALSE /\ blockedTimer' = FALSE
    /\ channels' = [c \in Numbers |-> NoChannel]
    /\ outcome' = Append(outcome, Outcome(reason)) /\ error' = "none"

\* Mutant: every notification is reported.
NoneDropped(cause) == FALSE

\* _connection_lost_notify_async: a failure that the user's abort overtook, and
\* all that comes after the first report, is dropped.
Dropped(cause) == transport = "COMPLETED" \/ (cause = "error" /\ transport # "FAILED")

\* What was on the stream is lost; nobody reads it after the abort.
CloseSocket ==
    /\ toBroker' = <<>> /\ toClient' = <<>> /\ broker' = "gone"
    /\ brokerChannels' = [c \in Numbers |-> NoChannel]

Notify ==
    /\ notifies # <<>> /\ ~reading /\ notifies' = Tail(notifies)
    /\ IF Dropped(Head(notifies))
       THEN UNCHANGED <<connVars, channels, transport, failed, outcome>>
       ELSE /\ OnStreamTerminated(Head(notifies)) /\ UNCHANGED opened
            /\ transport' = "COMPLETED"
    /\ CloseSocket /\ UNCHANGED <<lives, gotEof, readVars, contents, blocks>>
-----------------------------------------------------------------------------
(* Frames for channel 0.                                                   *)

Arrives(type, c) ==
    /\ buffer # <<>> /\ ~CallbackRuns
    /\ Head(buffer).type = type /\ Head(buffer).channel = c
    /\ buffer' = Tail(buffer) /\ UNCHANGED <<reading, brokerVars, lives>>

\* The credentials or the version may not suit.
OnStart ==
    /\ Arrives("Start", 0) /\ state' = "START"
    /\ \/ Send(<<Frame("StartOk")>>) /\ UNCHANGED <<error, heartbeat, transportVars>>
       \/ TerminateStream("handshake") /\ UNCHANGED toBroker
    /\ UNCHANGED <<opened, blockedTimer, channels, outcome>>

\* Without heartbeats the checker is absent; it behaves like one that never
\* finds the connection idle.
OnTune ==
    /\ Arrives("Tune", 0) /\ state' = "TUNE" /\ heartbeat' = TRUE
    /\ Send(<<Frame("TuneOk+Open")>>)
    /\ UNCHANGED <<opened, error, blockedTimer, channels, transportVars, outcome>>

OnOpenOk ==
    /\ Arrives("OpenOk", 0) /\ state' = "OPEN" /\ opened' = TRUE
    /\ outcome' = Append(outcome, [call |-> "open", error |-> "none"])
    /\ UNCHANGED <<error, heartbeat, blockedTimer, channels, transportVars, toBroker>>

\* Connection.Close ends the stream without a CloseOk.
OnCloseFromBroker ==
    /\ Arrives("Close", 0) /\ TerminateStream("broker")
    /\ UNCHANGED <<state, opened, blockedTimer, channels, outcome, toBroker>>

OnCloseOk ==
    /\ Arrives("CloseOk", 0) /\ TerminateStream("none")
    /\ UNCHANGED <<state, opened, blockedTimer, channels, outcome, toBroker>>

OnBlocked ==
    /\ \/ Arrives("Blocked", 0) /\ blockedTimer' = TRUE
       \/ Arrives("Unblocked", 0) /\ blockedTimer' = FALSE
    /\ UNCHANGED <<state, opened, error, heartbeat, channels, transportVars, outcome,
                   toBroker>>
-----------------------------------------------------------------------------
(* Frames for a channel; what it sends and calls is the module             *)
(* PikaChannel's.                                                          *)

ChannelArrives(type, c, states) == Arrives(type, c) /\ channels[c].state \in states

Becomes(c, status) == channels' = [channels EXCEPT ![c].state = status]

OnChannelOpenOk(c) ==
    /\ \/ /\ ChannelArrives("OpenOk", c, {"OPENING"})
          /\ Becomes(c, "OPEN") /\ UNCHANGED toBroker
       \/ /\ ChannelArrives("OpenOk", c, {"BLOCKED"})
          /\ Becomes(c, "CLOSING")
          /\ Send(<<ChannelFrame("Close", c, channels[c].life)>>)
    /\ UNCHANGED <<connVars, transportVars, outcome>>

\* Mutant: a channel that is closing does not wait for its own CloseOk.
OnChannelCloseAtOnce(c) ==
    /\ ChannelArrives("Close", c, {"OPENING", "OPEN", "BLOCKED", "CLOSING"})
    /\ Send(<<ChannelFrame("CloseOk", c, channels[c].life)>>)
    /\ Becomes(c, "CLOSED")
    /\ UNCHANGED <<connVars, transportVars, outcome>>

OnChannelClose(c) ==
    /\ ChannelArrives("Close", c, {"OPENING", "OPEN", "BLOCKED", "CLOSING"})
    /\ Send(<<ChannelFrame("CloseOk", c, channels[c].life)>>)
    /\ IF channels[c].state = "CLOSING" THEN UNCHANGED channels ELSE Becomes(c, "CLOSED")
    /\ UNCHANGED <<connVars, transportVars, outcome>>

OnChannelCloseOk(c) ==
    /\ ChannelArrives("CloseOk", c, {"CLOSING"}) /\ Becomes(c, "CLOSED")
    /\ UNCHANGED <<connVars, transportVars, outcome, toBroker>>

\* A content for the channel's own handlers, or a frame for a channel that is gone.
OnOtherFrame(c) ==
    /\ \/ ChannelArrives("Content", c, ChannelStates)
       \/ \E type \in {"OpenOk", "Close", "CloseOk"} : ChannelArrives(type, c, {"none"})
    /\ UNCHANGED <<connVars, channels, transportVars, outcome, toBroker>>

HasReplyCode == error \in {"client", "broker"}

\* Mutant: the last channel to go does not continue the close.
OnChannelCleanupOnly(c) ==
    /\ channels[c].state = "CLOSED" /\ channels' = [channels EXCEPT ![c] = NoChannel]
    /\ UNCHANGED <<failed, toBroker>>
    /\ UNCHANGED <<connVars, lives, transport, notifies, gotEof, readVars, outcome,
                   brokerVars>>

\* The channel's close callback has returned; _on_channel_cleanup, and
\* _on_close_ready once a closing connection has no channel left.
OnChannelCleanup(c) ==
    /\ channels[c].state = "CLOSED" /\ channels' = [channels EXCEPT ![c] = NoChannel]
    /\ IF state = "CLOSING" /\ Used = {c}
       THEN Send(<<Frame("Close")>>) /\ failed' = (failed \/ ~HasReplyCode)
       ELSE UNCHANGED <<failed, toBroker>>
    /\ UNCHANGED <<connVars, lives, transport, notifies, gotEof, readVars, outcome,
                   brokerVars>>
-----------------------------------------------------------------------------
(* Timers, and calls of the application.                                   *)

BlockedTimeout ==
    /\ blockedTimer /\ ~reading /\ blockedTimer' = FALSE /\ TerminateStream("blocked")
    /\ UNCHANGED <<state, opened, channelVars, readVars, outcome, toBroker, brokerVars>>

\* HeartbeatChecker._check_heartbeat saw no bytes for its interval.
HeartbeatTimeout ==
    /\ heartbeat /\ ~reading /\ TerminateStream("heartbeat")
    /\ UNCHANGED <<state, opened, blockedTimer, channelVars, readVars, outcome, toBroker,
                   brokerVars>>

\* Between reads, or in a callback, of which there are none before on_open.
Calling == reading => opened

\* channel() takes the lowest free number.
OpenChannel ==
    /\ Calling /\ state = "OPEN" /\ lives < MaxLives /\ Used # Numbers
    /\ LET c == CHOOSE n \in Numbers \ Used : \A m \in 1..n - 1 : m \in Used
       IN /\ channels' = [channels EXCEPT ![c] = [state |-> "OPENING", life |-> lives + 1]]
          /\ Send(<<ChannelFrame("Open", c, lives + 1)>>)
    /\ lives' = lives + 1
    /\ UNCHANGED <<connVars, transportVars, readVars, outcome, brokerVars>>

\* Channel.close(): a channel that is opening sends its Close after the OpenOk.
Closing(status) ==
    IF status = "OPENING" THEN "BLOCKED" ELSE IF status = "OPEN" THEN "CLOSING" ELSE status
OpenOnes == {c \in Numbers : channels[c].state = "OPEN"}

CloseChannel(c) ==
    /\ Calling /\ channels[c].state \in {"OPENING", "OPEN"}
    /\ Becomes(c, Closing(channels[c].state))
    /\ Send(IF c \in OpenOnes THEN <<ChannelFrame("Close", c, channels[c].life)>> ELSE <<>>)
    /\ UNCHANGED <<connVars, lives, transportVars, readVars, outcome, brokerVars>>

\* close() closes the channels first; during the handshake it ends the stream.
Close ==
    /\ Calling /\ state \notin {"CLOSING", "CLOSED"} /\ state' = "CLOSING"
    /\ channels' = [c \in Numbers |-> [channels[c] EXCEPT !.state = Closing(@)]]
    /\ \/ ~opened /\ TerminateStream("aborted") /\ UNCHANGED toBroker
       \/ /\ opened /\ error' = "client"
          /\ LET open == SetToSeq(OpenOnes)
             IN Send(IF Used = {} THEN <<Frame("Close")>>
                     ELSE [i \in DOMAIN open |->
                              ChannelFrame("Close", open[i], channels[open[i]].life)])
          /\ UNCHANGED <<heartbeat, transportVars>>
    /\ UNCHANGED <<opened, blockedTimer, lives, readVars, outcome, brokerVars>>
-----------------------------------------------------------------------------
(* The broker, while the client looks at the stream.                       *)

BrokerSends(frames) == toClient' = toClient \o frames

Answers(f) ==
    CASE f.type = "Header" -> <<Frame("Start")>>
      [] f.type = "StartOk" -> <<Frame("Tune")>>
      [] f.type = "TuneOk+Open" -> <<Frame("OpenOk")>>
      [] f.type = "Open" -> <<[f EXCEPT !.type = "OpenOk"]>>
      [] f.type = "Close" -> <<[f EXCEPT !.type = "CloseOk"]>>
      [] OTHER -> <<>>

\* A channel the broker closed stays until the CloseOk, and answers a Close.
BrokerChannel(f) ==
    CASE f.type = "Open" -> [state |-> "open", life |-> f.life]
      [] f.type = "Close" /\ brokerChannels[f.channel].state = "closing" ->
            brokerChannels[f.channel]
      [] OTHER -> NoChannel

BrokerReads ==
    /\ transport = "ACTIVE" /\ broker # "gone" /\ toBroker # <<>>
    /\ toBroker' = Tail(toBroker)
    /\ LET f == Head(toBroker) IN
       IF broker = "closing" THEN UNCHANGED <<toClient, broker, brokerChannels>>
       ELSE /\ BrokerSends(Answers(f))
            /\ broker' = CASE f.type = "TuneOk+Open" -> "up"
                           [] f = Frame("Close") -> "gone"
                           [] OTHER -> broker
            /\ brokerChannels' = IF f.channel = 0 THEN brokerChannels
                                 ELSE [brokerChannels EXCEPT ![f.channel] = BrokerChannel(f)]
    /\ UNCHANGED <<connVars, channelVars, transportVars, readVars, outcome, contents, blocks>>

BrokerDelivers(c) ==
    /\ transport = "ACTIVE" /\ broker = "up" /\ brokerChannels[c].state = "open"
    /\ contents < MaxContents /\ contents' = contents + 1
    /\ BrokerSends(<<ChannelFrame("Content", c, brokerChannels[c].life)>>)
    /\ UNCHANGED <<connVars, channelVars, transportVars, readVars, outcome, toBroker,
                   broker, brokerChannels, blocks>>

BrokerClosesChannel(c) ==
    /\ transport = "ACTIVE" /\ broker = "up" /\ brokerChannels[c].state = "open"
    /\ brokerChannels' = [brokerChannels EXCEPT ![c].state = "closing"]
    /\ BrokerSends(<<ChannelFrame("Close", c, brokerChannels[c].life)>>)
    /\ UNCHANGED <<connVars, channelVars, transportVars, readVars, outcome, toBroker,
                   broker, contents, blocks>>

BrokerBlocks ==
    /\ transport = "ACTIVE" /\ broker = "up" /\ blocks < MaxBlocks /\ blocks' = blocks + 1
    /\ BrokerSends(<<Frame(IF blocks % 2 = 0 THEN "Blocked" ELSE "Unblocked")>>)
    /\ UNCHANGED <<connVars, channelVars, transportVars, readVars, outcome, toBroker,
                   broker, brokerChannels, contents>>

\* It refuses the client, or is stopped.
BrokerCloses ==
    /\ transport = "ACTIVE" /\ broker \in {"handshake", "up"} /\ broker' = "closing"
    /\ BrokerSends(<<Frame("Close")>>)
    /\ UNCHANGED <<connVars, channelVars, transportVars, readVars, outcome, toBroker,
                   brokerChannels, contents, blocks>>

BrokerGone ==
    /\ transport = "ACTIVE" /\ broker # "gone" /\ broker' = "gone"
    /\ UNCHANGED <<connVars, channelVars, transportVars, readVars, outcome, toBroker,
                   toClient, brokerChannels, contents, blocks>>
-----------------------------------------------------------------------------
ProcessFrame ==
    \/ OnStart \/ OnTune \/ OnOpenOk \/ OnCloseFromBroker \/ OnCloseOk \/ OnBlocked
    \/ \E c \in Numbers : \/ OnChannelOpenOk(c) \/ OnChannelClose(c)
                          \/ OnChannelCloseOk(c) \/ OnOtherFrame(c)

LoopStep ==
    \/ Receive \/ ProcessFrame \/ EndOfData \/ Eof \/ Notify
    \/ \E c \in Numbers : OnChannelCleanup(c)

Next ==
    \/ LoopStep \/ DataRaises \/ SocketError \/ BlockedTimeout \/ HeartbeatTimeout
    \/ OpenChannel \/ Close \/ (\E c \in Numbers : CloseChannel(c))
    \/ BrokerReads \/ BrokerBlocks \/ BrokerCloses \/ BrokerGone
    \/ \E c \in Numbers : BrokerDelivers(c) \/ BrokerClosesChannel(c)

Spec == Init /\ [][Next]_vars

\* The loop runs and the broker answers or its end is noticed.
FairSpec == Spec /\ WF_vars(LoopStep) /\ WF_vars(BrokerReads)
-----------------------------------------------------------------------------
(* Properties.                                                             *)

\* None of the assertions on the way down fails, in whichever order the abort,
\* the end of the stream, the timers and close() come: the reason is known when
\* the loss is reported, a failure is not reported twice, and what closes after
\* the channels has a reply code to send.
TerminationConsistent == ~failed

\* The application hears of the end once: of an error when the connection never
\* opened, of the close when it did; then no channel and no timer is left.
OneOutcome ==
    LET ends == {i \in DOMAIN outcome : outcome[i].call # "open"} IN
    /\ Len(outcome) <= IF opened THEN 2 ELSE 1
    /\ opened <=> \E i \in DOMAIN outcome : outcome[i].call = "open"
    /\ ends # {} => /\ ends = {Len(outcome)} /\ outcome[Len(outcome)].error # "none"
                    /\ outcome[Len(outcome)].call = IF opened THEN "close" ELSE "open_error"
    /\ (state = "CLOSED") <=> (ends # {})
    /\ state = "CLOSED" => ~heartbeat /\ ~blockedTimer /\ Used = {}

\* The connection ends in one way that all its parts agree on.
EndsOnce == TerminationConsistent /\ OneOutcome

\* A channel number that is used again sees none of its former channel's frames,
\* in either direction, also when both ends closed that at the same time.
FramesOfOwnChannel ==
    /\ (buffer # <<>> /\ Head(buffer).channel \in Used) =>
           Head(buffer).life = channels[Head(buffer).channel].life
    /\ (toBroker # <<>> /\ Head(toBroker).type = "Open" /\ broker = "up") =>
           brokerChannels[Head(toBroker).channel].state = "none"

\* Connection.Close is the last frame the client sends, although channels are
\* still closing, and the broker closing others, when close() is called.
NothingAfterClose ==
    \A i \in DOMAIN toBroker : toBroker[i] = Frame("Close") => i = Len(toBroker)

\* Frames stay with the channel they belong to and before the end.
FramesInPlace == FramesOfOwnChannel /\ NothingAfterClose

\* close() completes whatever the channels, the broker and the timers do.
CloseEnds == (state = "CLOSING") ~> (state = "CLOSED")
=============================================================================
