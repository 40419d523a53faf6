------------------------- MODULE ConnectionWorkflow -------------------------
(***************************************************************************)
(* connection_workflow.AMQPConnectionWorkflow and its AMQPConnector: DNS,  *)
(* TCP, transport and AMQP handshake for every address of every            *)
(* configuration, with timeouts, retries and abort().                      *)
(*                                                                         *)
(* The two call each other directly, so one action is one callback of the  *)
(* I/O loop with all it calls, or one call of the application.  A canceled *)
(* task or timer does not call back (the module IOLoop).  An exception     *)
(* that leaves abort() or a callback is noted in "raised" and the program  *)
(* goes on with what was assigned before it.                               *)
(***************************************************************************)
EXTENDS Integers, Sequences

CONSTANTS
    Addresses,      \* how many addresses each configuration's host resolves to
    Attempts,       \* connection_attempts of the last configuration
    MaxAborts       \* bound on the calls of abort()

Configs == DOMAIN Addresses
ASSUME ConfigsAssumption ==
    /\ Addresses \in Seq(Nat \ {0}) /\ Addresses # <<>>
    /\ Attempts \in Nat \ {0} /\ MaxAborts \in Nat

VARIABLES
    wf,             \* the AMQPConnectionWorkflow
    co,             \* its AMQPConnector and that one's Connection
    completions,    \* _report_completion_and_cleanup calls queued by abort()
    internal,       \* _until_first_amqp_attempt: Connection opens itself
    timed,          \* socket_timeout and stack_timeout are set
    results,        \* what on_done was called with
    raised,         \* where exceptions escaped
    aborts,         \* calls of abort() and of Connection.close()
    tried,          \* connectors started for each configuration
    unresolved,     \* getaddrinfo failed at some time
    handshakes,     \* AMQP handshakes begun
    orphan          \* a connection opened that was not reported

options == <<internal, timed>>
history == <<tried, unresolved, handshakes, orphan>>
vars == <<wf, co, completions, options, results, raised, aborts, history>>

NoConnector == [state |-> "DONE", timers |-> {}, task |-> "none", conn |-> "none"]
Kinds == {"connection", "failed", "aborted", "abortedClass"}

\* task of the workflow: the timer of a new cycle, the timer before the first
\* configuration, or getaddrinfo.
TypeOK ==
    /\ wf \in [state: {"INIT", "ACTIVE", "ABORTING", "DONE"},
               attempts: 0..Attempts, config: 0..Len(Addresses), addrs: Nat,
               task: {"none", "cycle", "config", "dns"}, errors: Nat]
    /\ co \in [state: {"TCP", "TRANSPORT", "AMQP", "TIMEOUT", "ABORTING", "DONE"},
               timers: SUBSET {"tcp", "stack"}, task: {"none", "tcp", "transport"},
               conn: {"none", "opening", "closing"}]
    /\ completions \in Seq({"connector", "workflow"})
    /\ internal \in BOOLEAN /\ timed \in BOOLEAN
    /\ results \in Seq([kind: Kinds, errors: Nat])
    /\ raised \subseteq {"abort", "timeout", "completion", "done"}
    /\ aborts \in 0..MaxAborts /\ tried \in [Configs -> Nat]
    /\ unresolved \in BOOLEAN /\ handshakes \in Nat /\ orphan \in BOOLEAN

Init ==
    /\ wf = [state |-> "INIT", attempts |-> Attempts, config |-> 0, addrs |-> 0,
             task |-> "none", errors |-> 0]
    /\ co = NoConnector /\ completions = <<>> /\ results = <<>> /\ raised = {}
    /\ internal \in BOOLEAN /\ timed \in BOOLEAN /\ aborts = 0
    /\ tried = [c \in Configs |-> 0] /\ unresolved = FALSE /\ handshakes = 0
    /\ orphan = FALSE
-----------------------------------------------------------------------------
(* What the callbacks of the workflow call, with the workflow w so far.    *)

\* BaseConnection._adapter_connect_stream passes its own parameters only.
LastConfig == IF internal THEN 1 ELSE Len(Addresses)

\* BaseConnection._on_connection_workflow_done takes the class for a connection
\* and fails its assertion.
Report(w, kind) ==
    /\ wf' = [w EXCEPT !.state = "DONE", !.task = "none"] /\ co' = NoConnector
    /\ results' = Append(results, [kind |-> kind, errors |-> w.errors])
    /\ raised' = IF kind = "abortedClass" THEN raised \cup {"done"} ELSE raised
    /\ UNCHANGED tried

\* Mutant: one cycle too many.
StartNewCycleOnceMore(w) ==
    IF w.attempts < 0 THEN Report(w, "failed")
    ELSE /\ wf' = [w EXCEPT !.attempts = @ - 1, !.config = 0, !.task = "config"]
         /\ co' = NoConnector /\ UNCHANGED <<results, raised, tried>>

StartNewCycle(w) ==
    IF w.attempts = 0 THEN Report(w, "failed")
    ELSE /\ wf' = [w EXCEPT !.attempts = @ - 1, !.config = 0, !.task = "config"]
         /\ co' = NoConnector /\ UNCHANGED <<results, raised, tried>>

TryNextConfig(w) ==
    IF w.config = LastConfig THEN StartNewCycle(w)
    ELSE /\ wf' = [w EXCEPT !.config = @ + 1, !.task = "dns"]
         /\ co' = NoConnector /\ UNCHANGED <<results, raised, tried>>

\* The new connector starts connecting its socket.
TryNextAddress(w) ==
    IF w.addrs = 0 THEN TryNextConfig(w)
    ELSE /\ wf' = [w EXCEPT !.addrs = @ - 1]
         /\ co' = [state |-> "TCP", task |-> "tcp", conn |-> "none",
                   timers |-> IF timed THEN {"tcp", "stack"} ELSE {}]
         /\ tried' = [tried EXCEPT ![w.config] = @ + 1]
         /\ UNCHANGED <<results, raised>>

\* Mutant: the first AMQP attempt is not the last one.
OnConnectorRetries(result) ==
    LET w == [wf EXCEPT !.errors = @ + 1] IN
    CASE result = "connection" -> Report(wf, "connection")
      [] result = "aborted"    -> Report(w, "aborted")
      [] OTHER                 -> TryNextAddress(w)

\* _on_connector_done, that AMQPConnector._report_completion_and_cleanup calls.
\* "openAborted" and "handshakeError" are AMQPConnectorAMQPHandshakeErrors.
OnConnectorDone(result) ==
    LET w == [wf EXCEPT !.errors = @ + 1] IN
    CASE result = "connection" -> Report(wf, "connection")
      [] result = "aborted"    -> Report(w, "aborted")
      [] internal /\ result = "openAborted" -> Report(w, "abortedClass")
      [] internal /\ result = "handshakeError" -> Report(w, "failed")
      [] OTHER -> TryNextAddress(w)
-----------------------------------------------------------------------------
(* The callbacks of the workflow.                                          *)

Start ==
    /\ wf.state = "INIT" /\ wf' = [wf EXCEPT !.state = "ACTIVE", !.task = "cycle"]
    /\ UNCHANGED <<co, completions, options, results, raised, aborts, history>>

CycleTimer ==
    /\ wf.task = "cycle" /\ StartNewCycle([wf EXCEPT !.task = "none"])
    /\ UNCHANGED <<completions, options, aborts, unresolved, handshakes, orphan>>

ConfigTimer ==
    /\ wf.task = "config" /\ TryNextConfig([wf EXCEPT !.task = "none"])
    /\ UNCHANGED <<completions, options, aborts, unresolved, handshakes, orphan>>

Resolved ==
    /\ wf.task = "dns"
    /\ TryNextAddress([wf EXCEPT !.task = "none", !.addrs = Addresses[wf.config]])
    /\ UNCHANGED <<completions, options, aborts, unresolved, handshakes, orphan>>

\* A host that does not resolve ends the whole cycle, configurations left or not.
Unresolved ==
    /\ wf.task = "dns" /\ unresolved' = TRUE
    /\ StartNewCycle([wf EXCEPT !.task = "none", !.errors = @ + 1])
    /\ UNCHANGED <<completions, options, aborts, handshakes, orphan>>
-----------------------------------------------------------------------------
(* The callbacks of the connector.                                         *)

\* Mutant: the connected socket cancels the overall timeout too.
TcpConnectedUntimed ==
    /\ co.task = "tcp"
    /\ co' = [co EXCEPT !.state = "TRANSPORT", !.task = "transport", !.timers = {}]
    /\ UNCHANGED <<wf, completions, options, results, raised, aborts, history>>

TcpConnected ==
    /\ co.task = "tcp"
    /\ co' = [co EXCEPT !.state = "TRANSPORT", !.task = "transport",
                        !.timers = @ \ {"tcp"}]
    /\ UNCHANGED <<wf, completions, options, results, raised, aborts, history>>

TcpFailed ==
    /\ co.task = "tcp" /\ OnConnectorDone("socketError")
    /\ UNCHANGED <<completions, options, aborts, unresolved, handshakes, orphan>>

TcpTimeout ==
    /\ "tcp" \in co.timers /\ OnConnectorDone("socketError")
    /\ UNCHANGED <<completions, options, aborts, unresolved, handshakes, orphan>>

TransportLinked ==
    /\ co.task = "transport"
    /\ co' = [co EXCEPT !.state = "AMQP", !.task = "none", !.conn = "opening"]
    /\ handshakes' = handshakes + 1
    /\ UNCHANGED <<wf, completions, options, results, raised, aborts, tried,
                   unresolved, orphan>>

TransportFailed ==
    /\ co.task = "transport" /\ OnConnectorDone("transportError")
    /\ UNCHANGED <<completions, options, aborts, unresolved, handshakes, orphan>>

\* Mutant: the connection whose handshake takes too long is left to itself.
StackTimeoutInAmqpForgetsClose ==
    /\ co.state = "AMQP"
    /\ co' = [co EXCEPT !.state = "TIMEOUT", !.timers = @ \ {"stack"}]
    /\ UNCHANGED <<wf, results, raised, tried>>

StackTimeoutInAmqp ==
    /\ co.state = "AMQP"
    /\ co' = [co EXCEPT !.state = "TIMEOUT", !.timers = @ \ {"stack"},
                        !.conn = "closing"]
    /\ UNCHANGED <<wf, results, raised, tried>>

\* _on_overall_timeout.  After an abort() that raised, its last assertion fails.
StackTimeout ==
    /\ "stack" \in co.timers
    /\ \/ StackTimeoutInAmqp
       \/ co.state = "TCP" /\ OnConnectorDone("socketError")
       \/ co.state = "TRANSPORT" /\ OnConnectorDone("transportError")
       \/ /\ co.state = "ABORTING" /\ raised' = raised \cup {"timeout"}
          /\ co' = [co EXCEPT !.state = "TIMEOUT", !.timers = @ \ {"stack"}]
          /\ UNCHANGED <<wf, results, tried>>
    /\ UNCHANGED <<completions, options, aborts, unresolved, handshakes, orphan>>

\* _on_amqp_handshake_done.
HandshakeDone(opened) ==
    /\ co.conn # "none" /\ (opened => co.conn = "opening")
    /\ OnConnectorDone(
         CASE co.state = "ABORTING" -> "aborted"
           [] co.state = "TIMEOUT" -> "handshakeError"
           [] OTHER -> IF opened THEN "connection"
                       ELSE IF co.conn = "closing" THEN "openAborted"
                       ELSE "handshakeError")
    /\ orphan' = (orphan \/ (opened /\ co.state # "AMQP"))
    /\ UNCHANGED <<completions, options, aborts, unresolved, handshakes>>

HandshakeEnds == \E opened \in BOOLEAN : HandshakeDone(opened)
\* A stream that is being terminated reports so.
StreamTerminated == co.conn = "closing" /\ HandshakeDone(FALSE)
-----------------------------------------------------------------------------
(* abort() and the application's Connection.close().                       *)

\* AMQPConnector.abort: _deactivate asserts that there is no connection before
\* abort looks whether there is one.
ConnectorAbort ==
    IF co.conn # "none"
    THEN /\ co' = [co EXCEPT !.state = "ABORTING"] /\ raised' = raised \cup {"abort"}
         /\ UNCHANGED completions
    ELSE /\ co' = [co EXCEPT !.state = "ABORTING", !.timers = {}, !.task = "none"]
         /\ completions' = Append(completions, "connector") /\ UNCHANGED raised

WorkflowAbort ==
    /\ wf.state \in {"ACTIVE", "ABORTING"}
    /\ wf' = [wf EXCEPT !.state = "ABORTING", !.task = "none"]
    /\ IF co.state = "DONE"
       THEN /\ completions' = Append(completions, "workflow")
            /\ UNCHANGED <<co, raised>>
       ELSE ConnectorAbort
    /\ UNCHANGED results

\* The user of create_connection may abort at any time, again too.
Abort ==
    /\ ~internal /\ aborts < MaxAborts /\ aborts' = aborts + 1
    /\ WorkflowAbort
    /\ UNCHANGED <<options, history>>

\* Connection.close() of a connection that opens itself, once: aborts the
\* workflow, or terminates the stream.
UserClose ==
    /\ internal /\ aborts = 0 /\ aborts < MaxAborts /\ aborts' = 1
    /\ \/ co.conn = "none" /\ WorkflowAbort
       \/ /\ co.conn = "opening" /\ co' = [co EXCEPT !.conn = "closing"]
          /\ UNCHANGED <<wf, completions, raised, results>>
    /\ UNCHANGED <<options, history>>

\* Mutant: on_done is kept by _close.
CompletionAgain ==
    /\ completions # <<>> /\ completions' = Tail(completions) /\ Report(wf, "aborted")
    /\ UNCHANGED <<options, aborts, unresolved, handshakes, orphan>>

\* A completion queued by a second abort() finds on_done gone and calls None.
Completion ==
    /\ completions # <<>> /\ completions' = Tail(completions)
    /\ IF wf.state = "DONE"
       THEN raised' = raised \cup {"completion"} /\ UNCHANGED <<wf, co, results, tried>>
       ELSE Report(wf, "aborted")
    /\ UNCHANGED <<options, aborts, unresolved, handshakes, orphan>>
-----------------------------------------------------------------------------
Next ==
    \/ Start \/ CycleTimer \/ ConfigTimer \/ Resolved \/ Unresolved
    \/ TcpConnected \/ TcpFailed \/ TcpTimeout \/ TransportLinked \/ TransportFailed
    \/ StackTimeout \/ HandshakeEnds \/ Abort \/ UserClose \/ Completion

Spec == Init /\ [][Next]_vars

\* The loop runs its timers and callbacks, the resolver thread returns and a
\* stream that was aborted terminates.  The broker need never answer.
Fairness ==
    /\ WF_vars(CycleTimer) /\ WF_vars(ConfigTimer) /\ WF_vars(Resolved \/ Unresolved)
    /\ WF_vars(TcpTimeout) /\ WF_vars(StackTimeout) /\ WF_vars(StreamTerminated)
    /\ WF_vars(Completion)

FairSpec == Spec /\ Fairness
-----------------------------------------------------------------------------
(* Properties.                                                             *)

\* on_done is called once, although completions can be queued twice and timers,
\* tasks and the handshake race for the end of a connector; and a failure names
\* at least one error: BaseConnection and BlockingConnection index the last one.
ReportedOnce ==
    /\ Len(results) <= 1
    /\ \A i \in DOMAIN results : results[i].kind = "failed" => results[i].errors > 0

\* Attempts are counted right: no address has more than connection_attempts of
\* them, and unless a name did not resolve, every one had them all when an
\* external workflow fails; and a Connection that opens itself goes through one
\* AMQP handshake at most, that is all its state allows.
AttemptsCounted ==
    /\ \A c \in Configs : tried[c] <= Attempts * Addresses[c]
    /\ (~internal /\ ~unresolved /\ \E i \in DOMAIN results : results[i].kind = "failed")
           => \A c \in Configs : tried[c] = Attempts * Addresses[c]
    /\ internal => handshakes <= 1

\* The outcome is reported once, and it is the outcome of the attempts asked for.
OutcomeReported == ReportedOnce /\ AttemptsCounted

\* Without an abort, a connection that is not reported is not left open, in
\* particular not the one whose handshake ends just after the stack timeout.
AbandonedConnectionCloses == aborts = 0 => ~orphan

\* With timeouts set the workflow ends, whatever the broker does, unless one of
\* the assertions of abort() or after it fails.
WorkflowEnds ==
    (timed /\ wf.state = "ACTIVE") ~> (wf.state = "DONE" \/ raised # {})

\* What abort() is for: an aborted workflow leaves no open connection behind.
AbortLeavesNoConnection ==
    (\E i \in DOMAIN results : results[i].kind = "aborted") => ~orphan
=============================================================================
