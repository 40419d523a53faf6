---------------------- MODULE ConnectionWorkflowProofs ----------------------
(***************************************************************************)
(* Proofs about ConnectionWorkflow: one outcome, the attempts that the     *)
(* parameters ask for, and no abandoned connection that stays open, for    *)
(* any number of configurations, addresses, attempts and aborts.           *)
(***************************************************************************)
EXTENDS ConnectionWorkflow, SequenceTheorems, TLAPS

Workflows == [state: {"INIT", "ACTIVE", "ABORTING", "DONE"},
              attempts: 0..Attempts, config: 0..Len(Addresses), addrs: Nat,
              task: {"none", "cycle", "config", "dns"}, errors: Nat]
Connectors == [state: {"TCP", "TRANSPORT", "AMQP", "TIMEOUT", "ABORTING", "DONE"},
               timers: SUBSET {"tcp", "stack"}, task: {"none", "tcp", "transport"},
               conn: {"none", "opening", "closing"}]
Results == Seq([kind: Kinds, errors: Nat])

-----------------------------------------------------------------------------
(* How far the attempts are.                                               *)

\* k attempts for every address of a configuration.
Total(k, c) == k * Addresses[c]

\* The attempts made for configuration c when the workflow is in its k-th cycle,
\* at configuration "config" with "left" addresses left.
Mark(k, config, left, c) ==
    IF c < config THEN Total(k, c)
    ELSE IF c = config THEN Total(k, c) - left ELSE Total(k - 1, c)

\* No more attempts than that were made; and not less when the user runs the
\* workflow and every name resolves.
At(attempted, k, config, left, exact) ==
    \A c \in Configs : /\ attempted[c] <= Mark(k, config, left, c)
                       /\ exact => attempted[c] = Mark(k, config, left, c)
Exact == ~internal /\ ~unresolved
Cycle == Attempts - wf.attempts

-----------------------------------------------------------------------------
(* The inductive invariant.                                                *)

\* The tasks, timers and the connection that each state of a connector has.
ConnectorShape ==
    /\ co.state = "DONE" => co = NoConnector
    /\ co.state = "TCP" => co.task = "tcp" /\ co.conn = "none"
    /\ co.state = "TRANSPORT" => co.task = "transport" /\ co.conn = "none"
    /\ co.state = "AMQP" => co.task = "none" /\ co.conn # "none"
    /\ co.state = "TIMEOUT" => co.task = "none" /\ co.conn # "none" /\ co.timers = {}
    /\ co.state = "ABORTING" =>
           co.task = "none" /\ (co.conn = "none" => co.timers = {})
    /\ "tcp" \in co.timers => co.state = "TCP"

\* The workflow waits for one thing at a time, and for nothing before it starts
\* and after it reported.
OneThing ==
    /\ wf.task # "none" => co = NoConnector
    /\ wf.state \in {"INIT", "DONE"} => wf.task = "none" /\ co = NoConnector
    /\ wf.state = "INIT" => completions = <<>>

Reported == results # <<>> <=> wf.state = "DONE"

Position ==
    /\ wf.config <= LastConfig
    /\ wf.state = "INIT" \/ wf.task = "cycle" =>
           wf.attempts = Attempts /\ \A c \in Configs : tried[c] = 0
    /\ wf.task = "config" =>
           wf.config = 0 /\ wf.attempts < Attempts /\ At(tried, Cycle, 0, 0, Exact)
    /\ wf.task = "dns" =>
           /\ wf.config > 0 /\ wf.attempts < Attempts
           /\ At(tried, Cycle, wf.config, Addresses[wf.config], Exact)
    /\ co.state # "DONE" =>
           /\ wf.config > 0 /\ wf.attempts < Attempts /\ wf.addrs <= Addresses[wf.config]
           /\ At(tried, Cycle, wf.config, wf.addrs, Exact)

\* A Connection that opens itself is in its only handshake, or reported.
OneHandshake ==
    internal => \/ handshakes = 0
                \/ handshakes = 1 /\ (co.conn # "none" \/ wf.state = "DONE")

\* Without an abort, what is not opening any more is being closed.
NotAborted ==
    aborts = 0 => /\ ~orphan /\ co.state # "ABORTING"
                  /\ co.state = "TIMEOUT" => co.conn = "closing"

WorkflowInv ==
    /\ TypeOK /\ ConnectorShape /\ OneThing /\ Reported /\ Position
    /\ OneHandshake /\ NotAborted /\ OutcomeReported

-----------------------------------------------------------------------------
(* Attempts.                                                               *)

\* The attempts grow by the addresses of the configuration with every cycle.
LEMMA Totals ==
    ASSUME NEW c \in Configs
    PROVE  /\ Addresses[c] \in Nat /\ Addresses[c] > 0
           /\ \A k \in Nat : Total(k, c) \in Nat
           /\ Total(0, c) = 0
           /\ \A k \in Nat : Total(k + 1, c) = Total(k, c) + Addresses[c]
           /\ \A k \in Nat, l \in Nat : k <= l => Total(k, c) <= Total(l, c)
<1>1. Addresses[c] \in Nat /\ Addresses[c] > 0
  BY ConfigsAssumption, LenProperties, ElementOfSeq DEF Configs
<1>2. \A a \in Nat, k \in Nat : k * a \in Nat /\ 0 * a = 0 /\ (k + 1) * a = k * a + a
  OBVIOUS
<1>3. ASSUME NEW a \in Nat, NEW k \in Nat, NEW l \in Nat, k <= l PROVE k * a <= l * a
  <2>1. l * a = k * a + (l - k) * a
    OBVIOUS
  <2>2. (l - k) * a \in Nat /\ k * a \in Nat /\ l * a \in Nat
    BY <1>3
  <2>. QED  BY <2>1, <2>2
<1>. QED  BY <1>1, <1>2, <1>3 DEF Total

\* There is a configuration to try.
LEMMA ConfigCount ==
    /\ Len(Addresses) \in Nat /\ Len(Addresses) > 0 /\ Configs = 1 .. Len(Addresses)
    /\ (internal \in BOOLEAN => LastConfig \in 1 .. Len(Addresses))
BY ConfigsAssumption, LenProperties, EmptySeq DEF Configs, LastConfig

\* The end of a configuration is the start of the next one.
LEMMA NextMark ==
    ASSUME NEW t \in [Configs -> Nat], NEW k \in Nat, k > 0, NEW config \in Nat, NEW exact,
           config + 1 \in Configs, At(t, k, config, 0, exact)
    PROVE  At(t, k, config + 1, Addresses[config + 1], exact)
<1>. SUFFICES ASSUME NEW c \in Configs
              PROVE  Mark(k, config, 0, c) = Mark(k, config + 1, Addresses[config + 1], c)
  BY DEF At
<1>0. k - 1 \in Nat /\ k = (k - 1) + 1 /\ c \in Nat
  BY ConfigCount
<1>1. /\ k - 1 \in Nat /\ k = (k - 1) + 1 /\ c \in Nat /\ Total(k, c) \in Nat
      /\ Total(k - 1, c) \in Nat
  BY <1>0, Totals
<1>2. Total(k, c) = Total(k - 1, c) + Addresses[c] /\ Addresses[c] \in Nat
  BY <1>1, Totals
<1>3. CASE c = config + 1
  <2>1. Total(k, c) - Addresses[c] = Total(k - 1, c)
    BY <1>1, <1>2
  <2>. QED  BY <1>1, <1>3, <2>1 DEF Mark
<1>4. CASE c = config
  <2>1. Total(k, c) - 0 = Total(k, c)
    BY <1>1
  <2>. QED  BY <1>1, <1>4, <2>1 DEF Mark
<1>5. CASE c # config + 1 /\ c # config
  BY <1>1, <1>5 DEF Mark
<1>. QED  BY <1>3, <1>4, <1>5

\* An attempt is one more made and one address less.
LEMMA AttemptMark ==
    ASSUME NEW t \in [Configs -> Nat], NEW k \in Nat, k > 0, NEW config \in Configs,
           NEW left \in Nat, left > 0, left <= Addresses[config], NEW exact,
           At(t, k, config, left, exact)
    PROVE  At([t EXCEPT ![config] = @ + 1], k, config, left - 1, exact)
<1>. SUFFICES ASSUME NEW c \in Configs
              PROVE  LET u == [t EXCEPT ![config] = @ + 1]
                     IN /\ u[c] <= Mark(k, config, left - 1, c)
                        /\ exact => u[c] = Mark(k, config, left - 1, c)
  BY DEF At
<1>0. c \in Nat /\ config \in Nat
  BY ConfigCount
<1>1. c \in Nat /\ config \in Nat /\ Total(k, c) \in Nat /\ t[c] \in Nat
  BY <1>0, Totals
<1>2. t[c] <= Mark(k, config, left, c) /\ (exact => t[c] = Mark(k, config, left, c))
  BY DEF At
<1>. QED  BY <1>1, <1>2 DEF Mark

\* The end of the last configuration is the end of the cycle.
LEMMA CycleMark ==
    ASSUME NEW t \in [Configs -> Nat], NEW k \in Nat, k > 0, NEW config \in Configs, NEW exact,
           exact => config = Len(Addresses), At(t, k, config, 0, exact)
    PROVE  \A c \in Configs : t[c] <= Total(k, c) /\ (exact => t[c] = Total(k, c))
<1>. SUFFICES ASSUME NEW c \in Configs
              PROVE  t[c] <= Total(k, c) /\ (exact => t[c] = Total(k, c))
  OBVIOUS
<1>0. k - 1 \in Nat /\ k - 1 <= k /\ c \in 1 .. Len(Addresses) /\ config \in Nat
  BY ConfigCount
<1>1. /\ k - 1 \in Nat /\ k - 1 <= k /\ c \in 1 .. Len(Addresses) /\ Total(k, c) \in Nat
      /\ Total(k - 1, c) \in Nat /\ t[c] \in Nat /\ config \in Nat
  BY <1>0, Totals
<1>2. Total(k - 1, c) <= Total(k, c)
  BY <1>1, Totals
<1>3. t[c] <= Mark(k, config, 0, c) /\ (exact => t[c] = Mark(k, config, 0, c))
  BY DEF At
<1>. QED  BY <1>1, <1>2, <1>3, ConfigCount DEF Mark

\* A new cycle has all its attempts ahead.
LEMMA NewCycleMark ==
    ASSUME NEW t \in [Configs -> Nat], NEW k \in Nat, NEW exact,
           \A c \in Configs : t[c] <= Total(k, c) /\ (exact => t[c] = Total(k, c))
    PROVE  At(t, k + 1, 0, 0, exact)
<1>1. \A c \in Configs : c \in Nat /\ c > 0
  BY ConfigCount
<1>2. k + 1 - 1 = k
  OBVIOUS
<1>. QED  BY <1>1, <1>2 DEF At, Mark

\* Wherever the workflow is, no address has more attempts than it may have.
LEMMA MarkBound ==
    ASSUME NEW t \in [Configs -> Nat], NEW k \in Nat, k > 0, k <= Attempts,
           NEW config \in Nat, NEW left \in Nat, NEW exact, At(t, k, config, left, exact)
    PROVE  \A c \in Configs : t[c] <= Total(Attempts, c)
<1>. SUFFICES ASSUME NEW c \in Configs PROVE t[c] <= Total(Attempts, c)
  OBVIOUS
<1>0. k - 1 \in Nat /\ k - 1 <= Attempts /\ Attempts \in Nat /\ c \in Nat
  BY ConfigCount, ConfigsAssumption
<1>1. /\ k - 1 \in Nat /\ k - 1 <= Attempts /\ Attempts \in Nat /\ c \in Nat
      /\ Total(k, c) \in Nat /\ Total(k - 1, c) \in Nat /\ t[c] \in Nat
      /\ Total(Attempts, c) \in Nat
  BY <1>0, Totals
<1>2. Total(k - 1, c) <= Total(Attempts, c) /\ Total(k, c) <= Total(Attempts, c)
  BY <1>1, Totals
<1>3. t[c] <= Mark(k, config, left, c)
  BY DEF At
<1>. QED  BY <1>1, <1>2, <1>3 DEF Mark

-----------------------------------------------------------------------------
(* Where the calls of the workflow end.                                    *)

\* The workflow w as a callback has it, that is not over yet.
Going(w) ==
    /\ w \in Workflows /\ w.state \in {"ACTIVE", "ABORTING"} /\ w.task = "none"
    /\ w.config <= LastConfig /\ results = <<>>
    /\ tried \in [Configs -> Nat] /\ results \in Results
    /\ raised \subseteq {"abort", "timeout", "completion", "done"}
    /\ UNCHANGED options /\ internal \in BOOLEAN /\ timed \in BOOLEAN
    /\ unresolved' \in BOOLEAN

\* What holds of the workflow and the connector then.
Landed ==
    /\ wf' \in Workflows /\ co' \in Connectors /\ results' \in Results
    /\ raised' \subseteq {"abort", "timeout", "completion", "done"}
    /\ tried' \in [Configs -> Nat]
    /\ ConnectorShape' /\ OneThing' /\ Reported' /\ Position' /\ ReportedOnce'
    /\ co'.conn = "none" /\ co'.state \in {"TCP", "DONE"}
    /\ \A c \in Configs : tried'[c] <= Total(Attempts, c)
    /\ (Exact' /\ \E i \in DOMAIN results' : results'[i].kind = "failed")
           => \A c \in Configs : tried'[c] = Total(Attempts, c)

\* No connector has no timer, no task and no connection.
LEMMA NoConnectorIs ==
    /\ NoConnector \in Connectors /\ NoConnector.state = "DONE" /\ NoConnector.conn = "none"
    /\ NoConnector.timers = {} /\ NoConnector.task = "none"
BY DEF NoConnector, Connectors

\* Reporting ends everything.
LEMMA ReportLands ==
    ASSUME NEW w, NEW kind \in Kinds, Going(w), Report(w, kind),
           \A c \in Configs : tried[c] <= Total(Attempts, c),
           kind = "failed" => w.errors > 0
               /\ (Exact' => \A c \in Configs : tried[c] = Total(Attempts, c))
    PROVE  Landed /\ wf'.state = "DONE"
<1>1. /\ wf' \in Workflows /\ wf'.state = "DONE" /\ wf'.task = "none" /\ wf'.config = w.config
      /\ co' = NoConnector /\ tried' = tried
  BY DEF Going, Report, Workflows
<1>2. results' = <<[kind |-> kind, errors |-> w.errors]>>
  BY DEF Going, Report
<1>3. /\ results' \in Results /\ Len(results') = 1 /\ results' # <<>> /\ DOMAIN results' = {1}
      /\ results'[1].kind = kind /\ results'[1].errors = w.errors
  BY <1>2 DEF Results, Going, Workflows
<1>4. raised' \subseteq {"abort", "timeout", "completion", "done"}
  BY DEF Going, Report
<1>5. ConnectorShape' /\ OneThing' /\ Reported'
  BY <1>1, <1>3, NoConnectorIs DEF ConnectorShape, OneThing, Reported
<1>6. Position'
  BY <1>1, NoConnectorIs DEF Position, Going, options, LastConfig
<1>7. ReportedOnce'
  BY <1>3 DEF ReportedOnce
<1>. QED  BY <1>1, <1>3, <1>4, <1>5, <1>6, <1>7, NoConnectorIs DEF Landed, Going

\* A step of the workflow to its next task reports nothing.
LEMMA TaskLands ==
    ASSUME NEW w, Going(w), wf' \in Workflows, wf'.state = w.state,
           wf'.task \in {"config", "dns"}, co' = NoConnector,
           UNCHANGED <<results, raised, tried>>, Position',
           \A c \in Configs : tried[c] <= Total(Attempts, c)
    PROVE  Landed
<1>1. ConnectorShape' /\ OneThing' /\ Reported'
  BY NoConnectorIs DEF ConnectorShape, OneThing, Reported, Going
<1>2. results' \in Results /\ ReportedOnce' /\ DOMAIN results' = {}
  BY EmptySeq, LenProperties DEF Going, Results, ReportedOnce
<1>. QED  BY <1>1, <1>2, NoConnectorIs DEF Landed, Going

\* Another cycle, or the end.
LEMMA StartNewCycleLands ==
    ASSUME NEW w, Going(w), StartNewCycle(w), w.attempts = 0 => w.errors > 0,
           \A c \in Configs : /\ tried[c] <= Total(Attempts - w.attempts, c)
                              /\ Exact' => tried[c] = Total(Attempts - w.attempts, c)
    PROVE  Landed
<1>1. Attempts \in Nat /\ w.attempts \in Nat /\ Attempts - w.attempts \in Nat
      /\ Attempts - w.attempts <= Attempts
  BY ConfigsAssumption DEF Going, Workflows
<1>2. \A c \in Configs : tried[c] <= Total(Attempts, c)
  <2>. SUFFICES ASSUME NEW c \in Configs PROVE tried[c] <= Total(Attempts, c)
    OBVIOUS
  <2>1. /\ Total(Attempts - w.attempts, c) \in Nat /\ Total(Attempts, c) \in Nat
        /\ Total(Attempts - w.attempts, c) <= Total(Attempts, c)
    BY <1>1, Totals
  <2>. QED  BY <2>1 DEF Going
<1>3. CASE w.attempts = 0
  <2>1. Attempts - w.attempts = Attempts
    BY <1>1, <1>3
  <2>. QED  BY <1>2, <1>3, <2>1, ReportLands DEF StartNewCycle, Kinds
<1>4. CASE w.attempts # 0
  <2>1. /\ wf' \in Workflows /\ wf'.state = w.state /\ wf'.task = "config" /\ wf'.config = 0
        /\ wf'.attempts = w.attempts - 1 /\ co' = NoConnector
        /\ UNCHANGED <<results, raised, tried>>
    <3>1. w.attempts - 1 \in 0 .. Attempts /\ 0 \in 0 .. Len(Addresses)
      BY <1>1, <1>4, ConfigCount DEF Going, Workflows
    <3>2. wf' = [w EXCEPT !.attempts = w.attempts - 1, !.config = 0, !.task = "config"]
      BY <1>4 DEF StartNewCycle
    <3>3. co' = NoConnector /\ UNCHANGED <<results, raised, tried>>
      BY <1>4 DEF StartNewCycle
    <3>. QED  BY <3>1, <3>2, <3>3 DEF Going, Workflows
  <2>2. Cycle' = Attempts - w.attempts + 1 /\ wf'.attempts < Attempts
    BY <1>1, <2>1 DEF Cycle
  <2>3. At(tried, Attempts - w.attempts + 1, 0, 0, Exact')
    BY <1>1, NewCycleMark DEF Going
  <2>4. 0 <= LastConfig'
    BY ConfigCount DEF Going, options, LastConfig
  <2>5. Position'
    BY <2>1, <2>2, <2>3, <2>4, NoConnectorIs DEF Position, Going
  <2>. QED  BY <1>2, <2>1, <2>5, TaskLands
<1>. QED  BY <1>3, <1>4

\* The next configuration, or the end of the cycle.
LEMMA TryNextConfigLands ==
    ASSUME NEW w, Going(w), TryNextConfig(w), w.attempts < Attempts,
           w.config = 0 \/ w.errors > 0,
           At(tried, Attempts - w.attempts, w.config, 0, Exact')
    PROVE  Landed
<1>1. /\ Attempts \in Nat /\ w.attempts \in Nat /\ Attempts - w.attempts \in Nat
      /\ Attempts - w.attempts > 0 /\ Attempts - w.attempts <= Attempts
      /\ w.config \in 0 .. LastConfig /\ LastConfig \in 1 .. Len(Addresses)
      /\ LastConfig' = LastConfig
  BY ConfigsAssumption, ConfigCount DEF Going, Workflows, options, LastConfig
<1>2. CASE w.config = LastConfig
  <2>1. w.config \in Configs /\ (Exact' => w.config = Len(Addresses)) /\ w.errors > 0
    BY <1>1, <1>2, ConfigCount DEF Exact, Going, options, LastConfig
  <2>2. \A c \in Configs : /\ tried[c] <= Total(Attempts - w.attempts, c)
                           /\ Exact' => tried[c] = Total(Attempts - w.attempts, c)
    BY <1>1, <2>1, CycleMark DEF Going
  <2>. QED  BY <1>2, <2>1, <2>2, StartNewCycleLands DEF TryNextConfig
<1>3. CASE w.config # LastConfig
  <2>1. /\ wf' \in Workflows /\ wf'.state = w.state /\ wf'.task = "dns"
        /\ wf'.config = w.config + 1 /\ wf'.attempts = w.attempts /\ co' = NoConnector
        /\ UNCHANGED <<results, raised, tried>>
    <3>1. w.config + 1 \in 0 .. Len(Addresses)
      BY <1>1, <1>3, ConfigCount
    <3>2. wf' = [w EXCEPT !.config = w.config + 1, !.task = "dns"]
      BY <1>3 DEF TryNextConfig
    <3>3. co' = NoConnector /\ UNCHANGED <<results, raised, tried>>
      BY <1>3 DEF TryNextConfig
    <3>. QED  BY <3>1, <3>2, <3>3 DEF Going, Workflows
  <2>2. w.config + 1 \in Configs /\ w.config \in Nat
    BY <1>1, <1>3, ConfigCount
  <2>3. At(tried, Attempts - w.attempts, w.config + 1, Addresses[w.config + 1], Exact')
    BY <1>1, <2>2, NextMark DEF Going
  <2>4. Cycle' = Attempts - w.attempts
    BY <2>1 DEF Cycle
  <2>5. Position'
    BY <1>1, <1>3, <2>1, <2>2, <2>3, <2>4, NoConnectorIs DEF Position, Going
  <2>6. \A c \in Configs : tried[c] <= Total(Attempts, c)
    <3>1. w.config \in Nat /\ 0 \in Nat
      BY <2>2
    <3>. QED  BY <1>1, <3>1, MarkBound DEF Going
  <2>. QED  BY <2>1, <2>5, <2>6, TaskLands
<1>. QED  BY <1>2, <1>3

\* The next address, or the next configuration.
LEMMA TryNextAddressLands ==
    ASSUME NEW w, Going(w), TryNextAddress(w), w.attempts < Attempts, w.config > 0,
           w.addrs <= Addresses[w.config], w.addrs = 0 => w.errors > 0,
           At(tried, Attempts - w.attempts, w.config, w.addrs, Exact')
    PROVE  Landed
<1>1. /\ Attempts \in Nat /\ w.attempts \in Nat /\ Attempts - w.attempts \in Nat
      /\ Attempts - w.attempts > 0 /\ Attempts - w.attempts <= Attempts
      /\ w.config \in 1 .. LastConfig /\ LastConfig \in 1 .. Len(Addresses)
      /\ LastConfig' = LastConfig /\ w.config \in Configs /\ w.addrs \in Nat
  BY ConfigsAssumption, ConfigCount DEF Going, Workflows, options, LastConfig
<1>2. CASE w.addrs = 0
  BY <1>2, TryNextConfigLands DEF TryNextAddress
<1>3. CASE w.addrs # 0
  <2>1. /\ wf' \in Workflows /\ wf'.state = w.state /\ wf'.task = "none"
        /\ wf'.config = w.config /\ wf'.attempts = w.attempts /\ wf'.addrs = w.addrs - 1
        /\ UNCHANGED <<results, raised>> /\ tried' = [tried EXCEPT ![w.config] = @ + 1]
    BY <1>1, <1>3 DEF TryNextAddress, Going, Workflows
  <2>2. /\ co' \in Connectors /\ co'.state = "TCP" /\ co'.task = "tcp" /\ co'.conn = "none"
        /\ co'.timers \subseteq {"tcp", "stack"}
    BY <1>3 DEF TryNextAddress, Connectors
  <2>3. At(tried', Attempts - w.attempts, w.config, w.addrs - 1, Exact')
    <3>1. w.addrs > 0
      BY <1>1, <1>3
    <3>. QED  BY <1>1, <2>1, <3>1, AttemptMark DEF Going
  <2>4. Cycle' = Attempts - w.attempts
    BY <2>1 DEF Cycle
  <2>5. Addresses[w.config] \in Nat
    BY <1>1, Totals
  <2>6. Position'
    BY <1>1, <1>3, <2>1, <2>2, <2>3, <2>4, <2>5 DEF Position, Going
  <2>7. tried' \in [Configs -> Nat]
    BY <1>1, <2>1 DEF Going
  <2>8. \A c \in Configs : tried'[c] <= Total(Attempts, c)
    <3>1. w.config \in Nat /\ w.addrs - 1 \in Nat
      BY <1>1, <1>3
    <3>2. PICK t \in [Configs -> Nat], exact \in {Exact'} :
            t = tried' /\ At(t, Attempts - w.attempts, w.config, w.addrs - 1, exact)
      BY <2>3, <2>7
    <3>3. \A c \in Configs : t[c] <= Total(Attempts, c)
      BY <1>1, <3>1, <3>2, MarkBound
    <3>. QED  BY <3>2, <3>3
  <2>9. results' \in Results /\ ReportedOnce' /\ DOMAIN results' = {} /\ results' = <<>>
    BY <2>1, EmptySeq, LenProperties DEF Going, Results, ReportedOnce
  <2>10. ConnectorShape' /\ OneThing' /\ Reported'
    BY <2>1, <2>2, <2>9 DEF ConnectorShape, OneThing, Reported, Going
  <2>. QED  BY <2>1, <2>2, <2>6, <2>7, <2>8, <2>9, <2>10 DEF Landed, Going
<1>. QED  BY <1>2, <1>3

\* The end of a connector.
LEMMA OnConnectorDoneLands ==
    ASSUME WorkflowInv, co.state # "DONE", NEW result, OnConnectorDone(result),
           UNCHANGED <<options, unresolved>>
    PROVE  /\ Landed
           /\ \/ result \in {"connection", "aborted"}
              \/ internal /\ result \in {"openAborted", "handshakeError"}
              => wf'.state = "DONE"
<1>1. TypeOK /\ OneThing /\ Reported /\ Position
  BY DEF WorkflowInv
<1>2. /\ wf \in Workflows /\ wf.state \in {"ACTIVE", "ABORTING"} /\ wf.task = "none"
      /\ results = <<>> /\ Exact' = Exact
  BY <1>1 DEF TypeOK, OneThing, Reported, NoConnector, Workflows, Exact, options
<1>. DEFINE w == [wf EXCEPT !.errors = @ + 1]
<1>3. /\ w \in Workflows /\ w.state = wf.state /\ w.task = "none" /\ w.config = wf.config
      /\ w.addrs = wf.addrs /\ w.attempts = wf.attempts /\ w.errors > 0
  BY <1>2 DEF Workflows
<1>4. Going(wf) /\ Going(w)
  BY <1>1, <1>2, <1>3 DEF Going, TypeOK, Position, Results, options
<1>5. /\ wf.config > 0 /\ wf.attempts < Attempts /\ wf.addrs <= Addresses[wf.config]
      /\ At(tried, Attempts - wf.attempts, wf.config, wf.addrs, Exact)
  BY <1>1 DEF Position, Cycle
<1>6. \A c \in Configs : tried[c] <= Total(Attempts, c)
  <2>1. /\ Attempts - wf.attempts \in Nat /\ Attempts - wf.attempts > 0
        /\ Attempts - wf.attempts <= Attempts /\ wf.config \in Nat /\ wf.addrs \in Nat
    BY <1>2, <1>5, ConfigsAssumption DEF Workflows
  <2>. QED  BY <1>4, <1>5, <2>1, MarkBound DEF Going
<1>. HIDE DEF w
<1>7. CASE result = "connection"
  <2>1. Report(wf, "connection")
    BY <1>7 DEF OnConnectorDone
  <2>. QED  BY <1>4, <1>6, <2>1, ReportLands DEF Kinds
<1>8. CASE result = "aborted"
  <2>1. Report(w, "aborted")
    BY <1>8 DEF OnConnectorDone, w
  <2>. QED  BY <1>4, <1>6, <2>1, ReportLands DEF Kinds
<1>9. CASE internal /\ result = "openAborted"
  <2>1. Report(w, "abortedClass")
    BY <1>9 DEF OnConnectorDone, w
  <2>. QED  BY <1>4, <1>6, <2>1, ReportLands DEF Kinds
<1>10. CASE internal /\ result = "handshakeError"
  <2>1. Report(w, "failed") /\ ~Exact'
    BY <1>2, <1>10 DEF OnConnectorDone, w, Exact
  <2>. QED  BY <1>3, <1>4, <1>6, <2>1, ReportLands DEF Kinds
<1>11. CASE /\ result \notin {"connection", "aborted"}
            /\ ~(internal /\ result \in {"openAborted", "handshakeError"})
  <2>1. TryNextAddress(w)
    BY <1>11 DEF OnConnectorDone, w
  <2>2. At(tried, Attempts - w.attempts, w.config, w.addrs, Exact')
    BY <1>2, <1>3, <1>5
  <2>3. Landed
    BY <1>3, <1>4, <1>5, <2>1, <2>2, TryNextAddressLands
  <2>. QED  BY <1>11, <2>3
<1>. QED  BY <1>7, <1>8, <1>9, <1>10, <1>11

-----------------------------------------------------------------------------
(* The steps.                                                              *)

\* The workflow starts with all its attempts ahead.
LEMMA InitWorkflow == Init => WorkflowInv
<1>. SUFFICES ASSUME Init PROVE WorkflowInv
  OBVIOUS
<1>. USE ConfigsAssumption DEF Init
<1>1. /\ completions \in Seq({"connector", "workflow"}) /\ results \in Seq([kind: Kinds, errors: Nat])
      /\ DOMAIN results = {} /\ Len(results) = 0
  BY EmptySeq, LenProperties
<1>2. wf \in Workflows /\ co \in Connectors
  BY ConfigCount, NoConnectorIs DEF Workflows
<1>3. TypeOK
  <2>1. aborts \in 0..MaxAborts /\ tried \in [Configs -> Nat]
    OBVIOUS
  <2>2. /\ internal \in BOOLEAN /\ timed \in BOOLEAN /\ unresolved \in BOOLEAN
        /\ handshakes \in Nat /\ orphan \in BOOLEAN
        /\ raised \subseteq {"abort", "timeout", "completion", "done"}
    OBVIOUS
  <2>. QED  BY ONLY <1>1, <1>2, <2>1, <2>2 DEF TypeOK, Workflows, Connectors
<1>4. ConnectorShape /\ OneThing /\ Reported
  BY NoConnectorIs DEF ConnectorShape, OneThing, Reported
<1>5. Position
  BY NoConnectorIs, ConfigCount DEF Position
<1>6. OneHandshake /\ NotAborted
  BY NoConnectorIs DEF OneHandshake, NotAborted
<1>7. OutcomeReported
  <2>1. \A c \in Configs : tried[c] <= Total(Attempts, c)
    BY Totals
  <2>. QED  BY <1>1, <2>1 DEF OutcomeReported, ReportedOnce, AttemptsCounted, Total
<1>. QED  BY <1>3, <1>4, <1>5, <1>6, <1>7 DEF WorkflowInv

\* A callback that lands keeps the invariant.
LEMMA LandedKeeps ==
    ASSUME WorkflowInv, Landed, UNCHANGED <<options, aborts, handshakes>>,
           completions' \in Seq({"connector", "workflow"}), unresolved' \in BOOLEAN,
           orphan' \in BOOLEAN, aborts = 0 => ~orphan',
           internal /\ handshakes = 1 => wf'.state = "DONE"
    PROVE  WorkflowInv'
<1>1. TypeOK'
  BY DEF WorkflowInv, TypeOK, Landed, Workflows, Connectors, Results, options
<1>2. OneHandshake'
  BY DEF WorkflowInv, OneHandshake, options
<1>3. NotAborted'
  BY DEF NotAborted, Landed
<1>4. AttemptsCounted'
  <2>1. internal' => handshakes' <= 1
    BY <1>2 DEF OneHandshake
  <2>2. Exact' <=> ~internal' /\ ~unresolved'
    BY DEF Exact
  <2>. QED  BY <2>1, <2>2 DEF AttemptsCounted, Landed, Total
<1>. QED  BY <1>1, <1>2, <1>3, <1>4 DEF WorkflowInv, Landed, OutcomeReported

\* The tasks of the workflow.
LEMMA TasksKeep ==
    ASSUME WorkflowInv, CycleTimer \/ ConfigTimer \/ Resolved \/ Unresolved
    PROVE  WorkflowInv'
<1>1. TypeOK /\ OneThing /\ Reported /\ Position /\ wf \in Workflows /\ wf.task # "none"
  BY DEF WorkflowInv, TypeOK, Workflows, CycleTimer, ConfigTimer, Resolved, Unresolved
<1>2. /\ UNCHANGED <<completions, options, aborts, handshakes, orphan>>
      /\ unresolved' \in BOOLEAN /\ wf.state \in {"ACTIVE", "ABORTING"} /\ results = <<>>
      /\ (Exact' => Exact) /\ wf.attempts \in 0 .. Attempts /\ Attempts \in Nat
  BY <1>1, ConfigsAssumption DEF CycleTimer, ConfigTimer, Resolved, Unresolved, TypeOK, OneThing,
     Reported, Workflows, Exact, options
<1>3. \A t \in [Configs -> Nat] : \A k, c, left :
        At(t, k, c, left, Exact) => At(t, k, c, left, Exact')
  BY <1>2 DEF At
<1>. DEFINE w == [wf EXCEPT !.task = "none"]
<1>4. /\ w \in Workflows /\ w.state = wf.state /\ w.task = "none" /\ w.config = wf.config
      /\ w.attempts = wf.attempts /\ w.errors = wf.errors
  BY <1>1 DEF Workflows
<1>5. Going(w)
  BY <1>1, <1>2, <1>4 DEF Going, TypeOK, Position, Results, options
<1>. HIDE DEF w
<1>6. Landed
  <2>1. CASE CycleTimer
    <3>1. /\ StartNewCycle(w) /\ wf.attempts = Attempts /\ \A c \in Configs : tried[c] = 0
      BY <1>1, <2>1 DEF CycleTimer, Position, w
    <3>2. Attempts - w.attempts = 0 /\ w.attempts # 0
      BY <1>4, <3>1, ConfigsAssumption
    <3>3. \A c \in Configs : tried[c] = Total(0, c) /\ tried[c] <= Total(0, c)
      BY <3>1, Totals
    <3>. QED  BY <1>5, <3>1, <3>2, <3>3, StartNewCycleLands
  <2>2. CASE ConfigTimer
    <3>1. /\ TryNextConfig(w) /\ w.config = 0 /\ w.attempts < Attempts
          /\ At(tried, Attempts - w.attempts, 0, 0, Exact)
      BY <1>1, <1>4, <2>2 DEF ConfigTimer, Position, Cycle, w
    <3>2. At(tried, Attempts - w.attempts, w.config, 0, Exact')
      BY <1>3, <1>5, <3>1 DEF Going
    <3>. QED  BY <1>5, <3>1, <3>2, TryNextConfigLands
  <2>3. CASE Resolved
    <3>. DEFINE r == [wf EXCEPT !.task = "none", !.addrs = Addresses[wf.config]]
    <3>1. /\ TryNextAddress(r) /\ wf.config > 0 /\ wf.attempts < Attempts
          /\ At(tried, Attempts - wf.attempts, wf.config, Addresses[wf.config], Exact)
      BY <1>1, <2>3 DEF Resolved, Position, Cycle
    <3>2. Addresses[wf.config] \in Nat /\ Addresses[wf.config] > 0
      BY <1>1, <3>1, ConfigCount, Totals DEF Workflows
    <3>3. /\ r \in Workflows /\ r.state = wf.state /\ r.task = "none" /\ r.config = wf.config
          /\ r.attempts = wf.attempts /\ r.addrs = Addresses[wf.config]
      BY <1>1, <3>2 DEF Workflows
    <3>4. Going(r)
      BY <1>4, <1>5, <3>3 DEF Going
    <3>. HIDE DEF r
    <3>5. At(tried, Attempts - r.attempts, r.config, r.addrs, Exact')
      BY <1>3, <1>5, <3>1, <3>3 DEF Going
    <3>. QED  BY <3>1, <3>2, <3>3, <3>4, <3>5, TryNextAddressLands
  <2>4. CASE Unresolved
    <3>. DEFINE u == [wf EXCEPT !.task = "none", !.errors = @ + 1]
    <3>1. /\ StartNewCycle(u) /\ wf.config > 0 /\ wf.attempts < Attempts /\ ~Exact'
          /\ At(tried, Attempts - wf.attempts, wf.config, Addresses[wf.config], Exact)
      BY <1>1, <2>4 DEF Unresolved, Position, Cycle, Exact
    <3>2. /\ u \in Workflows /\ u.state = wf.state /\ u.task = "none" /\ u.config = wf.config
          /\ u.attempts = wf.attempts /\ u.errors > 0
      <4>1. wf.errors \in Nat /\ wf.errors + 1 \in Nat /\ wf.errors + 1 > 0
        BY <1>1 DEF Workflows
      <4>2. u = [wf EXCEPT !.task = "none", !.errors = wf.errors + 1]
        OBVIOUS
      <4>. HIDE DEF u
      <4>. QED  BY <1>1, <4>1, <4>2 DEF Workflows
    <3>3. Going(u)
      BY <1>4, <1>5, <3>2 DEF Going
    <3>. HIDE DEF u
    <3>4. /\ Attempts - wf.attempts \in Nat /\ Attempts - wf.attempts - 1 \in Nat
          /\ wf.config \in Configs
      BY <1>1, <1>2, <3>1, ConfigCount DEF Workflows
    <3>5. ASSUME NEW c \in Configs PROVE tried[c] <= Total(Attempts - wf.attempts, c)
      <4>. DEFINE k == Attempts - wf.attempts
      <4>1. /\ Total(k, c) \in Nat /\ Total(k - 1, c) \in Nat /\ Total(k - 1, c) <= Total(k, c)
            /\ Addresses[wf.config] \in Nat /\ c \in Nat /\ wf.config \in Nat
        <5>1. k \in Nat /\ k - 1 \in Nat /\ k - 1 <= k /\ c \in Nat /\ wf.config \in Nat
          BY <3>4, ConfigCount
        <5>. HIDE DEF k
        <5>. QED  BY <3>4, <5>1, Totals
      <4>2. tried[c] <= Mark(k, wf.config, Addresses[wf.config], c) /\ tried[c] \in Nat
        BY <1>5, <3>1 DEF At, Going
      <4>. HIDE DEF k
      <4>3. tried[c] <= Total(k, c)
        BY <4>1, <4>2 DEF Mark
      <4>. QED  BY <4>3 DEF k
    <3>. QED  BY <3>1, <3>2, <3>3, <3>5, StartNewCycleLands
  <2>. QED  BY <2>1, <2>2, <2>3, <2>4
<1>7. internal => handshakes # 1
  BY <1>1, <1>2, NoConnectorIs DEF WorkflowInv, OneHandshake, OneThing
<1>8. orphan' \in BOOLEAN /\ (aborts = 0 => ~orphan')
  BY <1>1, <1>2 DEF WorkflowInv, NotAborted, TypeOK
<1>9. completions' \in Seq({"connector", "workflow"})
  BY <1>1, <1>2 DEF TypeOK
<1>. QED  BY <1>2, <1>6, <1>7, <1>8, <1>9, LandedKeeps

\* The end of a connector before its handshake.
LEMMA FailuresKeep ==
    ASSUME WorkflowInv, NEW result, OnConnectorDone(result),
           co.state \in {"TCP", "TRANSPORT"},
           UNCHANGED <<completions, options, aborts, unresolved, handshakes, orphan>>
    PROVE  WorkflowInv'
<1>1. TypeOK /\ ConnectorShape /\ OneThing
  BY DEF WorkflowInv
<1>2. Landed
  BY OnConnectorDoneLands
<1>3. internal => handshakes # 1
  BY <1>1, NoConnectorIs DEF WorkflowInv, OneHandshake, OneThing, ConnectorShape
<1>4. /\ orphan' \in BOOLEAN /\ (aborts = 0 => ~orphan') /\ unresolved' \in BOOLEAN
      /\ completions' \in Seq({"connector", "workflow"})
  BY <1>1 DEF WorkflowInv, NotAborted, TypeOK
<1>. QED  BY <1>2, <1>3, <1>4, LandedKeeps

\* The end of the handshake.
LEMMA HandshakeKeeps ==
    ASSUME WorkflowInv, HandshakeEnds
    PROVE  WorkflowInv'
<1>1. TypeOK /\ ConnectorShape /\ OneThing /\ NotAborted
  BY DEF WorkflowInv
<1>2. PICK opened \in BOOLEAN : HandshakeDone(opened)
  BY DEF HandshakeEnds
<1>. DEFINE result == CASE co.state = "ABORTING" -> "aborted"
                        [] co.state = "TIMEOUT" -> "handshakeError"
                        [] OTHER -> IF opened THEN "connection"
                                    ELSE IF co.conn = "closing" THEN "openAborted"
                                    ELSE "handshakeError"
<1>3. /\ OnConnectorDone(result) /\ co.conn # "none" /\ (opened => co.conn = "opening")
      /\ UNCHANGED <<completions, options, aborts, unresolved, handshakes>>
      /\ orphan' = (orphan \/ (opened /\ co.state # "AMQP"))
  BY <1>2 DEF HandshakeDone
<1>4. result \in {"connection", "aborted", "openAborted", "handshakeError"}
  OBVIOUS
<1>. HIDE DEF result
<1>5. co.state \in {"AMQP", "TIMEOUT", "ABORTING"}
  BY <1>1, <1>3, NoConnectorIs DEF ConnectorShape, TypeOK
<1>6. Landed /\ (internal => wf'.state = "DONE")
  BY <1>3, <1>4, <1>5, OnConnectorDoneLands
<1>7. orphan' \in BOOLEAN /\ (aborts = 0 => ~orphan')
  BY <1>1, <1>3, <1>5 DEF NotAborted, TypeOK
<1>8. unresolved' \in BOOLEAN /\ completions' \in Seq({"connector", "workflow"})
  BY <1>1, <1>3 DEF TypeOK
<1>. QED  BY <1>3, <1>6, <1>7, <1>8, LandedKeeps

\* What a step that reports nothing leaves alone.
LEMMA NothingReported ==
    ASSUME WorkflowInv, UNCHANGED <<results, tried, unresolved, internal>>,
           wf'.state = "DONE" <=> wf.state = "DONE",
           OneHandshake'
    PROVE  Reported' /\ OutcomeReported'
<1>1. Reported'
  BY DEF WorkflowInv, Reported
<1>2. ReportedOnce'
  BY DEF WorkflowInv, OutcomeReported, ReportedOnce
<1>3. internal' => handshakes' <= 1
  BY DEF OneHandshake
<1>4. AttemptsCounted'
  BY <1>3 DEF WorkflowInv, OutcomeReported, AttemptsCounted
<1>. QED  BY <1>1, <1>2, <1>4 DEF OutcomeReported

\* The completion that abort() queued.
LEMMA CompletionKeeps == ASSUME WorkflowInv, Completion PROVE WorkflowInv'
<1>1. TypeOK /\ OneThing /\ Reported /\ Position /\ NotAborted /\ wf \in Workflows
  BY DEF WorkflowInv, TypeOK, Workflows
<1>2. /\ completions' \in Seq({"connector", "workflow"})
      /\ UNCHANGED <<options, aborts, unresolved, handshakes, orphan>>
  BY <1>1, HeadTailProperties DEF Completion, TypeOK
<1>3. CASE wf.state = "DONE"
  <2>1. /\ raised' \subseteq {"abort", "timeout", "completion", "done"}
        /\ UNCHANGED <<wf, co, results, tried, internal, timed>>
    BY <1>1, <1>2, <1>3 DEF Completion, TypeOK, options
  <2>2. TypeOK'
    BY <1>1, <1>2, <2>1 DEF TypeOK
  <2>3. ConnectorShape' /\ OneThing' /\ OneHandshake' /\ NotAborted'
    BY <1>2, <1>3, <2>1 DEF WorkflowInv, ConnectorShape, OneThing, OneHandshake, NotAborted, options
  <2>4. Position'
    BY <1>1, <1>2, <2>1 DEF Position, LastConfig, Exact, Cycle
  <2>. QED  BY <1>2, <2>1, <2>2, <2>3, <2>4, NothingReported DEF WorkflowInv
<1>4. CASE wf.state # "DONE"
  <2>1. Report(wf, "aborted")
    BY <1>4 DEF Completion
  <2>. DEFINE w == [wf EXCEPT !.task = "none"]
  <2>2. /\ w \in Workflows /\ w.state = wf.state /\ w.task = "none" /\ w.config = wf.config
        /\ w.errors = wf.errors /\ [w EXCEPT !.state = "DONE", !.task = "none"]
                                       = [wf EXCEPT !.state = "DONE", !.task = "none"]
    BY <1>1 DEF Workflows
  <2>3. Report(w, "aborted")
    <3>. HIDE DEF w
    <3>. QED  BY <2>1, <2>2 DEF Report
  <2>. HIDE DEF w
  <2>4. wf.state \in {"ACTIVE", "ABORTING"}
    BY <1>1, <1>4 DEF Completion, OneThing, Workflows
  <2>5. Going(w)
    BY <1>1, <1>2, <1>4, <2>2, <2>4 DEF Going, Reported, TypeOK, Position, Results, options
  <2>6. \A c \in Configs : tried[c] <= Total(Attempts, c)
    BY DEF WorkflowInv, OutcomeReported, AttemptsCounted, Total
  <2>7. Landed /\ wf'.state = "DONE"
    BY <2>3, <2>5, <2>6, ReportLands DEF Kinds
  <2>8. orphan' \in BOOLEAN /\ (aborts = 0 => ~orphan') /\ unresolved' \in BOOLEAN
    BY <1>1, <1>2 DEF NotAborted, TypeOK
  <2>. QED  BY <1>2, <2>7, <2>8, LandedKeeps
<1>. QED  BY <1>3, <1>4

\* The steps of a connector that goes on.
LEMMA ConnectorKeeps ==
    ASSUME WorkflowInv, TcpConnected \/ TransportLinked
    PROVE  WorkflowInv'
<1>1. /\ TypeOK /\ ConnectorShape /\ OneThing /\ Position /\ NotAborted /\ OneHandshake
      /\ wf \in Workflows /\ co \in Connectors /\ co.task # "none" /\ co # NoConnector
  BY NoConnectorIs DEF WorkflowInv, TypeOK, Workflows, Connectors, TcpConnected, TransportLinked
<1>2. /\ UNCHANGED <<wf, completions, internal, timed, results, raised, aborts, tried,
                     unresolved, orphan>>
      /\ handshakes' \in Nat
  BY <1>1 DEF TcpConnected, TransportLinked, options, history, TypeOK
<1>3. co' \in Connectors /\ co'.state # "DONE" /\ co.state # "DONE"
  BY <1>1 DEF TcpConnected, TransportLinked, Connectors, ConnectorShape
<1>4. TypeOK'
  BY <1>1, <1>2, <1>3 DEF TypeOK, Connectors
<1>5. ConnectorShape'
  BY <1>1 DEF TcpConnected, TransportLinked, Connectors, ConnectorShape
<1>6. wf.task = "none" /\ wf.state \notin {"INIT", "DONE"}
  BY <1>1 DEF OneThing
<1>7. OneThing'
  BY <1>2, <1>6 DEF OneThing
<1>8. Position'
  BY <1>1, <1>2, <1>3, <1>6 DEF Position, LastConfig, Exact, Cycle
<1>9. OneHandshake'
  <2>1. co.conn = "none"
    BY <1>1, <1>3 DEF ConnectorShape, Connectors
  <2>2. internal => handshakes = 0
    BY <1>1, <1>6, <2>1 DEF OneHandshake
  <2>3. CASE TcpConnected
    <3>1. handshakes' = handshakes
      BY <2>3 DEF TcpConnected, history
    <3>. QED  BY <1>2, <2>2, <3>1 DEF OneHandshake
  <2>4. CASE TransportLinked
    <3>1. co'.conn = "opening" /\ handshakes' = handshakes + 1
      BY <1>1, <2>4 DEF TransportLinked, Connectors
    <3>. QED  BY <1>2, <2>2, <3>1 DEF OneHandshake
  <2>. QED  BY <2>3, <2>4
<1>10. NotAborted'
  BY <1>1, <1>2 DEF NotAborted, TcpConnected, TransportLinked, Connectors
<1>. QED  BY <1>2, <1>4, <1>5, <1>7, <1>8, <1>9, <1>10, NothingReported DEF WorkflowInv

\* The overall timeout.
LEMMA StackTimeoutKeeps == ASSUME WorkflowInv, StackTimeout PROVE WorkflowInv'
<1>1. /\ TypeOK /\ ConnectorShape /\ OneThing /\ Position /\ NotAborted /\ OneHandshake
      /\ wf \in Workflows /\ co \in Connectors /\ co # NoConnector
      /\ UNCHANGED <<completions, options, aborts, unresolved, handshakes, orphan>>
  BY NoConnectorIs DEF WorkflowInv, TypeOK, Workflows, Connectors, StackTimeout
<1>2. CASE \/ co.state = "TCP" /\ OnConnectorDone("socketError")
           \/ co.state = "TRANSPORT" /\ OnConnectorDone("transportError")
  BY <1>1, <1>2, FailuresKeep
<1>3. CASE /\ co.state \in {"AMQP", "ABORTING"} /\ UNCHANGED <<wf, results, tried>>
           /\ \/ StackTimeoutInAmqp
              \/ /\ co.state = "ABORTING" /\ raised' = raised \cup {"timeout"}
                 /\ co' = [co EXCEPT !.state = "TIMEOUT", !.timers = @ \ {"stack"}]
  <2>1. /\ co' \in Connectors /\ co'.state = "TIMEOUT" /\ co'.task = "none" /\ co'.conn # "none"
        /\ co'.timers = {} /\ co.state # "DONE" /\ co.conn # "none"
        /\ (aborts = 0 => co'.conn = "closing")
        /\ raised' \subseteq {"abort", "timeout", "completion", "done"}
    <3>1. /\ co.task = "none" /\ co.timers \subseteq {"stack"} /\ co.conn # "none"
          /\ (aborts = 0 => co.state = "AMQP")
      BY <1>1, <1>3 DEF ConnectorShape, StackTimeout, Connectors, NotAborted
    <3>2. co.timers \ {"stack"} = {} /\ co.state # "DONE"
      BY <1>3, <3>1 DEF StackTimeoutInAmqp
    <3>3. raised' \subseteq {"abort", "timeout", "completion", "done"}
      BY <1>1, <1>3 DEF StackTimeoutInAmqp, TypeOK
    <3>4. /\ co' \in Connectors /\ co'.state = "TIMEOUT" /\ co'.task = co.task
          /\ co'.timers = co.timers \ {"stack"} /\ co'.conn \in {co.conn, "closing"}
          /\ co.state = "AMQP" => co'.conn = "closing"
      BY <1>1, <1>3 DEF StackTimeoutInAmqp, Connectors
    <3>. QED  BY <3>1, <3>2, <3>3, <3>4
  <2>2. TypeOK'
    BY <1>1, <1>3, <2>1 DEF TypeOK, Connectors, options
  <2>3. wf.task = "none" /\ wf.state \notin {"INIT", "DONE"}
    BY <1>1 DEF OneThing
  <2>4. ConnectorShape' /\ OneThing' /\ OneHandshake' /\ NotAborted'
    BY <1>1, <1>3, <2>1, <2>3 DEF ConnectorShape, OneThing, OneHandshake, NotAborted, options
  <2>5. Position'
    BY <1>1, <1>3, <2>1, <2>3 DEF Position, LastConfig, Exact, Cycle, options
  <2>. QED  BY <1>1, <1>3, <2>2, <2>4, <2>5, NothingReported DEF WorkflowInv, options
<1>. QED  BY <1>2, <1>3 DEF StackTimeout, StackTimeoutInAmqp

\* abort() and close(), and the start.
LEMMA CallsKeep ==
    ASSUME WorkflowInv, Start \/ Abort \/ UserClose
    PROVE  WorkflowInv'
<1>1. /\ TypeOK /\ ConnectorShape /\ OneThing /\ Position /\ NotAborted /\ OneHandshake
      /\ wf \in Workflows /\ co \in Connectors
  BY DEF WorkflowInv, TypeOK, Workflows, Connectors
<1>2. CASE Start
  <2>1. /\ UNCHANGED <<co, completions, internal, timed, results, raised, aborts, tried,
                       unresolved, handshakes, orphan>>
        /\ wf.state = "INIT" /\ wf' = [wf EXCEPT !.state = "ACTIVE", !.task = "cycle"]
    BY <1>2 DEF Start, options, history
  <2>2. /\ wf' \in Workflows /\ wf'.state = "ACTIVE" /\ wf'.task = "cycle"
        /\ wf'.config = wf.config /\ wf'.attempts = wf.attempts
    BY <1>1, <2>1 DEF Workflows
  <2>3. TypeOK'
    BY <1>1, <2>1, <2>2 DEF TypeOK, Workflows
  <2>4. co = NoConnector
    BY <1>1, <2>1 DEF OneThing
  <2>5. ConnectorShape' /\ OneThing' /\ OneHandshake' /\ NotAborted'
    BY <1>1, <2>1, <2>2, <2>4 DEF ConnectorShape, OneThing, OneHandshake, NotAborted
  <2>6. Position'
    BY <1>1, <2>1, <2>2, <2>4, NoConnectorIs DEF Position, LastConfig
  <2>. QED  BY <2>1, <2>2, <2>3, <2>5, <2>6, NothingReported DEF WorkflowInv
<1>3. CASE (Abort \/ UserClose) /\ WorkflowAbort
  <2>1. /\ UNCHANGED <<internal, timed, results, tried, unresolved, handshakes, orphan>>
        /\ aborts' \in 0..MaxAborts /\ aborts' # 0
    BY <1>1, <1>3, ConfigsAssumption DEF Abort, UserClose, WorkflowAbort, options, history, TypeOK
  <2>2. /\ wf' \in Workflows /\ wf'.state = "ABORTING" /\ wf'.task = "none"
        /\ wf'.config = wf.config /\ wf'.attempts = wf.attempts /\ wf'.addrs = wf.addrs
        /\ wf.state \in {"ACTIVE", "ABORTING"}
    BY <1>1, <1>3 DEF WorkflowAbort, Workflows
  <2>3. CASE co.state = "DONE"
    <3>1. co' = co /\ raised' = raised /\ completions' = Append(completions, "workflow")
      BY <1>3, <2>3 DEF WorkflowAbort
    <3>2. completions' \in Seq({"connector", "workflow"})
      BY <1>1, <3>1, AppendProperties DEF TypeOK
    <3>3. TypeOK'
      BY <1>1, <2>1, <2>2, <3>1, <3>2 DEF TypeOK, Workflows
    <3>4. ConnectorShape' /\ OneThing' /\ OneHandshake' /\ NotAborted'
      BY <1>1, <2>1, <2>2, <3>1 DEF ConnectorShape, OneThing, OneHandshake, NotAborted
    <3>5. Position'
      BY <1>1, <2>1, <2>2, <2>3, <3>1 DEF Position, LastConfig, Exact, Cycle
    <3>. QED  BY <2>1, <2>2, <3>3, <3>4, <3>5, NothingReported DEF WorkflowInv
  <2>4. CASE co.state # "DONE"
    <3>1. ConnectorAbort
      BY <1>3, <2>4 DEF WorkflowAbort
    <3>2. /\ co' \in Connectors /\ co'.state = "ABORTING" /\ co'.conn = co.conn
          /\ co'.task = "none" /\ (co'.conn = "none" => co'.timers = {}) /\ "tcp" \notin co'.timers
          /\ raised' \subseteq {"abort", "timeout", "completion", "done"}
      BY <1>1, <2>4, <3>1 DEF ConnectorAbort, Connectors, ConnectorShape, TypeOK
    <3>3. completions' \in Seq({"connector", "workflow"})
      <4>1. completions' \in {completions, Append(completions, "connector")}
        BY <3>1 DEF ConnectorAbort
      <4>2. completions \in Seq({"connector", "workflow"})
        BY <1>1 DEF TypeOK
      <4>3. Append(completions, "connector") \in Seq({"connector", "workflow"})
        BY <4>2, AppendProperties
      <4>. QED  BY <4>1, <4>2, <4>3
    <3>4. TypeOK'
      BY <1>1, <2>1, <2>2, <3>2, <3>3 DEF TypeOK, Workflows, Connectors
    <3>5. ConnectorShape' /\ OneThing' /\ OneHandshake' /\ NotAborted'
      BY <1>1, <2>1, <2>2, <3>2 DEF ConnectorShape, OneThing, OneHandshake, NotAborted
    <3>6. Position'
      BY <1>1, <2>1, <2>2, <2>4, <3>2 DEF Position, LastConfig, Exact, Cycle
    <3>. QED  BY <2>1, <2>2, <3>4, <3>5, <3>6, NothingReported DEF WorkflowInv
  <2>. QED  BY <2>3, <2>4
<1>4. CASE UserClose /\ ~WorkflowAbort
  <2>1. /\ UNCHANGED <<wf, completions, raised, results, internal, timed, tried, unresolved,
                       handshakes, orphan>>
        /\ aborts' \in 0..MaxAborts /\ aborts' # 0
        /\ co.conn = "opening" /\ co' = [co EXCEPT !.conn = "closing"]
    BY <1>1, <1>4, ConfigsAssumption DEF UserClose, options, history, TypeOK
  <2>2. /\ co' \in Connectors /\ co'.state = co.state /\ co'.task = co.task
        /\ co'.timers = co.timers /\ co'.conn = "closing" /\ co # NoConnector /\ co.state # "DONE"
    BY <1>1, <2>1, NoConnectorIs DEF Connectors, ConnectorShape
  <2>3. TypeOK'
    BY <1>1, <2>1, <2>2 DEF TypeOK, Connectors
  <2>4. wf.task = "none" /\ wf.state \notin {"INIT", "DONE"}
    BY <1>1, <2>2 DEF OneThing
  <2>5. ConnectorShape' /\ OneThing' /\ OneHandshake' /\ NotAborted'
    BY <1>1, <2>1, <2>2, <2>4 DEF ConnectorShape, OneThing, OneHandshake, NotAborted
  <2>6. Position'
    BY <1>1, <2>1, <2>2, <2>4 DEF Position, LastConfig, Exact, Cycle
  <2>. QED  BY <2>1, <2>3, <2>5, <2>6, NothingReported DEF WorkflowInv
<1>. QED  BY <1>2, <1>3, <1>4 DEF Abort

\* The invariant is inductive.
LEMMA NextWorkflow == ASSUME WorkflowInv, [Next]_vars PROVE WorkflowInv'
<1>1. TypeOK /\ ConnectorShape /\ co \in Connectors
  BY DEF WorkflowInv, TypeOK, Connectors
<1>2. CASE TcpFailed \/ TcpTimeout \/ TransportFailed
  <2>1. co.state \in {"TCP", "TRANSPORT"}
    BY <1>1, <1>2 DEF TcpFailed, TcpTimeout, TransportFailed, ConnectorShape, Connectors,
       NoConnector
  <2>2. /\ \E result \in {"socketError", "transportError"} : OnConnectorDone(result)
        /\ UNCHANGED <<completions, options, aborts, unresolved, handshakes, orphan>>
    BY <1>2 DEF TcpFailed, TcpTimeout, TransportFailed
  <2>. QED  BY <2>1, <2>2, FailuresKeep
<1>3. CASE UNCHANGED vars
  <2>1. UNCHANGED <<wf, co, completions, internal, timed, results, raised, aborts, tried,
                    unresolved, handshakes, orphan>>
    BY <1>3 DEF vars, options, history
  <2>2. TypeOK' /\ ConnectorShape' /\ OneThing' /\ OneHandshake' /\ NotAborted'
    BY <2>1 DEF WorkflowInv, TypeOK, ConnectorShape, OneThing, OneHandshake, NotAborted
  <2>3. Position'
    BY <2>1 DEF WorkflowInv, Position, LastConfig, Exact, Cycle
  <2>. QED  BY <2>1, <2>2, <2>3, NothingReported DEF WorkflowInv
<1>. QED  BY <1>2, <1>3, TasksKeep, HandshakeKeeps, CompletionKeeps, ConnectorKeeps,
             StackTimeoutKeeps, CallsKeep DEF Next

-----------------------------------------------------------------------------
\* The workflow, its connector and the history of its attempts fit together at
\* every callback.
THEOREM WorkflowInvariant == Spec => []WorkflowInv
<1>1. WorkflowInv /\ [Next]_vars => WorkflowInv'
  BY NextWorkflow
<1>. QED  BY <1>1, InitWorkflow, PTL DEF Spec

\* The workflow is well typed: its counts of attempts, configurations and
\* addresses stay within their bounds.
THEOREM WorkflowTypeCorrect == Spec => []TypeOK
<1>1. WorkflowInv => TypeOK
  BY DEF WorkflowInv
<1>. QED  BY <1>1, WorkflowInvariant, PTL

\* on_done is called once and with the outcome of the attempts asked for, however
\* timers, tasks, the handshake and aborts race.
THEOREM OutcomeIsReported == Spec => []OutcomeReported
<1>1. WorkflowInv => OutcomeReported
  BY DEF WorkflowInv
<1>. QED  BY <1>1, WorkflowInvariant, PTL

\* Without an abort no connection that opens late stays open.
THEOREM AbandonedCloses == Spec => []AbandonedConnectionCloses
<1>1. WorkflowInv => AbandonedConnectionCloses
  BY DEF WorkflowInv, NotAborted, AbandonedConnectionCloses
<1>. QED  BY <1>1, WorkflowInvariant, PTL
=============================================================================
