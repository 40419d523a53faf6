------------------------ MODULE StreamServicesProofs ------------------------
(***************************************************************************)
(* Proofs about StreamServices: one outcome of every service, and the      *)
(* events, actions and buffers of a transport, for any number of bytes and *)
(* records and any size of the socket's send buffer.                       *)
(***************************************************************************)
EXTENDS StreamServices, SequenceTheorems, TLAPS

Services == [kind : Kinds, ok : BOOLEAN,
             state : {"active", "canceled", "completed", "failed", "aborted"}]
Loops == [queue : Seq(Callbacks), reader : {None, "handshake", "transport"},
          writer : {None, "connect", "handshake", "transport"}]
Actions == [read : {None, "consume", "produce"}, write : {None, "consume", "produce"}]
Runs == [what : {"idle", "handshake", "consume", "produce"}, n : 0..MaxConsume,
         inData : BOOLEAN]
Buffers == [buffers : Seq(Seq(1..MaxWritten)), count : 0..MaxWritten,
            written : 0..MaxWritten, sent : Seq(1..MaxWritten)]
Engines == [on : BOOLEAN, todo : Seq({"write", "read"}), pending : Nat]
Wires == [open : BOOLEAN, connect : {"no", "pending", "ok", "failed"},
          rx : Seq({"app", "hs", "eof", "reset"}), room : 0..MaxRoom, owed : Int,
          records : Int]

Typed ==
    /\ service \in Services
    /\ thread \in {"waiting", "resolving", "resolved", "done"}
    /\ loop \in Loops /\ actions \in Actions /\ run \in Runs /\ tx \in Buffers
    /\ ssl \in Engines /\ wire \in Wires

-----------------------------------------------------------------------------
(* The services, one after the other.                                      *)

Former(kind) ==
    CASE kind = "resolver" -> {}
      [] kind = "socket" -> {"resolver"}
      [] kind = "stream" -> {"resolver", "socket"}
      [] kind = "transport" -> {"resolver", "socket", "stream"}
Over(k) == k \in Former(service.kind) \/ (k = service.kind /\ service.state = "completed")

\* The end of a service that is over was reported, and no other; only what is
\* canceled is not reported, and only a transport fails or is aborted.
Outcomes ==
    /\ reports = [k \in Kinds |-> IF Over(k) THEN 1 ELSE 0]
    /\ canceled = IF service.state = "canceled" THEN {service.kind} ELSE {}
    /\ service.state \in {"failed", "aborted"} => service.kind = "transport"
    /\ service.kind = "transport" => service.state # "canceled"

\* The loop is in what the service at work does.
RunsService ==
    /\ run.what = "handshake" => At("stream") /\ ssl.on
    /\ run.what = "produce" => At("transport")
    /\ run.what = "consume" => service.kind = "transport"
    /\ run.inData => run.what = "consume"

Holds(queue, callback) == \E i \in DOMAIN queue : queue[i] = callback
Once(queue, callback) ==
    \A i, j \in DOMAIN queue : queue[i] = callback /\ queue[j] = callback => i = j
InQueue(callback) == Holds(loop.queue, callback)

\* What is queued and registered while the connectors are at work.
ConnectorEvents ==
    /\ service.kind = "resolver" =>
           ~InQueue("startSocket") /\ loop.reader = None /\ loop.writer = None
    /\ service.kind = "socket" =>
           /\ Once(loop.queue, "startSocket")
           /\ loop.reader = None /\ (InQueue("startSocket") => loop.writer = None)
    /\ service.kind = "stream" /\ ~ssl.on => loop.reader = None /\ loop.writer = None
    /\ service.kind # "transport" \/ service.state = "active" =>
           ~InQueue("lost") /\ ~InQueue("failed")
    /\ service.state # "active" => loop.reader = None /\ loop.writer = None
    /\ ~wire.open => service.kind \in {"stream", "transport"} /\ service.state # "active"

-----------------------------------------------------------------------------
(* The transport.                                                          *)

\* Nothing is written before there is a transport.
Unused ==
    /\ actions = [read |-> None, write |-> None]
    /\ tx = [buffers |-> <<>>, count |-> 0, written |-> 0, sent |-> <<>>]

\* The bytes are in order, and those that are not sent are counted.
Start(buffers, sent, k) == IF k = 1 THEN Len(sent) ELSE Last(buffers[k - 1])
Ordering(buffers, sent, written) ==
    /\ \A i \in DOMAIN sent : sent[i] = i
    /\ \A k \in DOMAIN buffers :
           /\ buffers[k] # <<>>
           /\ \A i \in DOMAIN buffers[k] : buffers[k][i] = Start(buffers, sent, k) + i
    /\ \A j, k \in 1..(Len(buffers) + 1) :
           j <= k => Start(buffers, sent, j) <= Start(buffers, sent, k)
    /\ written = Start(buffers, sent, Len(buffers) + 1)
Ordered ==
    /\ Ordering(tx.buffers, tx.sent, tx.written) /\ tx.count = tx.written - Len(tx.sent)

PlainEvents ==
    /\ loop.reader = "transport"
    /\ IF run.what = "produce" THEN loop.writer # None
       ELSE loop.writer # None <=> tx.buffers # <<>>

\* The actions that the events of a TLS transport can have.
ActionPairs == {<<"consume", None>>, <<"consume", "produce">>, <<None, "consume">>,
                <<"produce", None>>}
TlsEvents ==
    /\ loop.reader # None <=> actions.read # None
    /\ loop.writer # None <=> actions.write # None
    /\ <<actions.read, actions.write>> \in ActionPairs
    /\ tx.buffers # <<>> => <<actions.read, actions.write>> # <<"consume", None>>
    /\ run.what \in {"consume", "produce"} => run.what \in {actions.read, actions.write}
    /\ actions.read = None => ssl.pending = 0
    /\ run.what = "idle" /\ actions.read = "produce" => tx.buffers # <<>>
    /\ run.what = "idle" /\ ssl.pending > 0 => InQueue("readable")

TransportInv ==
    /\ service.kind # "transport" => Unused
    /\ At("transport") => Ordered
    /\ At("transport") /\ ~ssl.on => PlainEvents
    /\ At("transport") /\ ssl.on => TlsEvents

ServicesInv == Typed /\ Outcomes /\ RunsService /\ ConnectorEvents /\ TransportInv

-----------------------------------------------------------------------------
(* The loop's queue.                                                       *)

\* A callback that is queued comes after the others; nothing else changes.
LEMMA QueuedLoop ==
    ASSUME NEW l \in Loops, NEW c \in Callbacks
    PROVE  /\ Queued(l, c) \in Loops
           /\ Queued(l, c).reader = l.reader /\ Queued(l, c).writer = l.writer
           /\ \A d : Holds(Queued(l, c).queue, d) <=> Holds(l.queue, d) \/ d = c
           /\ \A d : ~Holds(l.queue, d) => Once(Queued(l, c).queue, d)
<1> DEFINE q == l.queue
<1>1. q \in Seq(Callbacks)
  BY DEF Loops
<1>2. Queued(l, c) = [queue |-> Append(q, c), reader |-> l.reader, writer |-> l.writer]
  <2> DEFINE p == Append(q, c)
  <2>1. Queued(l, c) = [l EXCEPT !.queue = p]
    BY DEF Queued, Loops
  <2> HIDE DEF p, q
  <2>2. [l EXCEPT !.queue = p] = [queue |-> p, reader |-> l.reader, writer |-> l.writer]
    BY DEF Loops
  <2> QED
    BY <2>1, <2>2 DEF p
<1>3. Append(q, c) \in Seq(Callbacks)
  BY <1>1, AppendProperties
<1>4. /\ DOMAIN q = 1..Len(q) /\ Len(q) \in Nat
      /\ DOMAIN Append(q, c) = 1..(Len(q) + 1)
      /\ \A i \in 1..Len(q) : Append(q, c)[i] = q[i]
      /\ Append(q, c)[Len(q) + 1] = c
  BY <1>1
<1>5. \A d : Holds(Append(q, c), d) <=> Holds(q, d) \/ d = c
  BY <1>4 DEF Holds
<1>6. \A d : ~Holds(q, d) => Once(Append(q, c), d)
  BY <1>4 DEF Holds, Once
<1> QED
  BY <1>2, <1>3, <1>5, <1>6 DEF Loops

\* The callback that is taken was the first; the others stay.
LEMMA TakenLoop ==
    ASSUME loop \in Loops, NEW c, Turn(c)
    PROVE  /\ Taken \in Loops /\ InQueue(c)
           /\ Taken.reader = loop.reader /\ Taken.writer = loop.writer
           /\ \A d : Holds(Taken.queue, d) => InQueue(d)
           /\ \A d : InQueue(d) /\ d # c => Holds(Taken.queue, d)
           /\ \A d : Once(loop.queue, d) => Once(Taken.queue, d)
           /\ Once(loop.queue, c) => ~Holds(Taken.queue, c)
<1> DEFINE q == loop.queue
<1>1. q \in Seq(Callbacks) /\ q # <<>> /\ q[1] = c
  BY DEF Loops, Turn
<1>2. Taken = [queue |-> Tail(q), reader |-> loop.reader, writer |-> loop.writer]
  <2>1. Taken = [loop EXCEPT !.queue = Tail(q)]
    BY DEF Taken
  <2> HIDE DEF q
  <2> QED
    BY <2>1 DEF Loops
<1>3. Tail(q) \in Seq(Callbacks)
  BY <1>1, HeadTailProperties
<1>4. /\ DOMAIN q = 1..Len(q) /\ Len(q) \in Nat \ {0}
      /\ DOMAIN Tail(q) = 1..(Len(q) - 1)
      /\ \A i \in 1..(Len(q) - 1) : Tail(q)[i] = q[i + 1]
  BY <1>1
<1>5. 1 \in DOMAIN q /\ \A i \in DOMAIN Tail(q) : i + 1 \in DOMAIN q /\ i + 1 # 1
  BY <1>4
<1>6. \A i \in DOMAIN q : i # 1 => i - 1 \in DOMAIN Tail(q) /\ q[i] = Tail(q)[i - 1]
  BY <1>4
<1>7. \A d : Holds(Tail(q), d) => Holds(q, d)
  BY <1>4, <1>5 DEF Holds
<1>8. \A d : Holds(q, d) /\ d # c => Holds(Tail(q), d)
  BY <1>1, <1>6 DEF Holds
<1>9. ASSUME NEW d, Once(q, d) PROVE Once(Tail(q), d)
  <2> SUFFICES ASSUME NEW i \in DOMAIN Tail(q), NEW j \in DOMAIN Tail(q),
                      Tail(q)[i] = d, Tail(q)[j] = d
               PROVE  i = j
    BY DEF Once
  <2>1. i + 1 = j + 1
    BY <1>4, <1>5, <1>9 DEF Once
  <2> QED
    BY <2>1, <1>4
<1>10. ASSUME Once(q, c) PROVE ~Holds(Tail(q), c)
  BY <1>1, <1>4, <1>5, <1>10 DEF Once, Holds
<1>11. InQueue(c)
  BY <1>1, <1>5 DEF InQueue, Holds
<1> QED
  BY <1>2, <1>3, <1>7, <1>8, <1>9, <1>10, <1>11 DEF Loops, InQueue

-----------------------------------------------------------------------------
(* The bytes: writing and sending keep their order.                        *)

Bytes == 1..MaxWritten

\* The end of a chunk is a byte's number.
LEMMA StartIsNumber ==
    ASSUME NEW b \in Seq(Seq(Bytes)), NEW s \in Seq(Bytes), NEW w, Ordering(b, s, w),
           NEW k \in 1..(Len(b) + 1)
    PROVE  Start(b, s, k) \in Nat
<1>1. CASE k = 1
  BY <1>1 DEF Start
<1>2. CASE k # 1
  <2>1. k - 1 \in DOMAIN b
    BY <1>2
  <2>2. b[k - 1] \in Seq(Bytes) /\ b[k - 1] # <<>>
    BY <2>1 DEF Ordering
  <2>3. Len(b[k - 1]) \in DOMAIN b[k - 1]
    BY <2>2
  <2>4. Last(b[k - 1]) \in Bytes
    BY <2>2, <2>3 DEF Last
  <2> QED
    BY <1>2, <2>4, ServiceBoundsAssumption DEF Start, Bytes
<1> QED
  BY <1>1, <1>2

\* A chunk ends where the next one starts.
LEMMA ChunkEnds ==
    ASSUME NEW b \in Seq(Seq(Bytes)), NEW s \in Seq(Bytes), NEW w, Ordering(b, s, w),
           NEW k \in DOMAIN b
    PROVE  /\ b[k] \in Seq(Bytes) /\ Len(b[k]) \in Nat \ {0}
           /\ Start(b, s, k) \in Nat /\ Start(b, s, k + 1) = Last(b[k])
           /\ Last(b[k]) = Start(b, s, k) + Len(b[k])
<1>1. k \in 1..(Len(b) + 1) /\ k + 1 # 1 /\ (k + 1) - 1 = k
  OBVIOUS
<1>2. b[k] \in Seq(Bytes) /\ Len(b[k]) \in Nat \ {0} /\ Len(b[k]) \in DOMAIN b[k]
  BY DEF Ordering
<1>3. Start(b, s, k) \in Nat
  BY <1>1, StartIsNumber
<1>4. Last(b[k]) = Start(b, s, k) + Len(b[k])
  BY <1>2 DEF Ordering, Last
<1> QED
  BY <1>1, <1>2, <1>3, <1>4 DEF Start

\* What is written and not sent is in the buffers.
LEMMA UnsentIsBuffered ==
    ASSUME NEW b \in Seq(Seq(Bytes)), NEW s \in Seq(Bytes), NEW w \in 0..MaxWritten,
           Ordering(b, s, w)
    PROVE  /\ Len(s) <= w /\ w - Len(s) \in 0..MaxWritten
           /\ w - Len(s) = 0 <=> b = <<>>
<1> USE ServiceBoundsAssumption
<1>1. /\ Len(s) \in Nat /\ Len(b) \in Nat /\ w = Start(b, s, Len(b) + 1)
      /\ Len(s) = Start(b, s, 1)
  BY DEF Ordering, Start
<1>2. CASE b = <<>>
  BY <1>1, <1>2 DEF Start
<1>3. CASE b # <<>>
  <2> DEFINE n == Len(b)
  <2>1. n \in DOMAIN b
    BY <1>1, <1>3
  <2>2. /\ Start(b, s, n) \in Nat /\ Len(b[n]) \in Nat \ {0}
        /\ w = Start(b, s, n) + Len(b[n])
    BY <1>1, <2>1, ChunkEnds
  <2>3. Start(b, s, 1) <= Start(b, s, n)
    BY <1>1, <2>1 DEF Ordering
  <2> QED
    BY <1>1, <1>3, <2>2, <2>3
<1> QED
  BY <1>2, <1>3

\* A new chunk comes after what was written last.
LEMMA WriteKeepsOrder ==
    ASSUME NEW b \in Seq(Seq(Bytes)), NEW s \in Seq(Bytes), NEW w \in 0..MaxWritten,
           Ordering(b, s, w), NEW n \in Nat \ {0}, w + n <= MaxWritten
    PROVE  LET new == [i \in 1..n |-> w + i]
           IN  Append(b, new) \in Seq(Seq(Bytes)) /\ Ordering(Append(b, new), s, w + n)
<1> USE ServiceBoundsAssumption
<1> DEFINE new == [i \in 1..n |-> w + i]
           c == Append(b, new)
           m == Len(b)
<1>1. new \in Seq(Bytes) /\ Len(new) = n /\ DOMAIN new = 1..n /\ new # <<>>
  <2>1. \A i \in 1..n : w + i \in Bytes
    BY DEF Bytes
  <2>2. new \in [1..n -> Bytes]
    BY <2>1
  <2> HIDE DEF new
  <2>3. new \in Seq(Bytes)
    BY <2>2, SeqDef
  <2>4. Len(new) = n
    <3>1. DOMAIN new = 1..n /\ DOMAIN new = 1..Len(new) /\ Len(new) \in Nat
      BY <2>2, <2>3, LenProperties
    <3> QED
      BY <3>1
  <2> QED
    BY <2>2, <2>3, <2>4
<1>2. c \in Seq(Seq(Bytes))
  BY <1>1, AppendProperties
<1>3. Last(new) = w + n
  BY <1>1 DEF Last
<1>4. \A i \in DOMAIN new : new[i] = w + i
  OBVIOUS
<1> HIDE DEF new
<1>5. /\ m \in Nat /\ Len(c) = m + 1 /\ DOMAIN b = 1..m /\ DOMAIN c = 1..(m + 1)
      /\ \A k \in 1..m : c[k] = b[k]
      /\ c[m + 1] = new
  BY <1>1
<1> HIDE DEF c, m
<1>6. \A k \in 1..(m + 1) : Start(c, s, k) = Start(b, s, k)
  BY <1>5 DEF Start
<1>7. Start(c, s, m + 2) = w + n
  <2>1. m + 2 # 1 /\ (m + 2) - 1 = m + 1
    BY <1>5
  <2> QED
    BY <1>3, <1>5, <2>1 DEF Start
<1>8. Start(c, s, m + 1) = w
  BY <1>5, <1>6 DEF Ordering, m
<1>9. ASSUME NEW k \in 1..(m + 1)
      PROVE  c[k] # <<>> /\ \A i \in DOMAIN c[k] : c[k][i] = Start(c, s, k) + i
  <2>1. CASE k = m + 1
    BY <1>1, <1>4, <1>5, <1>8, <2>1
  <2>2. CASE k # m + 1
    <3>1. k \in DOMAIN b /\ c[k] = b[k] /\ Start(c, s, k) = Start(b, s, k)
      BY <1>5, <1>6, <2>2
    <3> QED
      BY <3>1 DEF Ordering
  <2> QED
    BY <2>1, <2>2
<1>10. ASSUME NEW j \in 1..(m + 2), NEW k \in 1..(m + 2), j <= k
       PROVE  Start(c, s, j) <= Start(c, s, k)
  <2>1. ASSUME NEW i \in 1..(m + 1) PROVE Start(c, s, i) <= w /\ Start(c, s, i) \in Nat
    <3>1. i <= m + 1 /\ m + 1 \in 1..(m + 1) /\ i \in 1..(Len(b) + 1)
      BY <1>5 DEF m
    <3>2. Start(b, s, i) \in Nat
      BY <3>1, StartIsNumber
    <3>3. Start(b, s, i) <= Start(b, s, m + 1)
      BY <3>1 DEF Ordering, m
    <3> QED
      BY <1>6, <1>8, <3>1, <3>2, <3>3
  <2>2. CASE k = m + 2
    <3>1. CASE j = m + 2
      BY <1>7, <2>2, <3>1
    <3>2. CASE j # m + 2
      <4>1. j \in 1..(m + 1)
        BY <1>5, <3>2
      <4> QED
        BY <1>7, <2>1, <2>2, <4>1
    <3> QED
      BY <3>1, <3>2
  <2>3. CASE k # m + 2
    <3>1. j \in 1..(m + 1) /\ k \in 1..(m + 1)
      BY <1>5, <1>10, <2>3
    <3>2. Start(b, s, j) <= Start(b, s, k)
      BY <1>10, <3>1 DEF Ordering, m
    <3> QED
      BY <1>6, <3>1, <3>2
  <2> QED
    BY <2>2, <2>3
<1>11. Ordering(c, s, w + n)
  <2>1. \A i \in DOMAIN s : s[i] = i
    BY DEF Ordering
  <2>2. Len(c) + 1 = m + 2
    BY <1>5
  <2> QED
    BY <1>5, <1>7, <1>9, <1>10, <2>1, <2>2 DEF Ordering
<1> QED
  BY <1>2, <1>11 DEF new, c

\* What is sent of the first chunk comes after what was sent, and what is left of it
\* stays first.
LEMMA SendKeepsOrder ==
    ASSUME NEW b \in Seq(Seq(Bytes)), NEW s \in Seq(Bytes), NEW w \in 0..MaxWritten,
           Ordering(b, s, w), b # <<>>, NEW n \in 0..Len(Head(b))
    PROVE  LET rest == SubSeq(Head(b), n + 1, Len(Head(b)))
               c == IF rest = <<>> THEN Tail(b) ELSE <<rest>> \o Tail(b)
               t == s \o SubSeq(Head(b), 1, n)
           IN  /\ c \in Seq(Seq(Bytes)) /\ t \in Seq(Bytes) /\ Len(t) = Len(s) + n
               /\ Ordering(c, t, w)
<1> USE ServiceBoundsAssumption
<1> DEFINE chunk == b[1]
           z == Len(chunk)
           rest == SubSeq(chunk, n + 1, z)
           part == SubSeq(chunk, 1, n)
           t == s \o part
           d == Tail(b)
           e == <<rest>> \o d
           m == Len(b)
<1>1. Head(b) = chunk /\ 1 \in DOMAIN b /\ m \in Nat \ {0} /\ DOMAIN b = 1..m
  OBVIOUS
<1>2. chunk \in Seq(Bytes) /\ chunk # <<>> /\ z \in Nat \ {0} /\ DOMAIN chunk = 1..z
  <2>1. chunk \in Seq(Bytes)
    BY <1>1, ElementOfSeq
  <2>2. chunk # <<>>
    BY <1>1 DEF Ordering
  <2> HIDE DEF chunk
  <2> QED
    BY <2>1, <2>2
<1>3. \A i \in 1..z : chunk[i] = Len(s) + i
  BY <1>1, <1>2 DEF Ordering, Start
<1>4. n \in 0..z
  BY <1>1
<1>5. part \in Seq(Bytes) /\ Len(part) = n /\ \A i \in 1..n : part[i] = chunk[i]
  BY <1>2, <1>4
<1>6. /\ rest \in Seq(Bytes) /\ Len(rest) = z - n
      /\ \A i \in 1..(z - n) : rest[i] = chunk[n + i]
  BY <1>2, <1>4
<1>7. /\ t \in Seq(Bytes) /\ Len(t) = Len(s) + n
      /\ \A i \in 1..Len(s) : t[i] = s[i]
      /\ \A i \in 1..n : t[Len(s) + i] = part[i]
  <2> HIDE DEF part
  <2>1. /\ t \in Seq(Bytes) /\ Len(t) = Len(s) + n
        /\ \A i \in 1..(Len(s) + n) :
               t[i] = IF i <= Len(s) THEN s[i] ELSE part[i - Len(s)]
    BY <1>5, ConcatProperties
  <2> HIDE DEF t
  <2>2. ASSUME NEW i \in 1..n PROVE t[Len(s) + i] = part[i]
    <3> DEFINE k == Len(s) + i
    <3>1. k \in 1..(Len(s) + n) /\ ~(k <= Len(s)) /\ k - Len(s) = i
      BY <1>4
    <3> HIDE DEF k
    <3>2. t[k] = part[i]
      BY <2>1, <3>1
    <3> QED
      BY <3>2 DEF k
  <2>3. ASSUME NEW i \in 1..Len(s) PROVE t[i] = s[i]
    <3>1. i \in 1..(Len(s) + n) /\ i <= Len(s)
      BY <1>4
    <3> QED
      BY <2>1, <3>1
  <2> QED
    BY <2>1, <2>2, <2>3
<1>8. \A i \in DOMAIN t : t[i] = i
  <2>0. DOMAIN t = 1..(Len(s) + n)
    <3> HIDE DEF t
    <3> QED
      BY <1>7, LenProperties
  <2> SUFFICES ASSUME NEW i \in 1..(Len(s) + n) PROVE t[i] = i
    BY <2>0
  <2>1. CASE i \in 1..Len(s)
    BY <1>7, <2>1 DEF Ordering
  <2>2. CASE i \notin 1..Len(s)
    <3> DEFINE j == i - Len(s)
    <3>1. j \in 1..n /\ j \in 1..z /\ i = Len(s) + j
      BY <1>2, <1>4, <2>2
    <3> HIDE DEF t, part, j, chunk
    <3>2. t[Len(s) + j] = part[j]
      BY <1>7, <3>1
    <3> QED
      BY <1>3, <1>5, <3>1, <3>2
  <2> QED
    BY <2>1, <2>2
<1>9. /\ d \in Seq(Seq(Bytes)) /\ Len(d) = m - 1 /\ DOMAIN d = 1..(m - 1)
      /\ \A k \in 1..(m - 1) : d[k] = b[k + 1]
  BY <1>1
<1>10. /\ Start(b, s, 1) = Len(s) /\ Start(b, s, 2) = Len(s) + z /\ Len(s) \in Nat
       /\ Last(chunk) = Len(s) + z /\ w = Start(b, s, m + 1)
  <2>1. Start(b, s, 1) = Len(s) /\ Len(s) \in Nat /\ w = Start(b, s, m + 1)
    BY DEF Start, Ordering
  <2>2. Start(b, s, 1 + 1) = Last(chunk) /\ Last(chunk) = Start(b, s, 1) + z
    BY <1>1, ChunkEnds
  <2>3. 1 + 1 = 2
    OBVIOUS
  <2> HIDE DEF chunk, z
  <2> QED
    BY <2>1, <2>2, <2>3
<1>11. \A j, k \in 1..(m + 1) : j <= k => Start(b, s, j) <= Start(b, s, k)
  BY DEF Ordering
<1>12. \A k \in 1..m : /\ b[k] # <<>>
                       /\ \A i \in DOMAIN b[k] : b[k][i] = Start(b, s, k) + i
  BY <1>1 DEF Ordering
<1> HIDE DEF t, part, d, m, z
<1>13. CASE rest = <<>>
  <2>1. n = z
    <3> HIDE DEF rest, chunk
    <3>1. Len(rest) = 0
      BY <1>13
    <3> QED
      BY <1>2, <1>4, <1>6, <3>1
  <2>2. ASSUME NEW k \in 1..m PROVE Start(d, t, k) = Start(b, s, k + 1)
    <3>1. CASE k = 1
      BY <1>7, <1>10, <2>1, <3>1 DEF Start
    <3>2. CASE k # 1
      <4>1. k - 1 \in 1..(m - 1) /\ (k - 1) + 1 = k /\ (k + 1) - 1 = k /\ k + 1 # 1
        BY <1>1, <3>2
      <4>2. d[k - 1] = b[k]
        BY <1>9, <4>1
      <4> QED
        BY <3>2, <4>1, <4>2 DEF Start
    <3> QED
      BY <3>1, <3>2
  <2>3. Len(d) + 1 = m /\ m \in 1..m
    BY <1>1, <1>9
  <2>4. w = Start(d, t, Len(d) + 1)
    BY <1>10, <2>2, <2>3
  <2>5. ASSUME NEW k \in DOMAIN d
        PROVE  d[k] # <<>> /\ \A i \in DOMAIN d[k] : d[k][i] = Start(d, t, k) + i
    <3>1. k \in 1..(m - 1) /\ k \in 1..m /\ k + 1 \in 1..m
      BY <1>1, <1>9
    <3>2. d[k] = b[k + 1] /\ Start(d, t, k) = Start(b, s, k + 1)
      BY <1>9, <2>2, <3>1
    <3> QED
      BY <1>12, <3>1, <3>2
  <2>6. ASSUME NEW j \in 1..m, NEW k \in 1..m, j <= k
        PROVE  Start(d, t, j) <= Start(d, t, k)
    <3>1. j + 1 \in 1..(m + 1) /\ k + 1 \in 1..(m + 1) /\ j + 1 <= k + 1
      BY <1>1, <2>6
    <3> QED
      BY <1>11, <2>2, <3>1
  <2>7. Ordering(d, t, w)
    BY <1>8, <2>3, <2>4, <2>5, <2>6 DEF Ordering
  <2> QED
    BY <1>1, <1>7, <1>9, <1>13, <2>7 DEF t, part, d, z
<1>14. CASE rest # <<>>
  <2>1. n < z /\ Len(rest) \in Nat \ {0} /\ DOMAIN rest = 1..(z - n)
    BY <1>2, <1>4, <1>6, <1>14
  <2>2. \A i \in DOMAIN rest : rest[i] = (Len(s) + n) + i
    <3> SUFFICES ASSUME NEW i \in 1..(z - n) PROVE rest[i] = (Len(s) + n) + i
      BY <2>1
    <3>1. n + i \in 1..z
      BY <1>2, <1>4
    <3>2. rest[i] = chunk[n + i]
      BY <1>6
    <3>3. chunk[n + i] = Len(s) + (n + i)
      BY <1>3, <3>1
    <3> HIDE DEF rest, chunk
    <3> QED
      BY <1>4, <1>10, <3>2, <3>3
  <2>3. Last(rest) = Len(s) + z
    <3> HIDE DEF rest
    <3>1. Last(rest) = rest[z - n] /\ z - n \in DOMAIN rest
      BY <1>2, <1>4, <1>6, <2>1 DEF Last
    <3> QED
      BY <1>2, <1>4, <1>10, <2>2, <3>1
  <2>4. /\ e \in Seq(Seq(Bytes)) /\ Len(e) = m /\ DOMAIN e = 1..m /\ e[1] = rest
        /\ \A k \in 2..m : e[k] = d[k - 1]
    <3> HIDE DEF rest
    <3> QED
      BY <1>1, <1>6, <1>9
  <2> HIDE DEF rest, e
  <2>5. \A k \in 2..m : e[k] = b[k]
    <3> SUFFICES ASSUME NEW k \in 2..m PROVE e[k] = b[k]
      OBVIOUS
    <3>1. k - 1 \in 1..(m - 1) /\ (k - 1) + 1 = k
      BY <1>1
    <3> QED
      BY <1>9, <2>4, <3>1
  <2>6. Start(e, t, 1) = Len(s) + n
    BY <1>7 DEF Start
  <2>7. ASSUME NEW k \in 2..(m + 1) PROVE Start(e, t, k) = Start(b, s, k)
    <3>1. CASE k = 2
      BY <1>10, <2>3, <2>4, <3>1 DEF Start
    <3>2. CASE k # 2
      <4>1. k - 1 \in 2..m /\ k # 1
        BY <1>1, <3>2
      <4> QED
        BY <2>5, <4>1 DEF Start
    <3> QED
      BY <3>1, <3>2
  <2>8. w = Start(e, t, Len(e) + 1)
    <3>1. Len(e) + 1 = m + 1 /\ m + 1 \in 2..(m + 1)
      BY <1>1, <2>4
    <3> QED
      BY <1>10, <2>7, <3>1
  <2>9. ASSUME NEW k \in DOMAIN e
        PROVE  e[k] # <<>> /\ \A i \in DOMAIN e[k] : e[k][i] = Start(e, t, k) + i
    <3>1. CASE k = 1
      BY <1>14, <2>2, <2>4, <2>6, <3>1
    <3>2. CASE k # 1
      <4>1. k \in 2..m /\ k \in 2..(m + 1) /\ k \in 1..m
        BY <1>1, <2>4, <3>2
      <4> QED
        BY <1>12, <2>5, <2>7, <4>1
    <3> QED
      BY <3>1, <3>2
  <2>10. ASSUME NEW j \in 1..(m + 1), NEW k \in 1..(m + 1), j <= k
         PROVE  Start(e, t, j) <= Start(e, t, k)
    <3>1. CASE k = 1
      <4>1. j = 1
        BY <2>10, <3>1
      <4> QED
        BY <1>4, <1>10, <2>6, <3>1, <4>1
    <3>2. CASE j = 1 /\ k # 1
      <4>1. k \in 2..(m + 1) /\ 2 <= k /\ 2 \in 1..(m + 1)
        BY <1>1, <3>2
      <4>2. Start(b, s, 2) <= Start(b, s, k)
        BY <1>11, <4>1
      <4>3. Start(b, s, k) \in Nat
        BY <4>1, StartIsNumber DEF m
      <4> QED
        BY <1>2, <1>4, <1>10, <2>1, <2>6, <2>7, <3>2, <4>1, <4>2, <4>3
    <3>3. CASE j # 1
      <4>1. j \in 2..(m + 1) /\ k \in 2..(m + 1)
        BY <1>1, <2>10, <3>3
      <4> QED
        BY <1>11, <2>7, <2>10, <4>1
    <3> QED
      BY <3>1, <3>2, <3>3
  <2>11. Ordering(e, t, w)
    BY <1>8, <2>4, <2>8, <2>9, <2>10 DEF Ordering
  <2> QED
    BY <1>1, <1>7, <1>14, <2>4, <2>11 DEF rest, e, t, part, d, z
<1> QED
  BY <1>13, <1>14

-----------------------------------------------------------------------------
(* Every step keeps the invariant, one part after the other.               *)

\* An active service that completes is reported.
LEMMA CompleteIsReported ==
    ASSUME ServicesInv, service.state = "active", NEW ok \in BOOLEAN, Complete(ok),
           UNCHANGED canceled
    PROVE  Outcomes' /\ service' \in Services
<1>1. service' = [kind |-> service.kind, ok |-> ok, state |-> "completed"]
  BY DEF ServicesInv, Typed, Services, Complete
<1>2. service.kind \in Kinds
  BY DEF ServicesInv, Typed, Services
<1>3. reports' = [reports EXCEPT ![service.kind] = reports[service.kind] + 1]
  BY DEF Complete
<1>4. reports = [k \in Kinds |-> IF k \in Former(service.kind) THEN 1 ELSE 0]
  BY DEF ServicesInv, Outcomes, Over
<1>5. service.kind \notin Former(service.kind)
  BY <1>2 DEF Former, Kinds
<1>6. reports' = [k \in Kinds |-> IF k \in Former(service.kind) \/ k = service.kind
                                 THEN 1 ELSE 0]
  BY <1>2, <1>3, <1>4, <1>5
<1>7. \A k : Over(k)' <=> k \in Former(service.kind) \/ k = service.kind
  BY <1>1 DEF Over
<1>8. canceled = {}
  BY DEF ServicesInv, Outcomes
<1> QED
  BY <1>1, <1>2, <1>6, <1>7, <1>8 DEF Outcomes, Services

\* The connector's transport takes over from it.
LEMMA LinkupIsReported ==
    ASSUME ServicesInv, At("stream"), NEW l, Linkup(l), UNCHANGED canceled
    PROVE  Outcomes' /\ service' \in Services
<1>1. service' = [kind |-> "transport", state |-> "active", ok |-> TRUE]
  BY DEF Linkup
<1>2. reports = [k \in Kinds |-> IF k \in Former("stream") THEN 1 ELSE 0]
  BY DEF ServicesInv, Outcomes, Over, At
<1>3. reports' = [reports EXCEPT !["stream"] = reports["stream"] + 1]
  BY DEF Linkup
<1>4. reports' = [k \in Kinds |-> IF k \in Former("stream") \/ k = "stream" THEN 1 ELSE 0]
  <2>1. "stream" \in Kinds /\ "stream" \notin Former("stream")
    BY DEF Former, Kinds
  <2> QED
    BY <1>2, <1>3, <2>1
<1>5. \A k : Over(k)' <=> k \in Former("stream") \/ k = "stream"
  BY <1>1 DEF Over, Former
<1>6. canceled = {}
  BY DEF ServicesInv, Outcomes, At
<1> QED
  BY <1>1, <1>4, <1>5, <1>6 DEF Outcomes, Services, Kinds

\* A transport that goes down is not reported yet.
LEMMA AbortIsQuiet ==
    ASSUME ServicesInv, service.kind = "transport", service.state # "completed",
           NEW error \in BOOLEAN, Abort(error), UNCHANGED <<reports, canceled>>
    PROVE  Outcomes' /\ service' \in Services
<1>1. \/ service' = service
      \/ service' = [service EXCEPT !.state = IF error THEN "failed" ELSE "aborted"]
  BY DEF Abort
<1>2. /\ service' \in Services /\ service'.kind = "transport"
      /\ service'.state \notin {"completed", "canceled"}
  BY <1>1 DEF ServicesInv, Typed, Outcomes, Services
<1>3. \A k : Over(k)' <=> Over(k)
  BY <1>2 DEF Over
<1>4. canceled = {}
  BY DEF ServicesInv, Outcomes
<1> QED
  BY <1>2, <1>3, <1>4 DEF ServicesInv, Outcomes

\* Every step keeps the reports, and the services' order.
LEMMA OutcomesKept ==
    ASSUME ServicesInv, [Next]_vars
    PROVE  Outcomes' /\ service' \in Services
<1> USE DEF Typed
<1>1. CASE UNCHANGED <<service, reports, canceled>>
  <2>1. \A k : Over(k)' <=> Over(k)
    BY <1>1 DEF Over
  <2> QED
    BY <1>1, <2>1 DEF ServicesInv, Outcomes
<1>2. CASE (DispatchResult /\ At("resolver")) \/ SocketStartAsync \/ SocketWritable
  <2>1. CASE UNCHANGED <<service, reports, canceled>>
    BY <1>1, <2>1
  <2>2. CASE /\ service.state = "active" /\ UNCHANGED canceled
             /\ \E ok \in BOOLEAN : Complete(ok)
    BY <2>2, CompleteIsReported
  <2> QED
    BY <1>2, <2>1, <2>2 DEF DispatchResult, SocketStartAsync, SocketWritable, At
<1>3. CASE StartSocket \/ StartStream
  <2>1. PICK from, kind : /\ <<from, kind>> \in {<<"resolver", "socket">>, <<"socket", "stream">>}
                          /\ service = [kind |-> from, state |-> "completed", ok |-> TRUE]
                          /\ service' = [kind |-> kind, state |-> "active", ok |-> FALSE]
                          /\ UNCHANGED <<reports, canceled>>
    BY <1>3 DEF StartSocket, StartStream, StartNext, outside
  <2>2. \A k : Over(k)' <=> Over(k)
    BY <2>1 DEF Over, Former
  <2>3. service' \in Services
    BY <2>1 DEF Services, Kinds
  <2> QED
    BY <2>1, <2>2, <2>3 DEF ServicesInv, Outcomes
<1>4. CASE Cancel
  <2>1. /\ service' = [service EXCEPT !.state = "canceled"] /\ service.state = "active"
        /\ service.kind # "transport" /\ canceled' = canceled \cup {service.kind}
        /\ UNCHANGED reports
    BY <1>4 DEF Cancel
  <2>2. service' \in Services /\ service'.kind = service.kind /\ service'.state = "canceled"
    BY <2>1 DEF ServicesInv, Services
  <2>3. \A k : Over(k)' <=> Over(k)
    BY <2>1, <2>2 DEF Over
  <2>4. canceled = {}
    BY <2>1 DEF ServicesInv, Outcomes
  <2> QED
    BY <2>1, <2>2, <2>3, <2>4 DEF ServicesInv, Outcomes
<1>5. CASE StreamStartAsync \/ HandshakeDone
  <2>1. UNCHANGED canceled
    BY <1>5 DEF StreamStartAsync, HandshakeDone
  <2>2. \/ UNCHANGED <<service, reports>>
        \/ At("stream") /\ \E l : Linkup(l)
        \/ At("stream") /\ Complete(FALSE)
    BY <1>5 DEF StreamStartAsync, HandshakeDone, StreamFails, Doing, ServicesInv, RunsService
  <2> QED
    BY <1>1, <2>1, <2>2, LinkupIsReported, CompleteIsReported DEF At
<1>6. CASE UserAbort \/ ConsumeFails \/ ProduceFails
  <2>1. UNCHANGED <<reports, canceled>>
    BY <1>6 DEF UserAbort, ConsumeFails, ProduceFails, outside
  <2>2. service.kind = "transport"
    BY <1>6 DEF UserAbort, ConsumeFails, ProduceFails, Doing, At, ServicesInv, RunsService
  <2>3. PICK error \in BOOLEAN : Abort(error)
    BY <1>6 DEF UserAbort, ConsumeFails, ProduceFails, ServicesInv, Engines
  <2>4. CASE service.state # "completed"
    BY <2>1, <2>2, <2>3, <2>4, AbortIsQuiet
  <2>5. CASE service.state = "completed"
    <3>1. service' = service
      BY <1>6, <2>5 DEF UserAbort, ConsumeFails, ProduceFails, Abort, At, Doing,
                        ServicesInv, RunsService
    <3> QED
      BY <1>1, <2>1, <3>1
  <2> QED
    BY <2>4, <2>5
<1>7. CASE Notify
  <2>1. CASE UNCHANGED <<service, reports, canceled>>
    BY <1>1, <2>1
  <2>2. CASE ~UNCHANGED <<service, reports, canceled>>
    <3>1. /\ service' = [service EXCEPT !.state = "completed"]
          /\ reports' = [reports EXCEPT !["transport"] = reports["transport"] + 1]
          /\ service.state # "completed" /\ UNCHANGED canceled
      BY <1>7, <2>2 DEF Notify
    <3>2. service.kind = "transport"
      <4>1. Turn("lost") \/ Turn("failed")
        BY <1>7 DEF Notify
      <4>2. InQueue("lost") \/ InQueue("failed")
        BY <4>1, TakenLoop DEF ServicesInv
      <4> QED
        BY <4>2 DEF ServicesInv, ConnectorEvents
    <3>3. service' \in Services /\ service'.kind = "transport" /\ service'.state = "completed"
      BY <3>1, <3>2 DEF ServicesInv, Services
    <3>4. reports = [k \in Kinds |-> IF k \in Former("transport") THEN 1 ELSE 0]
      BY <3>1, <3>2 DEF ServicesInv, Outcomes, Over
    <3>5. reports' = [k \in Kinds |-> IF k \in Former("transport") \/ k = "transport"
                                     THEN 1 ELSE 0]
      <4>1. "transport" \in Kinds /\ "transport" \notin Former("transport")
        BY DEF Former, Kinds
      <4> QED
        BY <3>1, <3>4, <4>1
    <3>6. \A k : Over(k)' <=> k \in Former("transport") \/ k = "transport"
      BY <3>3 DEF Over
    <3>7. canceled = {}
      BY <3>2 DEF ServicesInv, Outcomes
    <3> QED
      BY <3>1, <3>3, <3>5, <3>6, <3>7 DEF Outcomes
  <2> QED
    BY <2>1, <2>2
<1>8. CASE \/ ThreadStarts \/ Resolve \/ ThreadDelivers \/ Connects
           \/ PeerReads \/ PeerAnswers \/ PeerSends
           \/ DispatchResult /\ ~At("resolver")
           \/ HandshakeEvent \/ HandshakeWants \/ Engine \/ UNCHANGED vars
  BY <1>1, <1>8 DEF ThreadStarts, Resolve, ThreadDelivers, Connects, PeerReads, PeerAnswers,
        PeerSends, DispatchResult, HandshakeEvent, HandshakeWants, Engine, EngineWrites,
        EngineReads, EngineAsked, EngineKeeps, outside, vars
<1>9. CASE \/ ReadableEvent \/ ReadableQueued \/ WritableEvent \/ Receives \/ DataReceived
           \/ ConsumeEnds \/ TlsConsumeEnds \/ Sends \/ ProduceEnds \/ TlsProduceEnds
           \/ \E bytes \in 1..2 : Write(bytes)
  BY <1>1, <1>9 DEF ReadableEvent, ReadableQueued, WritableEvent, Receives, DataReceived,
        ConsumeEnds, TlsConsumeEnds, Sends, ProduceEnds, TlsProduceEnds, Write, outside
<1> QED
  BY <1>2, <1>3, <1>4, <1>5, <1>6, <1>7, <1>8, <1>9
     DEF Next, Thread, Loop, Connectors, Transport, User

\* The engine's, the socket's and the thread's parts stay what they are.
LEMMA OutsideKept ==
    ASSUME ServicesInv, [Next]_vars
    PROVE  /\ thread' \in {"waiting", "resolving", "resolved", "done"}
           /\ ssl' \in Engines /\ ssl'.on = ssl.on
           /\ wire' \in Wires /\ (wire'.open => wire.open \/ service.state = "active")
<1> DEFINE Todos == Seq({"write", "read"})
           Records == {"app", "hs", "eof", "reset"}
<1>1. thread' \in {"waiting", "resolving", "resolved", "done"}
  <2>1. CASE ThreadStarts \/ Resolve \/ ThreadDelivers \/ Cancel
    BY <2>1 DEF ThreadStarts, Resolve, ThreadDelivers, Cancel, ServicesInv, Typed
  <2>2. CASE UNCHANGED thread
    BY <2>2 DEF ServicesInv, Typed
  <2>3. CASE \/ Connectors \/ StartSocket \/ StartStream
    BY <2>2, <2>3 DEF Connectors, DispatchResult, SocketStartAsync, SocketWritable,
          StreamStartAsync, HandshakeEvent, HandshakeWants, HandshakeDone, StartSocket,
          StartStream, StartNext, outside
  <2>4. CASE Engine
    BY <2>2, <2>4 DEF Engine, EngineWrites, EngineReads, EngineAsked, EngineKeeps, outside
  <2>5. CASE Transport \/ UserAbort \/ \E bytes \in 1..2 : Write(bytes)
    BY <2>2, <2>5 DEF Transport, Notify, ReadableEvent, ReadableQueued, WritableEvent,
          Receives, DataReceived, ConsumeFails, ConsumeEnds, TlsConsumeEnds, Sends,
          ProduceFails, ProduceEnds, TlsProduceEnds, UserAbort, Write, outside
  <2>6. CASE Connects \/ PeerReads \/ PeerAnswers \/ PeerSends \/ UNCHANGED vars
    BY <2>2, <2>6 DEF Connects, PeerReads, PeerAnswers, PeerSends, outside, vars
  <2> QED
    BY <2>1, <2>2, <2>3, <2>4, <2>5, <2>6 DEF Next, Thread, Loop, User
<1>2. ssl' \in Engines /\ ssl'.on = ssl.on
  <2>1. CASE UNCHANGED ssl
    BY <2>1 DEF ServicesInv, Typed
  <2>2. CASE \E todo \in Todos : ssl' = [ssl EXCEPT !.todo = todo]
    BY <2>2 DEF ServicesInv, Typed, Engines
  <2>3. CASE \E pending \in Nat : ssl' = [ssl EXCEPT !.pending = pending]
    BY <2>3 DEF ServicesInv, Typed, Engines
  <2>4. ssl.todo \in Todos /\ ssl.pending \in Nat
    BY DEF ServicesInv, Typed, Engines
  <2>5. <<"write", "read", "write">> \in Todos /\ <<"write", "read">> \in Todos
    OBVIOUS
  <2>6. CASE EngineWrites \/ EngineReads
    <3>1. Tail(ssl.todo) \in Todos
      <4>1. ssl.todo # <<>>
        BY <2>6 DEF EngineWrites, EngineReads, TodoIs
      <4> QED
        BY <4>1, <2>4, HeadTailProperties
    <3>2. ssl' = [ssl EXCEPT !.todo = Tail(ssl.todo)]
      BY <2>6 DEF EngineWrites, EngineReads
    <3> QED
      BY <2>2, <3>1, <3>2
  <2>7. CASE StreamStartAsync \/ EngineAsked
    BY <2>1, <2>2, <2>5, <2>7 DEF StreamStartAsync, EngineAsked
  <2>8. CASE EngineKeeps
    <3>1. ssl.pending + 1 \in Nat /\ ssl' = [ssl EXCEPT !.pending = ssl.pending + 1]
      BY <2>4, <2>8 DEF EngineKeeps
    <3> QED
      BY <2>3, <3>1
  <2>9. CASE Receives
    <3>1. CASE ssl.pending > 0
      <4>1. ssl.pending - 1 \in Nat /\ ssl' = [ssl EXCEPT !.pending = ssl.pending - 1]
        BY <2>4, <2>9, <3>1 DEF Receives
      <4> QED
        BY <2>3, <4>1
    <3> QED
      BY <2>1, <2>9, <3>1 DEF Receives
  <2>10. CASE Thread \/ User
    BY <2>1, <2>10 DEF Thread, User, ThreadStarts, Resolve, ThreadDelivers, StartSocket,
          StartStream, StartNext, Cancel, UserAbort, Write
  <2>11. CASE \/ DispatchResult \/ SocketStartAsync \/ SocketWritable \/ HandshakeEvent
              \/ HandshakeWants \/ HandshakeDone
    BY <2>1, <2>11 DEF DispatchResult, SocketStartAsync, SocketWritable, HandshakeEvent,
          HandshakeWants, HandshakeDone
  <2>12. CASE Transport /\ ~Receives
    BY <2>1, <2>12 DEF Transport, Notify, ReadableEvent, ReadableQueued, WritableEvent,
          DataReceived, ConsumeFails, ConsumeEnds, TlsConsumeEnds, Sends,
          ProduceFails, ProduceEnds, TlsProduceEnds
  <2>13. CASE Connects \/ PeerReads \/ PeerAnswers \/ PeerSends \/ UNCHANGED vars
    BY <2>1, <2>13 DEF Connects, PeerReads, PeerAnswers, PeerSends, vars
  <2> QED
    BY <2>6, <2>7, <2>8, <2>9, <2>10, <2>11, <2>12, <2>13 DEF Next, Loop, Connectors, Engine
<1>3. wire' \in Wires /\ (wire'.open => wire.open \/ service.state = "active")
  <2>1. CASE UNCHANGED wire
    BY <2>1 DEF ServicesInv, Typed
  <2>2. /\ wire.rx \in Seq(Records) /\ wire.room \in 0..MaxRoom
        /\ wire.owed \in Int /\ wire.records \in Int
    BY DEF ServicesInv, Typed, Wires
  <2>3. wire.rx # <<>> => Tail(wire.rx) \in Seq(Records)
    BY <2>2, HeadTailProperties
  <2>4. \A record \in Records : Append(wire.rx, record) \in Seq(Records)
    BY <2>2, AppendProperties
  <2>5. CASE \E open \in BOOLEAN : /\ wire' = [wire EXCEPT !.open = open]
                                   /\ open => service.state = "active"
    BY <2>5 DEF ServicesInv, Typed, Wires
  <2>6. CASE \E how \in {"pending", "ok", "failed"} : wire' = [wire EXCEPT !.connect = how]
    BY <2>6 DEF ServicesInv, Typed, Wires
  <2>7. CASE \E rx \in Seq(Records), room \in 0..MaxRoom, owed, records \in Int :
                 wire' = [wire EXCEPT !.rx = rx, !.room = room, !.owed = owed,
                                      !.records = records]
    BY <2>7 DEF ServicesInv, Typed, Wires
  <2>8. CASE Cancel
    BY <2>5, <2>8 DEF Cancel
  <2>9. CASE SocketStartAsync \/ Connects
    BY <2>1, <2>6, <2>9 DEF SocketStartAsync, Connects
  <2>10. CASE StreamStartAsync \/ HandshakeDone \/ Notify
    <3>1. \/ UNCHANGED wire
          \/ wire' = [wire EXCEPT !.open = FALSE]
      BY <2>10 DEF StreamStartAsync, HandshakeDone, Notify, Linkup, StreamFails
    <3> QED
      BY <2>1, <2>5, <3>1
  <2>11. CASE EngineReads \/ EngineAsked \/ EngineKeeps \/ Receives
    <3>1. CASE wire.rx # <<>> /\ wire' = [wire EXCEPT !.rx = Tail(wire.rx)]
      BY <2>3, <3>1 DEF ServicesInv, Typed, Wires
    <3> QED
      BY <2>1, <2>11, <3>1 DEF EngineReads, EngineAsked, EngineKeeps, Receives, Arrived
  <2>12. CASE EngineWrites
    <3> DEFINE owed == wire.owed + IF Contains(Tail(ssl.todo), "read") THEN 1 ELSE 0
    <3>1. wire' = [wire EXCEPT !.room = wire.room - 1, !.owed = owed]
      BY <2>12 DEF EngineWrites
    <3>2. wire.room - 1 \in 0..MaxRoom
      BY <2>2, <2>12, ServiceBoundsAssumption DEF EngineWrites, Room
    <3>3. owed \in Int
      BY <2>2
    <3> HIDE DEF owed
    <3> QED
      BY <3>1, <3>2, <3>3 DEF ServicesInv, Typed, Wires
  <2>13. CASE PeerReads
    <3>1. MaxRoom \in 0..MaxRoom
      BY ServiceBoundsAssumption
    <3> QED
      BY <2>13, <3>1 DEF PeerReads, ServicesInv, Typed, Wires
  <2>14. CASE PeerAnswers
    <3>1. wire' = [wire EXCEPT !.owed = wire.owed - 1, !.rx = Append(wire.rx, "hs")]
      BY <2>14 DEF PeerAnswers
    <3>2. wire.owed - 1 \in Int
      BY <2>2
    <3> QED
      BY <2>4, <3>1, <3>2 DEF ServicesInv, Typed, Wires
  <2>15. CASE PeerSends
    <3>1. PICK record \in Records : wire' = [wire EXCEPT !.records = wire.records + 1,
                                                         !.rx = Append(wire.rx, record)]
      BY <2>15 DEF PeerSends
    <3>2. wire.records + 1 \in Int
      BY <2>2
    <3> QED
      BY <2>4, <3>1, <3>2 DEF ServicesInv, Typed, Wires
  <2>16. CASE Sends
    <3> DEFINE chunk == Head(tx.buffers)
               sends == IF Len(chunk) < wire.room THEN Len(chunk) ELSE wire.room
    <3>1. wire' = [wire EXCEPT !.room = wire.room - sends]
      BY <2>16 DEF Sends
    <3>2. Len(chunk) \in Nat
      <4>1. tx.buffers \in Seq(Seq(1..MaxWritten)) /\ tx.buffers # <<>>
        BY <2>16 DEF Sends, CanSend, ServicesInv, Typed, Buffers
      <4> QED
        BY <4>1, HeadTailProperties
    <3>3. wire.room - sends \in 0..MaxRoom
      BY <2>2, <3>2, ServiceBoundsAssumption
    <3> QED
      BY <3>1, <3>3 DEF ServicesInv, Typed, Wires
  <2>17. CASE \/ Thread \/ DispatchResult \/ SocketWritable \/ HandshakeEvent \/ HandshakeWants
              \/ StartSocket \/ StartStream
    BY <2>1, <2>17 DEF Thread, ThreadStarts, Resolve, ThreadDelivers, DispatchResult,
          SocketWritable, HandshakeEvent, HandshakeWants, StartSocket, StartStream, StartNext
  <2>18. CASE \/ ReadableEvent \/ ReadableQueued \/ WritableEvent \/ DataReceived
              \/ ConsumeFails \/ ConsumeEnds \/ TlsConsumeEnds \/ ProduceFails
              \/ ProduceEnds \/ TlsProduceEnds \/ UserAbort
              \/ (\E bytes \in 1..2 : Write(bytes)) \/ UNCHANGED vars
    BY <2>1, <2>18 DEF ReadableEvent, ReadableQueued, WritableEvent, DataReceived,
          ConsumeFails, ConsumeEnds, TlsConsumeEnds, ProduceFails, ProduceEnds,
          TlsProduceEnds, UserAbort, Write, vars
  <2> QED
    BY <2>8, <2>9, <2>10, <2>11, <2>12, <2>13, <2>14, <2>15, <2>16, <2>17, <2>18
       DEF Next, Loop, Connectors, Engine, Transport, User
<1> QED
  BY <1>1, <1>2, <1>3

\* The loop is in a handshake, a consume or a produce of the service at work only.
LEMMA RunsKept ==
    ASSUME ServicesInv, [Next]_vars
    PROVE  run' \in Runs /\ RunsService'
<1>1. run \in Runs /\ ssl'.on = ssl.on /\ RunsService /\ service \in Services
  BY OutsideKept DEF ServicesInv, Typed
<1>2. CASE UNCHANGED <<run, service>>
  BY <1>1, <1>2 DEF RunsService, At
<1>3. CASE run' = Ended
  <2>1. run' \in Runs /\ run'.what = "idle" /\ ~run'.inData
    <3>1. 0 \in 0..MaxConsume
      BY ServiceBoundsAssumption
    <3>2. run' = [run EXCEPT !.what = "idle", !.n = 0, !.inData = FALSE]
      BY <1>3 DEF Ended
    <3> QED
      BY <1>1, <3>1, <3>2 DEF Runs
  <2> QED
    BY <2>1 DEF RunsService
<1>4. CASE Idle /\ UNCHANGED run
  BY <1>1, <1>4 DEF RunsService, Idle
<1>5. CASE \/ DispatchResult \/ SocketStartAsync \/ SocketWritable \/ StartSocket \/ StartStream
           \/ Notify
  BY <1>4, <1>5 DEF DispatchResult, SocketStartAsync, SocketWritable, StartSocket, StartStream,
        StartNext, Notify, Turn, Idle, transport
<1>6. CASE Cancel
  <2>1. Idle
    BY <1>1, <1>6 DEF Cancel, UserTurn, RunsService
  <2> QED
    BY <1>4, <1>6, <2>1 DEF Cancel, transport
<1>7. CASE UserAbort
  <2>1. UNCHANGED run /\ UserTurn /\ service.kind = "transport" /\ service'.kind = "transport"
    BY <1>1, <1>7 DEF UserAbort, Abort, Services
  <2> QED
    BY <1>1, <2>1 DEF RunsService, UserTurn, Idle
<1>8. CASE StreamStartAsync
  <2>1. Idle
    BY <1>8 DEF StreamStartAsync, Turn
  <2>2. CASE /\ At("stream") /\ ssl.on /\ UNCHANGED service
             /\ run' = [run EXCEPT !.what = "handshake"]
    <3>1. run' \in Runs /\ run'.what = "handshake" /\ run'.inData = run.inData
      BY <1>1, <2>2 DEF Runs
    <3> QED
      BY <1>1, <2>1, <2>2, <3>1 DEF RunsService, At, Idle
  <2> QED
    BY <1>4, <1>8, <2>1, <2>2 DEF StreamStartAsync
<1>9. CASE HandshakeEvent
  <2>1. /\ Idle /\ At("stream") /\ run' = [run EXCEPT !.what = "handshake"] /\ UNCHANGED service
        /\ loop.reader = "handshake" \/ loop.writer = "handshake"
    BY <1>9 DEF HandshakeEvent
  <2>2. ssl.on
    BY <2>1, NoneAssumption DEF ServicesInv, ConnectorEvents, At
  <2>3. run' \in Runs /\ run'.what = "handshake" /\ run'.inData = run.inData
    BY <1>1, <2>1 DEF Runs
  <2> QED
    BY <1>1, <2>1, <2>2, <2>3 DEF RunsService, At, Idle
<1>10. CASE ReadableEvent \/ ReadableQueued \/ WritableEvent
  <2>1. Idle /\ UNCHANGED service
    BY <1>10 DEF ReadableEvent, ReadableQueued, WritableEvent, Turn
  <2>2. \/ UNCHANGED run
        \/ /\ At("transport")
           /\ \E what \in {"consume", "produce"} : run' = [run EXCEPT !.what = what]
    BY <1>10 DEF ReadableEvent, ReadableQueued, WritableEvent, OnSocketReadable, Begins,
          ServicesInv, Typed, Actions
  <2>3. CASE /\ At("transport")
             /\ \E what \in {"consume", "produce"} : run' = [run EXCEPT !.what = what]
    <3>1. /\ run' \in Runs /\ run'.what \in {"consume", "produce"}
          /\ run'.inData = run.inData
      BY <1>1, <2>3 DEF Runs
    <3> QED
      BY <1>1, <2>1, <2>3, <3>1 DEF RunsService, At, Idle
  <2> QED
    BY <1>2, <2>1, <2>2, <2>3
<1>11. CASE Receives
  <2>1. /\ run' = [run EXCEPT !.n = run.n + 1, !.inData = TRUE]
        /\ run.what = "consume" /\ run.n < MaxConsume /\ UNCHANGED service
    BY <1>11 DEF Receives, Doing
  <2>2. run.n + 1 \in 0..MaxConsume
    BY <1>1, <2>1, ServiceBoundsAssumption DEF Runs
  <2>3. run' \in Runs /\ run'.what = "consume"
    BY <1>1, <2>1, <2>2 DEF Runs
  <2> QED
    BY <1>1, <2>1, <2>3 DEF RunsService
<1>12. CASE DataReceived
  <2>1. run' = [run EXCEPT !.inData = FALSE] /\ UNCHANGED service /\ run.inData
    BY <1>12 DEF DataReceived
  <2>2. run' \in Runs /\ run'.what = run.what /\ ~run'.inData
    BY <1>1, <2>1 DEF Runs
  <2> QED
    BY <1>1, <2>1, <2>2 DEF RunsService
<1>13. CASE \/ HandshakeWants \/ HandshakeDone \/ ConsumeFails \/ ConsumeEnds \/ TlsConsumeEnds
            \/ ProduceFails \/ ProduceEnds \/ TlsProduceEnds
  BY <1>3, <1>13 DEF HandshakeWants, HandshakeDone, ConsumeFails, ConsumeEnds, TlsConsumeEnds,
        ProduceFails, ProduceEnds, TlsProduceEnds
<1>14. CASE Thread \/ Connects \/ PeerReads \/ PeerAnswers \/ PeerSends \/ UNCHANGED vars
  BY <1>2, <1>14 DEF Thread, ThreadStarts, Resolve, ThreadDelivers, Connects, PeerReads,
        PeerAnswers, PeerSends, transport, vars
<1>15. CASE Engine \/ Sends \/ \E bytes \in 1..2 : Write(bytes)
  BY <1>2, <1>15 DEF Engine, EngineWrites, EngineReads, EngineAsked, EngineKeeps, Sends, Write,
        transport
<1> QED
  BY <1>5, <1>6, <1>7, <1>8, <1>9, <1>10, <1>11, <1>12, <1>13, <1>14, <1>15
     DEF Next, Loop, Connectors, Transport, User

\* What is registered for the socket can be any of these.
LEMMA WatchedLoop ==
    ASSUME NEW l \in Loops, NEW r \in {None, "handshake", "transport"},
           NEW w \in {None, "connect", "handshake", "transport"}
    PROVE  LET watched == [l EXCEPT !.reader = r, !.writer = w]
           IN  /\ watched \in Loops /\ watched.queue = l.queue
               /\ watched.reader = r /\ watched.writer = w
  BY DEF Loops

\* A transport's loop and actions before its run ends.
LEMMA TlsState ==
    ASSUME ServicesInv, At("transport"), ssl.on
    PROVE  /\ loop \in Loops /\ actions \in Actions /\ TlsEvents
           /\ actions = [read |-> actions.read, write |-> actions.write]
           /\ tx.buffers # <<>> => ~(actions.read = "consume" /\ actions.write = None)
           /\ \/ actions.read = "consume" /\ actions.write = None
              \/ actions.read = "consume" /\ actions.write = "produce"
              \/ actions.read = None /\ actions.write = "consume"
              \/ actions.read = "produce" /\ actions.write = None
  BY DEF ServicesInv, Typed, TransportInv, TlsEvents, ActionPairs, Actions

\* What the consumer leaves behind: its own event, and the producer's if there are
\* bytes to send.
LEMMA ConsumeOnReadableKeeps ==
    ASSUME ServicesInv, At("transport"), ssl.on, run.what = "consume",
           NEW l \in Loops, l.reader = loop.reader, l.writer = loop.writer,
           ConsumeOnReadable(l)
    PROVE  /\ loop' \in Loops /\ actions' \in Actions /\ loop'.queue = l.queue
           /\ loop'.reader # None /\ (loop'.writer # None <=> actions'.write # None)
           /\ actions'.read = "consume" /\ actions'.write \in {None, "produce"}
           /\ tx.buffers # <<>> => actions'.write = "produce"
<1> DEFINE was == actions.write = "consume"
           r == IF actions.read = None THEN "transport" ELSE l.reader
           w == IF was THEN None ELSE l.writer
           l2 == [l EXCEPT !.reader = r, !.writer = w]
           a == [read |-> "consume", write |-> IF was THEN None ELSE actions.write]
           arm == tx.buffers # <<>> /\ (was \/ actions.write = None)
<1>1. /\ loop' = IF arm THEN [l2 EXCEPT !.writer = "transport"] ELSE l2
      /\ actions' = IF arm THEN [a EXCEPT !.write = "produce"] ELSE a
  BY DEF ConsumeOnReadable, Watches
<1>2. /\ actions.read # "produce" /\ actions \in Actions /\ TlsEvents
  BY TlsState, NoneAssumption DEF TlsEvents
<1>3. r \in {"handshake", "transport"} /\ w \in {None, "connect", "handshake", "transport"}
  BY <1>2, NoneAssumption DEF TlsEvents, Loops
<1>4. l2 \in Loops /\ l2.queue = l.queue /\ l2.reader = r /\ l2.writer = w
  <2> HIDE DEF r, w, was, a, arm
  <2> QED
    BY <1>3 DEF Loops
<1>5. w # None <=> a.write # None
  BY <1>2 DEF TlsEvents
<1>6. a \in Actions /\ a.read = "consume" /\ a.write \in {None, "produce"}
  BY TlsState DEF Actions
<1>7. tx.buffers # <<>> /\ ~arm => a.write = "produce"
  BY <1>6, TlsState
<1> HIDE DEF r, w, l2, a, was, arm
<1>8. CASE arm
  BY <1>1, <1>3, <1>4, <1>6, <1>8, NoneAssumption DEF Loops, Actions
<1>9. CASE ~arm
  BY <1>1, <1>3, <1>4, <1>5, <1>6, <1>7, <1>9, NoneAssumption
<1> QED
  BY <1>8, <1>9

\* A consumer that waits to write has the writer to itself.
LEMMA ConsumeOnWritableKeeps ==
    ASSUME ServicesInv, At("transport"), ssl.on, run.what = "consume",
           ConsumeOnWritable(loop)
    PROVE  /\ loop' \in Loops /\ actions' \in Actions /\ loop'.queue = loop.queue
           /\ loop'.reader = None /\ loop'.writer # None
           /\ actions'.read = None /\ actions'.write = "consume"
<1> DEFINE r == IF actions.read # None THEN None ELSE loop.reader
           w == IF actions.write = None THEN "transport" ELSE loop.writer
<1>1. /\ loop' = [loop EXCEPT !.writer = w, !.reader = r]
      /\ actions' = [read |-> None, write |-> "consume"]
  BY DEF ConsumeOnWritable, Watches
<1>2. loop \in Loops /\ TlsEvents
  BY TlsState
<1>3. r = None /\ w \in {"connect", "handshake", "transport"}
  BY <1>2, NoneAssumption DEF TlsEvents, Loops
<1> HIDE DEF r, w
<1>4. /\ loop' \in Loops /\ loop'.queue = loop.queue /\ loop'.reader = r /\ loop'.writer = w
  BY <1>1, <1>2, <1>3 DEF Loops
<1> QED
  BY <1>1, <1>3, <1>4, NoneAssumption DEF Actions

\* After a produce the consumer has an event or the reader is queued.
LEMMA ProduceOnKeeps ==
    ASSUME NEW l \in Loops, NEW a \in Actions, ProduceOn(l, a),
           l.reader # None <=> a.read # None, l.writer # None <=> a.write # None
    PROVE  /\ loop' \in Loops /\ actions' \in Actions /\ actions'.read # None
           /\ loop'.reader # None /\ (loop'.writer # None <=> actions'.write # None)
           /\ actions'.write = a.write
           /\ actions'.read = IF a.read = None THEN "consume" ELSE a.read
           /\ \A d : Holds(loop'.queue, d) => Holds(l.queue, d) \/ d = "readable"
           /\ ssl.pending > 0 => Holds(loop'.queue, "readable")
<1>1. "readable" \in Callbacks
  BY DEF Callbacks
<1>2. CASE a.read = None
  <2> DEFINE watched == [l EXCEPT !.reader = "transport"]
  <2>1. /\ watched \in Loops /\ watched.reader = "transport" /\ watched.writer = l.writer
        /\ watched.queue = l.queue
    BY DEF Loops
  <2>2. loop' = Queued(watched, "readable") /\ actions' = [a EXCEPT !.read = "consume"]
    BY <1>2 DEF ProduceOn
  <2> HIDE DEF watched
  <2>4. /\ loop' \in Loops /\ loop'.reader = "transport" /\ loop'.writer = l.writer
        /\ Holds(loop'.queue, "readable")
        /\ \A d : Holds(loop'.queue, d) => Holds(l.queue, d) \/ d = "readable"
    BY <1>1, <2>1, <2>2, QueuedLoop
  <2>5. actions' \in Actions /\ actions'.read = "consume" /\ actions'.write = a.write
    BY <2>2 DEF Actions
  <2> QED
    BY <1>2, <2>2, <2>4, <2>5, NoneAssumption
<1>3. CASE a.read # None
  <2>1. /\ loop' = IF ssl.pending > 0 THEN Queued(l, "readable") ELSE l
        /\ actions' = a
    BY <1>3 DEF ProduceOn
  <2> QED
    BY <1>1, <1>3, <2>1, QueuedLoop
<1> QED
  BY <1>2, <1>3

\* A consume or a produce that ends in an active TLS transport leaves the events
\* that the actions need.
LEMMA TlsLoop ==
    ASSUME ServicesInv, TlsConsumeEnds \/ TlsProduceEnds
    PROVE  /\ loop' \in Loops /\ actions' \in Actions /\ TlsEvents'
           /\ \A d : Holds(loop'.queue, d) => InQueue(d) \/ d = "readable"
<1>1. /\ At("transport") /\ ssl.on /\ run' = Ended /\ UNCHANGED <<service, tx, ssl>>
      /\ TlsConsumeEnds => run.what = "consume"
      /\ TlsProduceEnds => run.what = "produce"
  BY DEF TlsConsumeEnds, TlsProduceEnds, Doing, ServicesInv, RunsService
<1>2. run'.what = "idle"
  BY <1>1 DEF Ended, ServicesInv, Typed, Runs
<1>3. loop \in Loops /\ actions \in Actions /\ TlsEvents /\ "readable" \in Callbacks
  BY <1>1, TlsState DEF Callbacks
<1>4. ASSUME NEW l \in Loops, l.reader = loop.reader, l.writer = loop.writer,
             ConsumeOnReadable(l), TlsConsumeEnds,
             ssl.pending > 0 => Holds(l.queue, "readable"),
             \A d : Holds(l.queue, d) => InQueue(d) \/ d = "readable"
      PROVE  /\ loop' \in Loops /\ actions' \in Actions /\ TlsEvents'
             /\ \A d : Holds(loop'.queue, d) => InQueue(d) \/ d = "readable"
  <2>1. /\ loop' \in Loops /\ actions' \in Actions /\ loop'.queue = l.queue
        /\ loop'.reader # None /\ (loop'.writer # None <=> actions'.write # None)
        /\ actions'.read = "consume" /\ actions'.write \in {None, "produce"}
        /\ tx.buffers # <<>> => actions'.write = "produce"
    BY <1>1, <1>4, ConsumeOnReadableKeeps
  <2>2. ssl'.pending > 0 => InQueue("readable")'
    BY <1>1, <1>4, <2>1 DEF InQueue
  <2> QED
    BY <1>1, <1>2, <1>4, <2>1, <2>2, NoneAssumption DEF TlsEvents, ActionPairs
<1>5. CASE TlsConsumeEnds
  <2>1. CASE ConsumeOnReadable(Queued(loop, "readable"))
    BY <1>3, <1>4, <1>5, <2>1, QueuedLoop DEF InQueue
  <2>2. CASE ssl.pending = 0 /\ ConsumeOnReadable(loop)
    BY <1>3, <1>4, <1>5, <2>2 DEF InQueue
  <2>3. CASE ssl.pending = 0 /\ ConsumeOnWritable(loop)
    <3>1. /\ loop' \in Loops /\ actions' \in Actions
          /\ loop'.reader = None /\ loop'.writer # None /\ loop'.queue = loop.queue
          /\ actions'.read = None /\ actions'.write = "consume"
      BY <1>1, <1>5, <2>3, ConsumeOnWritableKeeps
    <3> QED
      BY <1>1, <1>2, <2>3, <3>1, NoneAssumption DEF TlsEvents, ActionPairs, InQueue
  <2> QED
    BY <1>5, <2>1, <2>2, <2>3 DEF TlsConsumeEnds
<1>6. ASSUME NEW l \in Loops, NEW a \in Actions, ProduceOn(l, a),
             l.reader # None <=> a.read # None, l.writer # None <=> a.write # None,
             \/ tx.buffers = <<>> /\ a.write = None /\ a.read \in {None, "consume"}
             \/ a.write = "produce" /\ a.read \in {None, "consume"}
             \/ tx.buffers # <<>> /\ a.write = None /\ a.read = "produce",
             l.queue = loop.queue
      PROVE  /\ loop' \in Loops /\ actions' \in Actions /\ TlsEvents'
             /\ \A d : Holds(loop'.queue, d) => InQueue(d) \/ d = "readable"
  <2>1. /\ loop' \in Loops /\ actions' \in Actions /\ actions'.read # None
        /\ loop'.reader # None /\ (loop'.writer # None <=> actions'.write # None)
        /\ actions'.write = a.write
        /\ actions'.read = IF a.read = None THEN "consume" ELSE a.read
        /\ ssl.pending > 0 => Holds(loop'.queue, "readable")
        /\ \A d : Holds(loop'.queue, d) => InQueue(d) \/ d = "readable"
    BY <1>6, ProduceOnKeeps DEF InQueue
  <2>2. ssl'.pending > 0 => InQueue("readable")'
    BY <1>1, <2>1 DEF InQueue
  <2>3. <<actions'.read, actions'.write>> \in ActionPairs
    BY <1>6, <2>1, NoneAssumption DEF ActionPairs
  <2>4. /\ tx.buffers # <<>> => <<actions'.read, actions'.write>> # <<"consume", None>>
        /\ actions'.read = "produce" => tx.buffers # <<>>
    BY <1>6, <2>1, NoneAssumption
  <2> QED
    BY <1>1, <1>2, <2>1, <2>2, <2>3, <2>4 DEF TlsEvents
<1>7. CASE TlsProduceEnds
  <2>1. \/ actions.read = "consume" /\ actions.write = "produce"
        \/ actions.read = "produce" /\ actions.write = None
    BY <1>1, <1>7, TlsState, NoneAssumption DEF TlsEvents
  <2>2. CASE ProduceOnWritable
    <3> DEFINE was == actions.read = "produce"
               r == IF was THEN None ELSE loop.reader
               w == IF actions.write = None THEN "transport" ELSE loop.writer
               l == [loop EXCEPT !.writer = w, !.reader = r]
               a == [write |-> "produce", read |-> IF was THEN None ELSE actions.read]
    <3>1. ProduceOn(l, a)
      BY <2>2 DEF ProduceOnWritable
    <3>2. /\ a \in Actions /\ a.write = "produce" /\ a.read \in {None, "consume"}
          /\ (r # None <=> a.read # None) /\ w # None
      BY <1>3, <2>1, NoneAssumption DEF Actions, TlsEvents
    <3>3. l \in Loops /\ l.reader = r /\ l.writer = w /\ l.queue = loop.queue
      BY <1>3 DEF Loops
    <3> HIDE DEF was, r, w, l, a
    <3>4. /\ l.reader # None <=> a.read # None
          /\ l.writer # None <=> a.write # None
      BY <3>2, <3>3, NoneAssumption
    <3> QED
      BY <1>6, <3>1, <3>2, <3>3, <3>4
  <2>3. CASE tx.buffers # <<>> /\ ProduceOnReadable
    <3> DEFINE r == IF actions.read = None THEN "transport" ELSE loop.reader
               w == IF actions.write # None THEN None ELSE loop.writer
               l == [loop EXCEPT !.reader = r, !.writer = w]
               a == [write |-> None, read |-> "produce"]
    <3>1. ProduceOn(l, a)
      BY <2>3 DEF ProduceOnReadable
    <3>2. tx.buffers # <<>> /\ a \in Actions /\ a.write = None /\ a.read = "produce" /\ r # None /\ w = None
      BY <1>3, <2>1, <2>3, NoneAssumption DEF Actions, TlsEvents
    <3>3. l \in Loops /\ l.reader = r /\ l.writer = w /\ l.queue = loop.queue
      BY <1>3 DEF Loops
    <3> HIDE DEF r, w, l, a
    <3>4. /\ l.reader # None <=> a.read # None
          /\ l.writer # None <=> a.write # None
      BY <3>2, <3>3, NoneAssumption
    <3> QED
      BY <1>6, <3>1, <3>2, <3>3, <3>4
  <2>4. CASE tx.buffers = <<>> /\ ProducedAll
    <3>1. CASE actions.read = "produce"
      <4> DEFINE l == [loop EXCEPT !.reader = None]
                 a == [actions EXCEPT !.read = None]
      <4>1. ProduceOn(l, a)
        BY <2>4, <3>1 DEF ProducedAll
      <4>2. a \in Actions /\ a.write = None /\ a.read = None
        BY <1>3, <2>1, <3>1 DEF Actions
      <4>3. l \in Loops /\ l.reader = None /\ l.writer = None /\ l.queue = loop.queue
        BY <1>3, <2>1, <3>1 DEF Loops, TlsEvents
      <4> HIDE DEF l, a
      <4> QED
        BY <1>6, <2>4, <4>1, <4>2, <4>3
    <3>2. CASE actions.read # "produce"
      <4> DEFINE l == [loop EXCEPT !.writer = None]
                 a == [actions EXCEPT !.write = None]
      <4>1. ProduceOn(l, a)
        BY <2>4, <3>2 DEF ProducedAll
      <4>2. a \in Actions /\ a.write = None /\ a.read = "consume"
        BY <1>3, <2>1, <3>2 DEF Actions
      <4>3. l \in Loops /\ l.reader # None /\ l.writer = None /\ l.queue = loop.queue
        BY <1>3, <2>1, <3>2, NoneAssumption DEF Loops, TlsEvents
      <4> HIDE DEF l, a
      <4> QED
        BY <1>6, <2>4, <4>1, <4>2, <4>3, NoneAssumption
    <3> QED
      BY <3>1, <3>2
  <2> QED
    BY <1>7, <2>2, <2>3, <2>4 DEF TlsProduceEnds
<1> QED
  BY <1>5, <1>7

\* Every step keeps what is queued and registered in line with the service at work.
LEMMA ConnectorEventsKept ==
    ASSUME ServicesInv, [Next]_vars
    PROVE  loop' \in Loops /\ ConnectorEvents'
<1>1. /\ loop \in Loops /\ ConnectorEvents /\ ssl'.on = ssl.on /\ service \in Services
      /\ service' \in Services /\ wire \in Wires
  BY OutsideKept, OutcomesKept DEF ServicesInv, Typed
<1>2. CASE UNCHANGED <<loop, service>> /\ wire'.open = wire.open
  BY <1>1, <1>2 DEF ConnectorEvents, InQueue
<1>3. CASE /\ loop' \in Loops /\ At("transport") /\ UNCHANGED service
           /\ wire'.open = wire.open
           /\ \A d : Holds(loop'.queue, d) => InQueue(d) \/ d = "readable"
  BY <1>1, <1>3 DEF ConnectorEvents, At, InQueue
<1>4. CASE ThreadDelivers
  <2>1. UNCHANGED <<service, wire>>
    BY <1>4 DEF ThreadDelivers
  <2>2. CASE At("resolver") /\ loop' = Queued(loop, "resolved")
    <3>1. "resolved" \in Callbacks
      BY DEF Callbacks
    <3> QED
      BY <1>1, <2>1, <2>2, <3>1, QueuedLoop DEF ConnectorEvents, At, InQueue
  <2> QED
    BY <1>2, <1>4, <2>1, <2>2 DEF ThreadDelivers
<1>5. CASE DispatchResult
  <2>1. Turn("resolved") /\ loop' = Taken /\ UNCHANGED wire
    BY <1>5 DEF DispatchResult
  <2>2. CASE At("resolver") /\ \E ok \in BOOLEAN : Complete(ok)
    <3>1. service'.kind = "resolver" /\ service'.state = "completed"
      BY <1>1, <2>2 DEF Complete, At, Services
    <3> QED
      BY <1>1, <2>1, <2>2, <3>1, TakenLoop DEF ConnectorEvents, At, InQueue
  <2>3. CASE UNCHANGED service
    BY <1>1, <2>1, <2>3, TakenLoop DEF ConnectorEvents, InQueue
  <2> QED
    BY <1>5, <2>2, <2>3 DEF DispatchResult
<1>6. CASE StartSocket
  <2>1. /\ service = [kind |-> "resolver", state |-> "completed", ok |-> TRUE]
        /\ service' = [kind |-> "socket", state |-> "active", ok |-> FALSE]
        /\ loop' = Queued(loop, "startSocket") /\ UNCHANGED wire
    BY <1>6 DEF StartSocket, StartNext
  <2>2. "startSocket" \in Callbacks
    BY DEF Callbacks
  <2>3. loop' \in Loops /\ loop'.reader = None /\ loop'.writer = None
    BY <1>1, <2>1, <2>2, QueuedLoop DEF ConnectorEvents
  <2>4. Once(loop'.queue, "startSocket")
    BY <1>1, <2>1, <2>2, QueuedLoop DEF ConnectorEvents, InQueue
  <2>5. ~Holds(loop'.queue, "lost") /\ ~Holds(loop'.queue, "failed")
    BY <1>1, <2>1, <2>2, QueuedLoop DEF ConnectorEvents, InQueue
  <2> QED
    BY <1>1, <2>1, <2>3, <2>4, <2>5 DEF ConnectorEvents, InQueue
<1>7. CASE StartStream
  <2>1. /\ service = [kind |-> "socket", state |-> "completed", ok |-> TRUE]
        /\ service' = [kind |-> "stream", state |-> "active", ok |-> FALSE]
        /\ loop' = Queued(loop, "startStream") /\ UNCHANGED wire
    BY <1>7 DEF StartStream, StartNext
  <2>2. "startStream" \in Callbacks
    BY DEF Callbacks
  <2>3. loop' \in Loops /\ loop'.reader = None /\ loop'.writer = None
    BY <1>1, <2>1, <2>2, QueuedLoop DEF ConnectorEvents
  <2>4. ~Holds(loop'.queue, "lost") /\ ~Holds(loop'.queue, "failed")
    BY <1>1, <2>1, <2>2, QueuedLoop DEF ConnectorEvents, InQueue
  <2> QED
    BY <1>1, <2>1, <2>3, <2>4 DEF ConnectorEvents, InQueue
<1>8. CASE Cancel
  <2>1. /\ service' = [service EXCEPT !.state = "canceled"]
        /\ loop' = [loop EXCEPT !.reader = None, !.writer = None]
        /\ wire' = [wire EXCEPT !.open = service.kind # "stream"]
        /\ service.kind # "transport"
    BY <1>8 DEF Cancel, Unwatched
  <2>2. service'.kind = service.kind /\ service'.state = "canceled"
    BY <1>1, <2>1 DEF Services
  <2>3. /\ loop' \in Loops /\ loop'.reader = None /\ loop'.writer = None
        /\ loop'.queue = loop.queue
    BY <1>1, <2>1, WatchedLoop
  <2>4. ~wire'.open => service.kind = "stream"
    BY <1>1, <2>1 DEF Wires
  <2> QED
    BY <1>1, <2>1, <2>2, <2>3, <2>4 DEF ConnectorEvents, InQueue
<1>9. CASE SocketStartAsync
  <2>1. Turn("startSocket")
    BY <1>9 DEF SocketStartAsync
  <2>2. CASE At("socket") /\ loop' = [Taken EXCEPT !.writer = "connect"]
             /\ wire' = [wire EXCEPT !.connect = "pending"] /\ UNCHANGED service
    <3>1. /\ Taken \in Loops /\ ~Holds(Taken.queue, "startSocket") /\ Taken.reader = None
          /\ Once(Taken.queue, "startSocket")
          /\ ~Holds(Taken.queue, "lost") /\ ~Holds(Taken.queue, "failed")
      BY <1>1, <2>1, <2>2, TakenLoop DEF ConnectorEvents, At
    <3>2. /\ loop' \in Loops /\ loop'.reader = None /\ loop'.queue = Taken.queue
      BY <2>2, <3>1 DEF Loops
    <3>3. wire'.open = wire.open
      BY <1>1, <2>2 DEF Wires
    <3> QED
      BY <1>1, <2>2, <3>1, <3>2, <3>3 DEF ConnectorEvents, At, InQueue
  <2>3. CASE At("socket") /\ Complete(FALSE) /\ loop' = Taken /\ UNCHANGED wire
    <3>1. service'.kind = "socket" /\ service'.state = "completed"
      BY <1>1, <2>3 DEF Complete, At, Services
    <3>2. /\ Taken \in Loops /\ Taken.reader = None /\ Taken.writer = None
          /\ Once(Taken.queue, "startSocket")
          /\ ~Holds(Taken.queue, "lost") /\ ~Holds(Taken.queue, "failed")
      BY <1>1, <2>1, <2>3, TakenLoop DEF ConnectorEvents, At
    <3> QED
      BY <1>1, <2>3, <3>1, <3>2 DEF ConnectorEvents, At, InQueue
  <2>4. CASE loop' = Taken /\ UNCHANGED <<service, wire>>
    BY <1>1, <2>1, <2>4, TakenLoop DEF ConnectorEvents, InQueue
  <2> QED
    BY <1>9, <2>2, <2>3, <2>4 DEF SocketStartAsync
<1>10. CASE SocketWritable
  <2>1. /\ At("socket") /\ \E ok \in BOOLEAN : Complete(ok)
        /\ loop' = [loop EXCEPT !.writer = None] /\ UNCHANGED wire
    BY <1>10 DEF SocketWritable
  <2>2. service'.kind = "socket" /\ service'.state = "completed"
    BY <1>1, <2>1 DEF Complete, At, Services
  <2>3. /\ loop' \in Loops /\ loop'.writer = None /\ loop'.reader = loop.reader
        /\ loop'.queue = loop.queue
    BY <1>1, <2>1 DEF Loops
  <2> QED
    BY <1>1, <2>1, <2>2, <2>3 DEF ConnectorEvents, At, InQueue
<1>11. CASE StreamStartAsync \/ HandshakeDone
  <2>1. CASE At("stream") /\ \E l \in Loops : /\ Linkup(l)
                                              /\ \A d : Holds(l.queue, d) => InQueue(d)
    <3>1. PICK l \in Loops : Linkup(l) /\ \A d : Holds(l.queue, d) => InQueue(d)
      BY <2>1
    <3>2. service' = [kind |-> "transport", state |-> "active", ok |-> TRUE] /\ UNCHANGED wire
      BY <3>1 DEF Linkup
    <3> DEFINE watched == [l EXCEPT !.reader = "transport"]
    <3>3. watched \in Loops /\ watched.queue = l.queue
      BY DEF Loops
    <3>4. loop' = watched \/ loop' = Queued(watched, "readable")
      BY <3>1 DEF Linkup
    <3>5. "readable" \in Callbacks
      BY DEF Callbacks
    <3> HIDE DEF watched
    <3>6. loop' \in Loops /\ \A d : Holds(loop'.queue, d) => InQueue(d) \/ d = "readable"
      BY <3>1, <3>3, <3>4, <3>5, QueuedLoop
    <3> QED
      BY <1>1, <2>1, <3>2, <3>6 DEF ConnectorEvents, At, InQueue
  <2>2. CASE At("stream") /\ \E l \in Loops : /\ StreamFails(l)
                                              /\ \A d : Holds(l.queue, d) => InQueue(d)
    <3>1. PICK l \in Loops : StreamFails(l) /\ \A d : Holds(l.queue, d) => InQueue(d)
      BY <2>2
    <3>2. /\ loop' = [l EXCEPT !.reader = None, !.writer = None]
          /\ wire' = [wire EXCEPT !.open = FALSE] /\ Complete(FALSE)
      BY <3>1 DEF StreamFails, Unwatched
    <3>3. service'.kind = "stream" /\ service'.state = "completed"
      BY <1>1, <2>2, <3>2 DEF Complete, At, Services
    <3>4. /\ loop' \in Loops /\ loop'.reader = None /\ loop'.writer = None
          /\ loop'.queue = l.queue
      BY <3>2, WatchedLoop
    <3>5. ~Holds(loop'.queue, "lost") /\ ~Holds(loop'.queue, "failed")
      BY <1>1, <2>2, <3>1, <3>4 DEF ConnectorEvents, At
    <3> QED
      BY <1>1, <3>2, <3>3, <3>4, <3>5 DEF ConnectorEvents, InQueue
  <2>3. Unwatched(loop) \in Loops /\ Unwatched(loop).queue = loop.queue
    BY <1>1, WatchedLoop DEF Unwatched
  <2>4. CASE HandshakeDone
    <3>1. At("stream")
      BY <2>4 DEF HandshakeDone, Doing, ServicesInv, RunsService
    <3> QED
      BY <1>1, <2>1, <2>2, <2>3, <2>4, <3>1 DEF HandshakeDone, InQueue
  <2>5. CASE StreamStartAsync
    <3>1. Turn("startStream")
      BY <2>5 DEF StreamStartAsync
    <3>2. /\ Taken \in Loops /\ \A d : Holds(Taken.queue, d) => InQueue(d)
          /\ Taken.reader = loop.reader /\ Taken.writer = loop.writer
          /\ Once(loop.queue, "startSocket") => Once(Taken.queue, "startSocket")
      BY <1>1, <3>1, TakenLoop
    <3>3. CASE loop' = Taken /\ UNCHANGED <<service, wire>>
      BY <1>1, <3>2, <3>3 DEF ConnectorEvents, InQueue
    <3> QED
      BY <2>1, <2>2, <2>5, <3>2, <3>3 DEF StreamStartAsync
  <2> QED
    BY <1>11, <2>4, <2>5
<1>12. CASE HandshakeWants
  <2>1. At("stream") /\ ssl.on /\ UNCHANGED <<service, wire>>
    BY <1>12 DEF HandshakeWants, Doing, ServicesInv, RunsService
  <2>2. \E r, w \in {None, "handshake"} : loop' = [loop EXCEPT !.reader = r, !.writer = w]
    BY <1>1, <1>12 DEF HandshakeWants, Loops
  <2>3. loop' \in Loops /\ loop'.queue = loop.queue
    BY <1>1, <2>2 DEF Loops
  <2> QED
    BY <1>1, <2>1, <2>3 DEF ConnectorEvents, At, InQueue
<1>13. CASE UserAbort \/ ConsumeFails \/ ProduceFails
  <2>1. UNCHANGED wire /\ service.kind = "transport"
    BY <1>13 DEF UserAbort, ConsumeFails, ProduceFails, Doing, At, ServicesInv, RunsService
  <2>2. PICK error \in BOOLEAN : Abort(error)
    BY <1>13 DEF UserAbort, ConsumeFails, ProduceFails, ServicesInv, Engines, Typed
  <2> DEFINE quiet == IF service.state = "active" THEN Unwatched(loop) ELSE loop
             callback == IF error THEN "failed" ELSE "lost"
  <2>3. quiet \in Loops /\ quiet.reader = None /\ quiet.writer = None
    <3>1. CASE service.state = "active"
      BY <1>1, <3>1, WatchedLoop DEF Unwatched
    <3>2. CASE service.state # "active"
      BY <1>1, <3>2 DEF ConnectorEvents
    <3> QED
      BY <3>1, <3>2
  <2>4. loop' = quiet \/ loop' = Queued(quiet, callback)
    BY <2>2 DEF Abort
  <2>5. callback \in Callbacks
    BY DEF Callbacks
  <2> HIDE DEF quiet, callback
  <2>6. loop' \in Loops /\ loop'.reader = None /\ loop'.writer = None
    BY <2>3, <2>4, <2>5, QueuedLoop
  <2>7. service'.kind = "transport"
    BY <1>1, <2>1, <2>2 DEF Abort, Services
  <2>8. service'.state # "active"
    <3>1. CASE service.state = "active"
      BY <1>1, <2>2, <3>1 DEF Abort, Services
    <3>2. CASE service.state # "active"
      BY <1>1, <2>2, <3>2 DEF Abort, Services
    <3> QED
      BY <3>1, <3>2
  <2> QED
    BY <2>6, <2>7, <2>8 DEF ConnectorEvents
<1>14. CASE Notify
  <2>1. PICK c : Turn(c) /\ loop' = Taken /\ c \in {"lost", "failed"}
    BY <1>14 DEF Notify
  <2>2. service.kind = "transport"
    BY <1>1, <2>1, TakenLoop DEF ConnectorEvents
  <2>3. CASE UNCHANGED <<service, wire>>
    BY <1>1, <2>1, <2>2, <2>3, TakenLoop DEF ConnectorEvents
  <2>4. CASE service' = [service EXCEPT !.state = "completed"]
    <3>1. service'.kind = "transport" /\ service'.state = "completed"
      BY <1>1, <2>2, <2>4 DEF Services
    <3>2. Taken \in Loops /\ Taken.reader = None /\ Taken.writer = None
      <4>1. service.state # "active"
        BY <1>1, <2>1, TakenLoop DEF ConnectorEvents
      <4>2. loop.reader = None /\ loop.writer = None
        BY <1>1, <4>1 DEF ConnectorEvents
      <4> QED
        BY <1>1, <2>1, <4>2, TakenLoop
    <3> QED
      BY <1>1, <2>1, <3>1, <3>2 DEF ConnectorEvents
  <2> QED
    BY <1>14, <2>3, <2>4 DEF Notify
<1>15. CASE ReadableQueued
  BY <1>1, <1>15, TakenLoop DEF ReadableQueued, ConnectorEvents, InQueue
<1>16. CASE TlsConsumeEnds \/ TlsProduceEnds
  BY <1>3, <1>16, TlsLoop DEF TlsConsumeEnds, TlsProduceEnds, Doing, ServicesInv, RunsService
<1>17. CASE ProduceEnds \/ \E bytes \in 1..2 : Write(bytes)
  <2>1. At("transport") /\ UNCHANGED <<service, wire>>
    BY <1>17 DEF ProduceEnds, Write, Doing, ServicesInv, RunsService
  <2>2. \/ UNCHANGED loop
        \/ \E w \in {None, "transport"} : loop' = [loop EXCEPT !.writer = w]
    BY <1>17 DEF ProduceEnds, Write
  <2>3. loop' \in Loops /\ loop'.queue = loop.queue
    BY <1>1, <2>2 DEF Loops
  <2> QED
    BY <1>3, <2>1, <2>3 DEF InQueue
<1>18. CASE \/ ThreadStarts \/ Resolve \/ HandshakeEvent \/ ReadableEvent \/ WritableEvent
            \/ DataReceived \/ ConsumeEnds \/ UNCHANGED vars
  BY <1>2, <1>18 DEF ThreadStarts, Resolve, HandshakeEvent, ReadableEvent, WritableEvent,
        DataReceived, ConsumeEnds, vars
<1>19. CASE Engine
  <2>1. UNCHANGED <<loop, service>>
    BY <1>19 DEF Engine, EngineWrites, EngineReads, EngineAsked, EngineKeeps
  <2>2. wire'.open = wire.open
    BY <1>1, <1>19 DEF Engine, EngineWrites, EngineReads, EngineAsked, EngineKeeps, Wires
  <2> QED
    BY <1>2, <2>1, <2>2
<1>20. CASE Connects \/ PeerReads \/ PeerAnswers \/ PeerSends
  <2>1. UNCHANGED <<loop, service>>
    BY <1>20 DEF Connects, PeerReads, PeerAnswers, PeerSends
  <2>2. wire'.open = wire.open
    BY <1>1, <1>20 DEF Connects, PeerReads, PeerAnswers, PeerSends, Wires
  <2> QED
    BY <1>2, <2>1, <2>2
<1>21. CASE Receives \/ Sends
  <2>1. UNCHANGED <<loop, service>>
    BY <1>21 DEF Receives, Sends
  <2>2. wire'.open = wire.open
    BY <1>1, <1>21 DEF Receives, Sends, Wires
  <2> QED
    BY <1>2, <2>1, <2>2
<1> QED
  BY <1>4, <1>5, <1>6, <1>7, <1>8, <1>9, <1>10, <1>11, <1>12, <1>13, <1>14, <1>15, <1>16,
     <1>17, <1>18, <1>19, <1>20, <1>21
     DEF Next, Thread, Loop, Connectors, Transport, User

-----------------------------------------------------------------------------
(* The transport's part of the invariant.                                  *)

\* There is a transport from a connector's linkup on.
LEMMA KindMoves ==
    ASSUME ServicesInv, [Next]_vars
    PROVE  /\ service'.kind # "transport" => service.kind # "transport"
           /\ At("transport")' => \/ At("transport")
                                  \/ At("stream") /\ (StreamStartAsync \/ HandshakeDone)
<1>1. service \in Services /\ Outcomes
  BY DEF ServicesInv, Typed
<1>2. CASE UNCHANGED service
  BY <1>2 DEF At
<1>3. CASE service' = [service EXCEPT !.state = service'.state] /\ service'.state # "active"
  BY <1>1, <1>3 DEF At, Services
<1>4. ASSUME NEW ok \in BOOLEAN, Complete(ok)
      PROVE  service'.kind = service.kind /\ service'.state = "completed"
  BY <1>1, <1>4 DEF Complete, Services
<1>5. CASE DispatchResult \/ SocketStartAsync \/ SocketWritable
  BY <1>2, <1>4, <1>5 DEF DispatchResult, SocketStartAsync, SocketWritable, At
<1>6. CASE StartSocket \/ StartStream
  BY <1>6 DEF StartSocket, StartStream, StartNext, At
<1>7. CASE Cancel \/ Notify
  <2>1. \/ UNCHANGED service
        \/ \E state \in {"canceled", "completed"} :
               service' = [service EXCEPT !.state = state]
    BY <1>7 DEF Cancel, Notify
  <2> QED
    BY <1>1, <1>2, <2>1 DEF At, Services
<1>8. CASE StreamStartAsync \/ HandshakeDone
  <2>1. \/ UNCHANGED service
        \/ At("stream") /\ \E l : Linkup(l)
        \/ At("stream") /\ Complete(FALSE)
    BY <1>8 DEF StreamStartAsync, HandshakeDone, StreamFails, Doing, ServicesInv, RunsService
  <2> QED
    BY <1>2, <1>4, <1>8, <2>1 DEF At, Linkup
<1>9. CASE UserAbort \/ ConsumeFails \/ ProduceFails
  <2>1. PICK error \in BOOLEAN : Abort(error)
    BY <1>9 DEF UserAbort, ConsumeFails, ProduceFails, ServicesInv, Engines, Typed
  <2>2. \/ service' = service /\ service.state # "active"
        \/ service' = [service EXCEPT !.state = IF error THEN "failed" ELSE "aborted"]
    BY <2>1 DEF Abort
  <2> QED
    BY <1>1, <2>2 DEF At, Services
<1>10. CASE Thread \/ HandshakeEvent \/ HandshakeWants \/ Engine \/ UNCHANGED vars
  BY <1>2, <1>10 DEF Thread, ThreadStarts, Resolve, ThreadDelivers, HandshakeEvent,
        HandshakeWants, Engine, EngineWrites, EngineReads, EngineAsked, EngineKeeps, vars
<1>11. CASE \/ ReadableEvent \/ ReadableQueued \/ WritableEvent \/ Receives \/ DataReceived
            \/ ConsumeEnds \/ TlsConsumeEnds \/ Sends \/ ProduceEnds \/ TlsProduceEnds
            \/ (\E bytes \in 1..2 : Write(bytes))
            \/ Connects \/ PeerReads \/ PeerAnswers \/ PeerSends
  BY <1>2, <1>11 DEF ReadableEvent, ReadableQueued, WritableEvent, Receives, DataReceived,
        ConsumeEnds, TlsConsumeEnds, Sends, ProduceEnds, TlsProduceEnds, Write, Connects,
        PeerReads, PeerAnswers, PeerSends
<1> QED
  BY <1>5, <1>6, <1>7, <1>8, <1>9, <1>10, <1>11 DEF Next, Loop, Connectors, Transport, User

NoBuffers == [buffers |-> <<>>, count |-> 0, written |-> 0, sent |-> <<>>]

\* Only a write and a send change the bytes, and both keep their order.
LEMMA BuffersKept ==
    ASSUME ServicesInv, [Next]_vars
    PROVE  /\ tx' \in Buffers
           /\ service'.kind # "transport" => tx' = NoBuffers
           /\ At("transport")' => Ordered'
<1> USE ServiceBoundsAssumption
<1>1. /\ tx \in Buffers
      /\ service.kind # "transport" => tx = NoBuffers
      /\ At("transport") => Ordered
  BY DEF ServicesInv, Typed, TransportInv, Unused, NoBuffers
<1>2. CASE UNCHANGED tx
  <2>1. tx = NoBuffers => Ordered
    BY DEF Ordered, Ordering, NoBuffers, Start
  <2>2. Ordered => Ordered'
    BY <1>2 DEF Ordered
  <2>3. At("transport")' => Ordered
    BY <1>1, <2>1, KindMoves DEF At
  <2> QED
    BY <1>1, <1>2, <2>2, <2>3, KindMoves
<1>3. CASE UserAbort \/ ConsumeFails \/ ProduceFails
  <2>1. service.kind = "transport"
    BY <1>3 DEF UserAbort, ConsumeFails, ProduceFails, Doing, At, ServicesInv, RunsService
  <2>2. PICK error \in BOOLEAN : Abort(error)
    BY <1>3 DEF UserAbort, ConsumeFails, ProduceFails, ServicesInv, Engines, Typed
  <2>3. CASE service.state # "active"
    BY <1>2, <2>2, <2>3 DEF Abort
  <2>4. CASE service.state = "active"
    <3>1. tx' = [tx EXCEPT !.buffers = <<>>]
      BY <2>2, <2>4 DEF Abort
    <3>2. <<>> \in Seq(Seq(1..MaxWritten))
      OBVIOUS
    <3>3. tx' \in Buffers
      BY <1>1, <3>1, <3>2 DEF Buffers
    <3>4. service'.kind = "transport" /\ service'.state # "active"
      BY <2>1, <2>2, <2>4 DEF Abort, ServicesInv, Typed, Services
    <3> QED
      BY <3>3, <3>4 DEF At
  <2> QED
    BY <2>3, <2>4
<1>4. ASSUME NEW n \in 1..2, Write(n)
      PROVE  tx' \in Buffers /\ service'.kind = "transport" /\ Ordered'
  <2>1. /\ At("transport") /\ UNCHANGED service /\ tx.written + n <= MaxWritten
        /\ tx' = [tx EXCEPT !.buffers = Append(tx.buffers, [i \in 1..n |-> tx.written + i]),
                            !.count = tx.count + n, !.written = tx.written + n]
    BY <1>4 DEF Write
  <2> DEFINE b == tx.buffers
             c == Append(b, [i \in 1..n |-> tx.written + i])
             w == tx.written + n
  <2>2. /\ b \in Seq(Seq(Bytes)) /\ tx.sent \in Seq(Bytes) /\ tx.written \in 0..MaxWritten
        /\ Ordering(b, tx.sent, tx.written) /\ tx.count = tx.written - Len(tx.sent)
        /\ n \in Nat \ {0}
    BY <1>1, <2>1 DEF Buffers, Bytes, Ordered
  <2>3. c \in Seq(Seq(Bytes)) /\ Ordering(c, tx.sent, w)
    BY <2>1, <2>2, WriteKeepsOrder
  <2>4. w \in 0..MaxWritten
    BY <2>1, <2>2
  <2> HIDE DEF c, w
  <2>5. w - Len(tx.sent) \in 0..MaxWritten
    BY <2>2, <2>3, <2>4, UnsentIsBuffered
  <2>6. tx.count + n = w - Len(tx.sent)
    BY <2>2 DEF w
  <2>7. tx' = [buffers |-> c, count |-> w - Len(tx.sent), written |-> w, sent |-> tx.sent]
    BY <1>1, <2>1, <2>6 DEF Buffers, c, w
  <2>8. tx' \in Buffers
    BY <2>2, <2>3, <2>4, <2>5, <2>7 DEF Buffers, Bytes
  <2>9. /\ tx'.buffers = c /\ tx'.sent = tx.sent /\ tx'.written = w
        /\ tx'.count = w - Len(tx.sent)
    BY <2>7
  <2>10. Ordered'
    BY <2>3, <2>9 DEF Ordered
  <2> QED
    BY <2>1, <2>8, <2>10 DEF At
<1>5. CASE Sends
  <2> DEFINE b == tx.buffers
             s == tx.sent
             w == tx.written
             chunk == Head(b)
             n == IF Len(chunk) < wire.room THEN Len(chunk) ELSE wire.room
             rest == SubSeq(chunk, n + 1, Len(chunk))
             c == IF rest = <<>> THEN Tail(b) ELSE <<rest>> \o Tail(b)
             t == s \o SubSeq(chunk, 1, n)
  <2>1. /\ At("transport") /\ UNCHANGED service /\ b # <<>>
    BY <1>5 DEF Sends, CanSend, Doing, ServicesInv, RunsService
  <2>2. tx' = [tx EXCEPT !.sent = t, !.count = tx.count - n, !.buffers = c]
    BY <1>5 DEF Sends
  <2>3. /\ b \in Seq(Seq(Bytes)) /\ s \in Seq(Bytes) /\ w \in 0..MaxWritten
        /\ Ordering(b, s, w) /\ tx.count = w - Len(s)
    BY <1>1, <2>1 DEF Buffers, Bytes, Ordered
  <2>4. n \in 0..Len(chunk)
    <3>1. Len(chunk) \in Nat
      BY <2>1, <2>3, HeadTailProperties
    <3>2. wire.room \in Nat
      BY DEF ServicesInv, Typed, Wires
    <3> QED
      BY <3>1, <3>2
  <2> HIDE DEF n
  <2>5. /\ c \in Seq(Seq(Bytes)) /\ t \in Seq(Bytes) /\ Len(t) = Len(s) + n
        /\ Ordering(c, t, w)
    BY <2>1, <2>3, <2>4, SendKeepsOrder
  <2> HIDE DEF c, t
  <2>6. w - Len(t) \in 0..MaxWritten
    BY <2>3, <2>5, UnsentIsBuffered
  <2>7. tx.count - n = w - Len(t)
    <3>1. n \in Int /\ Len(s) \in Int
      BY <2>3, <2>4
    <3> QED
      BY <2>3, <2>5, <3>1
  <2>8. tx' = [buffers |-> c, count |-> w - Len(t), written |-> w, sent |-> t]
    BY <1>1, <2>2, <2>7 DEF Buffers
  <2>9. tx' \in Buffers
    BY <2>3, <2>5, <2>6, <2>8 DEF Buffers, Bytes
  <2> QED
    BY <2>1, <2>5, <2>8, <2>9 DEF Ordered, At
<1>6. CASE Thread \/ StartSocket \/ StartStream \/ Cancel \/ Connectors \/ UNCHANGED vars
  BY <1>2, <1>6 DEF Thread, ThreadStarts, Resolve, ThreadDelivers, StartSocket, StartStream,
        StartNext, Cancel, Connectors, DispatchResult, SocketStartAsync, SocketWritable,
        StreamStartAsync, HandshakeEvent, HandshakeWants, HandshakeDone, transport, vars
<1>7. CASE \/ Engine \/ Connects \/ PeerReads \/ PeerAnswers \/ PeerSends \/ Notify
           \/ ReadableEvent \/ ReadableQueued \/ WritableEvent \/ Receives \/ DataReceived
           \/ ConsumeEnds \/ TlsConsumeEnds \/ ProduceEnds \/ TlsProduceEnds
  BY <1>2, <1>7 DEF Engine, EngineWrites, EngineReads, EngineAsked, EngineKeeps, Connects,
        PeerReads, PeerAnswers, PeerSends, Notify, ReadableEvent, ReadableQueued,
        WritableEvent, Receives, DataReceived, ConsumeEnds, TlsConsumeEnds, ProduceEnds,
        TlsProduceEnds, transport
<1> QED
  BY <1>3, <1>4, <1>5, <1>6, <1>7 DEF Next, Loop, Transport, User

\* In an active transport the registered events are those its actions need.
EventsAgree ==
    At("transport") => IF ssl.on THEN TlsEvents ELSE PlainEvents

\* The transport's first events.
LEMMA LinkupEvents ==
    ASSUME ServicesInv, At("stream"), NEW l \in Loops, Linkup(l), l.writer = None,
           run'.what = "idle", UNCHANGED tx, ssl'.on = ssl.on
    PROVE  actions' \in Actions /\ EventsAgree'
<1> DEFINE watched == [l EXCEPT !.reader = "transport"]
<1>1. /\ loop' = IF ssl.on THEN Queued(watched, "readable") ELSE watched
      /\ actions' = [actions EXCEPT !.read = IF ssl.on THEN "consume" ELSE None]
  BY DEF Linkup
<1>2. actions = [read |-> None, write |-> None] /\ tx.buffers = <<>>
  BY DEF ServicesInv, TransportInv, Unused, At
<1>3. actions' = [read |-> IF ssl.on THEN "consume" ELSE None, write |-> None]
  BY <1>1, <1>2
<1>4. watched \in Loops /\ watched.reader = "transport" /\ watched.writer = None
  BY DEF Loops
<1>5. "readable" \in Callbacks
  BY DEF Callbacks
<1> HIDE DEF watched
<1>6. /\ loop'.reader = "transport" /\ loop'.writer = None
      /\ ssl.on => InQueue("readable")'
  BY <1>1, <1>4, <1>5, QueuedLoop DEF InQueue
<1>7. CASE ssl.on
  BY <1>2, <1>3, <1>6, <1>7, NoneAssumption DEF EventsAgree, TlsEvents, ActionPairs, Actions
<1>8. CASE ~ssl.on
  BY <1>2, <1>3, <1>6, <1>8, NoneAssumption DEF EventsAgree, PlainEvents, Actions
<1> QED
  BY <1>7, <1>8

\* A callback that is not the transport's changes nothing for it.
LEMMA OtherTurn ==
    ASSUME ServicesInv, At("transport"), NEW c, c # "readable", Turn(c), loop' = Taken,
           UNCHANGED <<actions, tx, run, ssl>>
    PROVE  EventsAgree'
<1>1. /\ Taken.reader = loop.reader /\ Taken.writer = loop.writer
      /\ InQueue("readable") => Holds(Taken.queue, "readable")
  BY TakenLoop DEF ServicesInv, Typed
<1> QED
  BY <1>1 DEF ServicesInv, TransportInv, EventsAgree, TlsEvents, PlainEvents, InQueue

\* Every step leaves a transport the events that its actions need.
LEMMA EventsKept ==
    ASSUME ServicesInv, [Next]_vars
    PROVE  /\ actions' \in Actions
           /\ service'.kind # "transport" => actions' = [read |-> None, write |-> None]
           /\ EventsAgree'
<1>1. /\ actions \in Actions
      /\ service.kind # "transport" => actions = [read |-> None, write |-> None]
      /\ EventsAgree
  BY DEF ServicesInv, Typed, TransportInv, Unused, EventsAgree
<1>2. ssl \in Engines /\ ssl' \in Engines /\ ssl'.on = ssl.on /\ run \in Runs /\ run' \in Runs
  BY OutsideKept, RunsKept DEF ServicesInv, Typed
<1>3. SUFFICES /\ actions' \in Actions
               /\ service'.kind # "transport" => UNCHANGED actions
               /\ EventsAgree'
  BY <1>1, KindMoves
<1>4. CASE StreamStartAsync
  <2>1. Turn("startStream") /\ UNCHANGED tx
    BY <1>4 DEF StreamStartAsync
  <2>2. /\ Taken \in Loops /\ Taken.writer = loop.writer /\ loop \in Loops
    BY <2>1, TakenLoop DEF ServicesInv, Typed
  <2>3. CASE At("stream") /\ ~ssl.on /\ Linkup(Taken) /\ UNCHANGED <<run, ssl>>
    <3>1. Taken.writer = None
      BY <2>2, <2>3 DEF ServicesInv, ConnectorEvents, At
    <3>2. run'.what = "idle"
      BY <2>1, <2>3 DEF Turn, Idle
    <3>3. service'.kind = "transport"
      BY <2>3 DEF Linkup
    <3> QED
      BY <1>2, <2>1, <2>2, <2>3, <3>1, <3>2, <3>3, LinkupEvents
  <2>4. CASE At("stream") /\ UNCHANGED actions /\ (StreamFails(Taken) \/ UNCHANGED service)
    <3>1. ~At("transport")'
      BY <2>4 DEF At, StreamFails, Complete, ServicesInv, Typed, Services
    <3> QED
      BY <1>1, <2>4, <3>1 DEF EventsAgree
  <2>5. CASE /\ ~At("stream") /\ loop' = Taken
             /\ UNCHANGED <<service, reports, actions, run, ssl, wire>>
    <3>1. CASE At("transport")
      BY <1>1, <2>1, <2>5, <3>1, OtherTurn
    <3>2. CASE ~At("transport")
      BY <1>1, <2>5, <3>2 DEF EventsAgree, At
    <3> QED
      BY <3>1, <3>2
  <2> QED
    BY <1>4, <2>3, <2>4, <2>5 DEF StreamStartAsync
<1>5. CASE HandshakeDone
  <2>1. At("stream") /\ run' = Ended /\ UNCHANGED tx
    BY <1>5 DEF HandshakeDone, Doing, ServicesInv, RunsService
  <2>2. loop \in Loops /\ Unwatched(loop) \in Loops /\ Unwatched(loop).writer = None
    BY WatchedLoop DEF ServicesInv, Typed, Unwatched
  <2>3. CASE Linkup(Unwatched(loop))
    <3>1. run'.what = "idle"
      BY <1>2, <2>1 DEF Ended, Runs
    <3>2. service'.kind = "transport"
      BY <2>3 DEF Linkup
    <3> QED
      BY <1>2, <2>1, <2>2, <2>3, <3>1, <3>2, LinkupEvents
  <2>4. CASE StreamFails(loop) /\ UNCHANGED actions
    <3>1. ~At("transport")'
      BY <2>4 DEF At, StreamFails, Complete, ServicesInv, Typed, Services
    <3> QED
      BY <1>1, <2>4, <3>1 DEF EventsAgree
  <2> QED
    BY <1>5, <2>3, <2>4 DEF HandshakeDone
<1>6. CASE UNCHANGED actions /\ ~At("transport") /\ ~StreamStartAsync /\ ~HandshakeDone
  BY <1>1, <1>6, KindMoves DEF EventsAgree
<1>7. CASE UNCHANGED actions /\ ~At("transport")'
  BY <1>1, <1>7 DEF EventsAgree
<1>8. CASE /\ At("transport") /\ UNCHANGED <<service, loop, actions, tx>>
           /\ \/ ssl'.pending = ssl.pending
              \/ actions.read # None /\ run'.what # "idle"
           /\ \/ run'.what = run.what
              \/ /\ run'.what \in {"consume", "produce"} /\ ssl.on
                 /\ run'.what \in {actions.read, actions.write}
              \/ run'.what = "consume" /\ ~ssl.on /\ run.what = "idle"
              \/ run'.what = "produce" /\ ~ssl.on /\ loop.writer # None
              \/ run'.what = "idle" /\ ~ssl.on /\ run.what = "consume"
  <2>1. CASE ssl.on
    BY <1>1, <1>2, <1>8, <2>1 DEF EventsAgree, TlsEvents, InQueue
  <2>2. CASE ~ssl.on
    BY <1>1, <1>2, <1>8, <2>2 DEF EventsAgree, PlainEvents
  <2> QED
    BY <1>1, <1>8, <2>1, <2>2
<1>9. CASE ThreadDelivers \/ DispatchResult \/ SocketStartAsync
  <2>1. UNCHANGED <<actions, tx, run, ssl>>
    BY <1>9 DEF ThreadDelivers, DispatchResult, SocketStartAsync, transport
  <2>2. CASE At("transport")
    <3>1. UNCHANGED service
      BY <1>9, <2>2 DEF ThreadDelivers, DispatchResult, SocketStartAsync, At
    <3>2. CASE UNCHANGED loop
      BY <1>8, <2>1, <2>2, <3>1, <3>2
    <3>3. CASE \E c \in {"resolved", "startSocket"} : Turn(c) /\ loop' = Taken
      BY <1>1, <2>1, <2>2, <3>3, OtherTurn
    <3> QED
      BY <1>9, <2>2, <3>2, <3>3 DEF ThreadDelivers, DispatchResult, SocketStartAsync, At
  <2>3. CASE ~At("transport")
    BY <1>4, <1>5, <1>6, <2>1, <2>3
  <2> QED
    BY <2>2, <2>3
<1>10. CASE \/ ThreadStarts \/ Resolve \/ Connects \/ PeerReads \/ PeerAnswers \/ PeerSends
            \/ UNCHANGED vars
  <2>1. UNCHANGED <<service, loop, actions, tx, run, ssl>>
    BY <1>10 DEF ThreadStarts, Resolve, Connects, PeerReads, PeerAnswers, PeerSends,
          transport, vars
  <2> QED
    BY <1>4, <1>5, <1>6, <1>8, <2>1
<1>11. CASE StartSocket \/ StartStream \/ Cancel \/ SocketWritable
  <2>1. UNCHANGED actions /\ ~At("transport")
    BY <1>11 DEF StartSocket, StartStream, StartNext, Cancel, SocketWritable, transport, At
  <2> QED
    BY <1>4, <1>5, <1>6, <2>1
<1>12. CASE HandshakeEvent \/ HandshakeWants
  <2>1. UNCHANGED actions /\ ~At("transport")
    BY <1>12 DEF HandshakeEvent, HandshakeWants, Doing, ServicesInv, RunsService, At
  <2> QED
    BY <1>4, <1>5, <1>6, <2>1
<1>13. CASE Engine
  <2>1. UNCHANGED <<service, loop, actions, tx, run>>
    BY <1>13 DEF Engine, EngineWrites, EngineReads, EngineAsked, EngineKeeps, transport
  <2>2. ssl'.pending = ssl.pending \/ (run.what = "produce" /\ ssl.on)
    BY <1>2, <1>13 DEF Engine, EngineWrites, EngineReads, EngineAsked, EngineKeeps, Engines,
          Doing
  <2>3. CASE At("transport")
    <3>1. CASE ssl'.pending = ssl.pending
      BY <1>8, <2>1, <2>3, <3>1
    <3>2. CASE run.what = "produce" /\ ssl.on
      <4>1. actions.read # None
        BY <2>3, <3>2, TlsState, NoneAssumption DEF TlsEvents
      <4> QED
        BY <1>8, <2>1, <2>3, <3>2, <4>1
    <3> QED
      BY <2>2, <3>1, <3>2
  <2>4. CASE ~At("transport")
    BY <1>4, <1>5, <1>6, <2>1, <2>4
  <2> QED
    BY <2>3, <2>4
<1>14. CASE UserAbort \/ ConsumeFails \/ ProduceFails
  <2>1. PICK error \in BOOLEAN : Abort(error) /\ UNCHANGED actions
    BY <1>14 DEF UserAbort, ConsumeFails, ProduceFails, ServicesInv, Engines, Typed
  <2>2. \/ service' = service /\ service.state # "active"
        \/ service' = [service EXCEPT !.state = IF error THEN "failed" ELSE "aborted"]
    BY <2>1 DEF Abort
  <2>3. ~At("transport")'
    BY <2>2 DEF At, ServicesInv, Typed, Services
  <2> QED
    BY <1>7, <2>1, <2>3
<1>15. CASE Notify
  <2>1. UNCHANGED actions /\ (Turn("lost") \/ Turn("failed"))
    BY <1>15 DEF Notify, transport
  <2>2. InQueue("lost") \/ InQueue("failed")
    BY <2>1, TakenLoop DEF ServicesInv, Typed
  <2>3. ~At("transport")
    BY <2>2 DEF ServicesInv, ConnectorEvents, At
  <2> QED
    BY <1>4, <1>5, <1>6, <2>1, <2>3
<1>16. CASE ReadableEvent \/ WritableEvent
  <2>1. UNCHANGED <<service, loop, actions, tx, ssl>> /\ Idle
    BY <1>16 DEF ReadableEvent, WritableEvent
  <2>2. CASE ~At("transport")
    BY <1>4, <1>5, <1>6, <2>1, <2>2
  <2>3. CASE At("transport")
    <3>1. CASE UNCHANGED run
      BY <1>8, <2>1, <2>3, <3>1
    <3>2. CASE ssl.on /\ \E what \in {actions.read, actions.write} \ {None} :
                             run' = [run EXCEPT !.what = what]
      <4>1. run'.what \in {actions.read, actions.write} /\ run'.what \in {"consume", "produce"}
        BY <1>1, <1>2, <3>2 DEF Runs, Actions
      <4> QED
        BY <1>8, <2>1, <2>3, <3>2, <4>1
    <3>3. CASE ~ssl.on /\ \/ run' = [run EXCEPT !.what = "consume"]
                          \/ run' = [run EXCEPT !.what = "produce"] /\ loop.writer # None
      <4>1. \/ run'.what = "consume"
            \/ run'.what = "produce" /\ loop.writer # None
        BY <1>2, <3>3 DEF Runs
      <4> QED
        BY <1>8, <2>1, <2>3, <3>3, <4>1 DEF Idle
    <3> QED
      BY <1>16, <2>3, <3>1, <3>2, <3>3, NoneAssumption
         DEF ReadableEvent, WritableEvent, OnSocketReadable, Begins
  <2> QED
    BY <2>2, <2>3
<1>17. CASE ReadableQueued
  <2>1. /\ UNCHANGED <<service, actions, tx, ssl>> /\ Turn("readable") /\ loop' = Taken
        /\ OnSocketReadable /\ Idle
    BY <1>17 DEF ReadableQueued, Turn
  <2>2. Taken.reader = loop.reader /\ Taken.writer = loop.writer
    BY <2>1, TakenLoop DEF ServicesInv, Typed
  <2>3. CASE ~At("transport")
    BY <1>4, <1>5, <1>6, <2>1, <2>3
  <2>4. CASE At("transport") /\ ssl.on /\ actions.read = None
    <3>1. UNCHANGED run
      BY <2>1, <2>4 DEF OnSocketReadable, Begins
    <3> QED
      BY <1>1, <2>1, <2>2, <2>4, <3>1 DEF EventsAgree, TlsEvents
  <2>5. CASE At("transport") /\ ssl.on /\ actions.read # None
    <3>1. run' = [run EXCEPT !.what = actions.read]
      BY <2>1, <2>5 DEF OnSocketReadable, Begins
    <3>2. run'.what = actions.read /\ run'.what # "idle"
      BY <1>1, <1>2, <2>5, <3>1 DEF Runs, Actions
    <3> QED
      BY <1>1, <2>1, <2>2, <2>5, <3>2 DEF EventsAgree, TlsEvents
  <2>6. CASE At("transport") /\ ~ssl.on
    <3>1. run'.what = "consume"
      BY <1>2, <2>1, <2>6, NoneAssumption DEF OnSocketReadable, Begins, Runs
    <3> QED
      BY <1>1, <2>1, <2>2, <2>6, <3>1 DEF EventsAgree, PlainEvents, Idle
  <2> QED
    BY <2>3, <2>4, <2>5, <2>6
<1>18. CASE Receives
  <2>1. /\ UNCHANGED <<service, loop, actions, tx>> /\ At("transport")
        /\ run.what = "consume" /\ run' = [run EXCEPT !.n = run.n + 1, !.inData = TRUE]
        /\ \/ ssl' = ssl
           \/ ssl.pending > 0 /\ ssl' = [ssl EXCEPT !.pending = ssl.pending - 1]
    BY <1>18 DEF Receives, Doing
  <2>2. run'.what = "consume"
    BY <1>2, <2>1 DEF Runs
  <2>3. CASE ssl' = ssl
    BY <1>8, <2>1, <2>2, <2>3
  <2>4. CASE ssl.pending > 0 /\ ~ssl.on
    BY <1>1, <1>2, <2>1, <2>2, <2>4 DEF EventsAgree, PlainEvents
  <2>5. CASE ssl.pending > 0 /\ ssl.on
    <3>1. actions.read # None
      BY <1>1, <1>2, <2>1, <2>5 DEF EventsAgree, TlsEvents, Engines
    <3> QED
      BY <1>8, <2>1, <2>2, <2>5, <3>1
  <2> QED
    BY <2>1, <2>3, <2>4, <2>5
<1>19. CASE DataReceived
  <2>1. /\ UNCHANGED <<service, loop, actions, tx, ssl>>
        /\ run' = [run EXCEPT !.inData = FALSE]
    BY <1>19 DEF DataReceived
  <2>2. run'.what = run.what
    BY <1>2, <2>1 DEF Runs
  <2> QED
    BY <1>4, <1>5, <1>6, <1>8, <2>1, <2>2
<1>20. CASE ConsumeEnds
  <2>1. /\ UNCHANGED <<service, loop, actions, tx, ssl>> /\ run' = Ended
        /\ run.what = "consume" /\ (~At("transport") \/ ~ssl.on)
    BY <1>20 DEF ConsumeEnds, Doing
  <2>2. run'.what = "idle"
    BY <1>2, <2>1 DEF Ended, Runs
  <2> QED
    BY <1>4, <1>5, <1>6, <1>8, <2>1, <2>2
<1>21. CASE TlsConsumeEnds \/ TlsProduceEnds
  <2>1. ssl.on /\ UNCHANGED service /\ service.kind = "transport"
    BY <1>21 DEF TlsConsumeEnds, TlsProduceEnds, Doing, ServicesInv, RunsService, At
  <2> QED
    BY <1>2, <1>21, <2>1, TlsLoop DEF EventsAgree
<1>22. CASE Sends
  <2>1. /\ At("transport") /\ run.what = "produce" /\ tx.buffers # <<>>
        /\ UNCHANGED <<service, loop, actions, run, ssl>>
    BY <1>22 DEF Sends, CanSend, Doing, ServicesInv, RunsService
  <2> QED
    BY <1>1, <1>2, <2>1 DEF EventsAgree, TlsEvents, PlainEvents, InQueue
<1>23. CASE ProduceEnds
  <2>1. /\ At("transport") /\ run.what = "produce" /\ run' = Ended /\ ~ssl.on
        /\ UNCHANGED <<service, actions, tx, ssl>>
        /\ \/ tx.buffers = <<>> /\ loop' = [loop EXCEPT !.writer = None]
           \/ tx.buffers # <<>> /\ UNCHANGED loop
    BY <1>23 DEF ProduceEnds, CanSend, Doing, ServicesInv, RunsService
  <2>2. run'.what = "idle"
    BY <1>2, <2>1 DEF Ended, Runs
  <2>3. /\ loop'.reader = loop.reader
        /\ loop'.writer = IF tx.buffers = <<>> THEN None ELSE loop.writer
    BY <2>1 DEF ServicesInv, Typed, Loops
  <2> QED
    BY <1>1, <1>2, <2>1, <2>2, <2>3 DEF EventsAgree, PlainEvents
<1>24. ASSUME NEW n \in 1..2, Write(n)
       PROVE  actions' \in Actions /\ service'.kind = "transport" /\ EventsAgree'
  <2> DEFINE register == tx.count = 0 /\ (ssl.on => actions.write = None)
  <2>1. /\ At("transport") /\ UserTurn /\ UNCHANGED <<service, run, ssl>>
        /\ loop' = IF register THEN [loop EXCEPT !.writer = "transport"] ELSE loop
        /\ actions' = IF register /\ ssl.on THEN [actions EXCEPT !.write = "produce"]
                      ELSE actions
    BY <1>24 DEF Write
  <2>2. tx'.buffers # <<>>
    <3>1. tx'.buffers = Append(tx.buffers, [i \in 1..n |-> tx.written + i])
      BY <1>24 DEF Write, ServicesInv, Typed, Buffers
    <3>2. tx.buffers \in Seq(Seq(1..MaxWritten))
      BY DEF ServicesInv, Typed, Buffers
    <3>3. Len(tx'.buffers) = Len(tx.buffers) + 1 /\ Len(tx.buffers) \in Nat
      BY <3>1, <3>2
    <3> QED
      BY <3>3
  <2>3. tx.count = 0 <=> tx.buffers = <<>>
    <3>1. /\ tx.buffers \in Seq(Seq(Bytes)) /\ tx.sent \in Seq(Bytes)
          /\ tx.written \in 0..MaxWritten /\ Ordering(tx.buffers, tx.sent, tx.written)
          /\ tx.count = tx.written - Len(tx.sent)
      BY <2>1 DEF ServicesInv, Typed, TransportInv, Ordered, Buffers, Bytes
    <3> QED
      BY <3>1, UnsentIsBuffered
  <2>4. run.what # "produce"
    BY <2>1 DEF UserTurn, Idle, ServicesInv, RunsService
  <2>5. CASE register
    <3>1. /\ loop'.reader = loop.reader /\ loop'.writer = "transport"
          /\ loop'.queue = loop.queue
      BY <2>1, <2>5 DEF ServicesInv, Typed, Loops
    <3>2. CASE ssl.on
      <4>1. actions'.read = actions.read /\ actions'.write = "produce" /\ actions' \in Actions
        BY <1>1, <2>1, <2>5, <3>2 DEF Actions
      <4>2. actions.read = "consume"
        <5>1. tx.buffers = <<>> /\ actions.write = None
          BY <2>3, <2>5, <3>2
        <5>2. actions.read \in {"consume", "produce"} /\ TlsEvents
          BY <2>1, <3>2, <5>1, TlsState, NoneAssumption
        <5>3. run.what \in {"idle", "consume"}
          BY <2>1 DEF UserTurn, Idle, ServicesInv, RunsService
        <5> QED
          BY <5>1, <5>2, <5>3, NoneAssumption DEF TlsEvents
      <4>3. TlsEvents'
        <5>1. TlsEvents /\ tx.buffers = <<>>
          BY <2>1, <2>3, <2>5, <3>2, TlsState
        <5> QED
          BY <2>1, <2>2, <3>1, <4>1, <4>2, <5>1, NoneAssumption
             DEF TlsEvents, ActionPairs, InQueue
      <4> QED
        BY <1>2, <2>1, <3>2, <4>1, <4>3 DEF EventsAgree, At
    <3>3. CASE ~ssl.on
      BY <1>1, <2>1, <2>2, <2>4, <2>5, <3>1, <3>3, NoneAssumption
         DEF EventsAgree, PlainEvents, At
    <3> QED
      BY <3>2, <3>3
  <2>6. CASE ~register
    <3>1. UNCHANGED <<loop, actions>>
      BY <2>1, <2>6
    <3>2. CASE ssl.on
      <4>1. <<actions.read, actions.write>> # <<"consume", None>>
        BY <2>1, <2>3, <2>6, <3>2, TlsState DEF TlsEvents
      <4> QED
        BY <1>1, <2>1, <2>2, <3>1, <3>2, <4>1 DEF EventsAgree, TlsEvents, InQueue, At
    <3>3. CASE ~ssl.on
      BY <1>1, <2>1, <2>2, <2>3, <2>4, <2>6, <3>1, <3>3 DEF EventsAgree, PlainEvents, At
    <3> QED
      BY <3>2, <3>3
  <2> QED
    BY <2>5, <2>6
<1> QED
  BY <1>4, <1>5, <1>9, <1>10, <1>11, <1>12, <1>13, <1>14, <1>15, <1>16, <1>17, <1>18, <1>19,
     <1>20, <1>21, <1>22, <1>23, <1>24
     DEF Next, Thread, Loop, Connectors, Transport, User

-----------------------------------------------------------------------------
(* The theorems.                                                           *)

\* The resolver starts alone.
LEMMA InitHolds == Init => ServicesInv
<1> SUFFICES ASSUME Init PROVE ServicesInv
  OBVIOUS
<1> USE ServiceBoundsAssumption
<1>1. /\ <<>> \in Seq(Callbacks) /\ <<>> \in Seq(Seq(1..MaxWritten))
      /\ <<>> \in Seq(1..MaxWritten) /\ <<>> \in Seq({"write", "read"})
      /\ <<>> \in Seq({"app", "hs", "eof", "reset"})
      /\ 0 \in 0..MaxWritten /\ 0 \in 0..MaxConsume /\ MaxRoom \in 0..MaxRoom
  OBVIOUS
<1>2. PICK tls \in BOOLEAN : ssl = [on |-> tls, todo |-> <<>>, pending |-> 0]
  BY DEF Init
<1>3. Typed
  BY <1>1, <1>2 DEF Init, Typed, Services, Kinds, Loops, Actions, Runs, Buffers, Engines, Wires
<1>4. Outcomes
  BY DEF Init, Outcomes, Over, Former
<1>5. RunsService
  BY DEF Init, RunsService
<1>6. ConnectorEvents
  BY DEF Init, ConnectorEvents, InQueue, Holds
<1>7. TransportInv
  BY DEF Init, TransportInv, Unused, At
<1> QED
  BY <1>3, <1>4, <1>5, <1>6, <1>7 DEF ServicesInv

\* The invariant is inductive.
LEMMA NextKeeps == ServicesInv /\ [Next]_vars => ServicesInv'
<1> SUFFICES ASSUME ServicesInv, [Next]_vars PROVE ServicesInv'
  OBVIOUS
<1>1. Typed'
  BY OutcomesKept, OutsideKept, RunsKept, ConnectorEventsKept, BuffersKept, EventsKept
     DEF Typed
<1>2. TransportInv'
  BY BuffersKept, EventsKept DEF TransportInv, EventsAgree, Unused, NoBuffers
<1> QED
  BY <1>1, <1>2, OutcomesKept, RunsKept, ConnectorEventsKept DEF ServicesInv

\* The services run one after the other, with what is queued, registered, buffered
\* and under way as each of them needs it.
THEOREM ServicesInvariant == Spec => []ServicesInv
<1>1. Init => ServicesInv
  BY InitHolds
<1>2. ServicesInv /\ [Next]_vars => ServicesInv'
  BY NextKeeps
<1> QED
  BY <1>1, <1>2, PTL DEF Spec

\* Every variable keeps its type; the count of the bytes to send stays within what
\* was written, in whatever pieces the socket takes them.
THEOREM ServicesTypeCorrect == Spec => []TypeOK
<1>1. ServicesInv => TypeOK
  <2> SUFFICES ASSUME ServicesInv PROVE TypeOK
    OBVIOUS
  <2>1. canceled \subseteq Kinds
    BY DEF ServicesInv, Outcomes, Typed, Services
  <2>2. reports \in [Kinds -> 0..2]
    BY DEF ServicesInv, Outcomes
  <2> QED
    BY <2>1, <2>2 DEF ServicesInv, Typed, TypeOK, Services, Loops, Actions, Runs, Buffers,
          Engines, Wires
<1> QED
  BY <1>1, ServicesInvariant, PTL

\* Every service is reported once or canceled, and nothing stays registered for a
\* socket that is closed.
THEOREM OneOutcomeOfEach == Spec => []OneOutcomeEach
<1>1. ServicesInv => OneOutcomeEach
  <2> SUFFICES ASSUME ServicesInv PROVE OneOutcomeEach
    OBVIOUS
  <2>1. \A k \in Kinds : reports[k] <= IF k \in canceled THEN 0 ELSE 1
    <3> SUFFICES ASSUME NEW k \in Kinds
                 PROVE  reports[k] <= IF k \in canceled THEN 0 ELSE 1
      OBVIOUS
    <3>1. reports[k] = IF Over(k) THEN 1 ELSE 0
      BY DEF ServicesInv, Outcomes
    <3>2. k \in canceled => k = service.kind /\ service.state = "canceled"
      BY DEF ServicesInv, Outcomes
    <3>3. service.kind \notin Former(service.kind)
      BY DEF ServicesInv, Typed, Services, Kinds, Former
    <3>4. k \in canceled => ~Over(k)
      BY <3>2, <3>3 DEF Over
    <3> QED
      BY <3>1, <3>4
  <2>2. service.state = "completed" => reports[service.kind] = 1
    BY DEF ServicesInv, Outcomes, Over, Typed, Services
  <2>3. (~wire.open \/ service.state # "active") => loop.reader = None /\ loop.writer = None
    BY DEF ServicesInv, ConnectorEvents
  <2> QED
    BY <2>1, <2>2, <2>3 DEF OneOutcomeEach
<1> QED
  BY <1>1, ServicesInvariant, PTL

\* An active transport's events, actions and buffers agree: no byte is lost, sent
\* twice or out of order, and none waits without an event that will send it.
THEOREM WatchesAndBuffersAlwaysAgree == Spec => []WatchesAndBuffersAgree
<1>1. ServicesInv => WatchesAndBuffersAgree
  <2> SUFFICES ASSUME ServicesInv, At("transport") PROVE WatchesAndBuffersAgree
    BY DEF WatchesAndBuffersAgree
  <2>1. InOrder /\ tx.count = tx.written - Len(tx.sent)
    <3>1. Ordered
      BY DEF ServicesInv, TransportInv
    <3>2. \A k : Before(k) = Start(tx.buffers, tx.sent, k)
      BY DEF Before, Start
    <3> QED
      BY <3>1, <3>2 DEF Ordered, Ordering, InOrder
  <2>2. (run.what = "produce" /\ ssl.on /\ tx.buffers = <<>>) =>
            (actions.read = "produce") # (actions.write = "produce")
    BY TlsState, NoneAssumption DEF TlsEvents
  <2>3. Idle /\ ~ssl.on =>
            loop.reader = "transport" /\ (loop.writer # None <=> tx.buffers # <<>>)
    BY DEF ServicesInv, TransportInv, PlainEvents, Idle
  <2>4. ASSUME Idle, ssl.on
        PROVE  /\ (loop.reader # None <=> actions.read # None)
               /\ (loop.writer # None <=> actions.write # None)
               /\ tx.buffers # <<>> => {actions.read, actions.write} # {"consume", None}
                                           \/ actions.write = "consume"
               /\ "consume" \in {actions.read, actions.write} \/ actions.read = "produce"
               /\ ssl.pending > 0 => Contains(loop.queue, "readable")
    <3>1. TlsEvents
      BY <2>4, TlsState
    <3>2. tx.buffers # <<>> => {actions.read, actions.write} # {"consume", None}
                                   \/ actions.write = "consume"
      BY <2>4, TlsState, NoneAssumption
    <3>3. "consume" \in {actions.read, actions.write} \/ actions.read = "produce"
      BY <2>4, TlsState
    <3>4. ssl.pending > 0 => Contains(loop.queue, "readable")
      <4>1. loop.queue \in Seq(Callbacks)
        BY DEF ServicesInv, Typed, Loops
      <4> QED
        BY <2>4, <3>1, <4>1 DEF TlsEvents, Idle, InQueue, Holds, Contains
    <3> QED
      BY <3>1, <3>2, <3>3, <3>4 DEF TlsEvents
  <2> QED
    BY <2>1, <2>2, <2>3, <2>4 DEF WatchesAndBuffersAgree
<1> QED
  BY <1>1, ServicesInvariant, PTL

=============================================================================
