------------------------- MODULE PikaChannelProofs -------------------------
(***************************************************************************)
(* Proofs about PikaChannel: one synchronous method in flight, and both    *)
(* ends agree on who consumes, for any set of consumer tags and any number *)
(* of calls and deliveries.                                                *)
(***************************************************************************)
EXTENDS PikaChannel, SequenceTheorems, FiniteSetTheorems, WellFoundedInduction, TLAPS

-----------------------------------------------------------------------------
(* Frames.                                                                 *)

Deliver(t, n) == [m |-> "Basic.Deliver", tag |-> t, life |-> n]
OpenOk == [m |-> "Channel.OpenOk"]
BrokerCancel(t) == Tagged("Basic.Cancel", t)
CancelOk(t) == Tagged("Basic.CancelOk", t)

BrokerFrames == Requests \cup {CloseOk} \cup {Tagged("Basic.Reject", t) : t \in Tags}

\* The requests that await a reply, and their replies.
Asking == {r \in Requests : Awaits(r)}
Answers ==
    {OpenOk, CloseOk} \cup {Tagged("Basic.ConsumeOk", t) : t \in Tags}
        \cup {CancelOk(t) : t \in Tags} \cup {Tagged("Ok", f) : f \in Families}
ClientFrames ==
    Answers \cup {ChannelClose} \cup {BrokerCancel(t) : t \in Tags}
        \cup {Deliver(t, n) : t \in Tags, n \in 1..MaxCalls}

\* What the consumer of a tag is about, in each direction.
Consumes(t) == {Consume(t, n, a) : n \in 1..MaxCalls, a \in BOOLEAN}
Cancels(t) == {Cancel(t, w) : w \in BOOLEAN}
Delivers(t) == {Deliver(t, n) : n \in 1..MaxCalls}

-----------------------------------------------------------------------------
(* Frames of a set in a stream.                                            *)

Free(q, S) == \A i \in DOMAIN q : q[i] \notin S
NoneAfter(q, S, T) ==
    \A i, j \in DOMAIN q : i < j /\ q[i] \in S => q[j] \notin T

\* Two streams of which nothing within W tells them apart.
Alike(p, q, W) ==
    \A S, T \in SUBSET W :
        /\ Free(p, S) <=> Free(q, S)
        /\ NoneAfter(p, S, T) <=> NoneAfter(q, S, T)

\* Appending and concatenating stay within the frames.
LEMMA StreamTypes ==
    ASSUME NEW U, NEW q \in Seq(U)
    PROVE  /\ <<>> \in Seq(U)
           /\ \A r \in Seq(U) : q \o r \in Seq(U)
           /\ \A x \in U : Append(q, x) \in Seq(U) /\ Append(q, x) = q \o <<x>> /\ <<x>> \in Seq(U)
           /\ q \o <<>> = q /\ <<>> \o q = q
           /\ q # <<>> => /\ Head(q) \in U /\ Tail(q) \in Seq(U) /\ q = <<Head(q)>> \o Tail(q)
<1>1. /\ <<>> \in Seq(U) /\ \A r \in Seq(U) : q \o r \in Seq(U)
      /\ q \o <<>> = q /\ <<>> \o q = q
      BY EmptySeq, ConcatProperties, ConcatEmptySeq
<1>2. ASSUME NEW x \in U
      PROVE  Append(q, x) \in Seq(U) /\ Append(q, x) = q \o <<x>> /\ <<x>> \in Seq(U)
  <2>1. Append(q, x) \in Seq(U)
        BY AppendProperties
  <2>2. Append(q, x) = q \o <<x>>
        BY AppendIsConcat
  <2>3. <<x>> \in Seq(U)
        OBVIOUS
  <2> QED BY <2>1, <2>2, <2>3
<1>3. ASSUME q # <<>>
      PROVE  Head(q) \in U /\ Tail(q) \in Seq(U) /\ q = <<Head(q)>> \o Tail(q)
  <2>1. Head(q) \in U /\ Tail(q) \in Seq(U)
        BY <1>3, HeadTailProperties
  <2>2. q = <<Head(q)>> \o Tail(q)
        BY <1>3, SMTT(30)
  <2> QED BY <2>1, <2>2
<1> QED BY <1>1, <1>2, <1>3

\* Positions in the concatenation of two streams.
LEMMA JoinPositions ==
    ASSUME NEW T, NEW q \in Seq(T), NEW r \in Seq(T)
    PROVE  /\ DOMAIN q \subseteq DOMAIN (q \o r) /\ \A i \in DOMAIN q : (q \o r)[i] = q[i]
           /\ DOMAIN q \subseteq Nat /\ DOMAIN r \subseteq Nat /\ DOMAIN (q \o r) \subseteq Nat
           /\ Len(q) \in Nat
           /\ \A i \in DOMAIN q : i <= Len(q)
           /\ \A i \in DOMAIN r :
                 /\ Len(q) + i \in DOMAIN (q \o r) /\ Len(q) < Len(q) + i
                 /\ (q \o r)[Len(q) + i] = r[i]
           /\ \A i \in DOMAIN (q \o r) :
                 i \in DOMAIN q \/ (i - Len(q) \in DOMAIN r /\ Len(q) + (i - Len(q)) = i)
<1> DEFINE j == q \o r
<1>1. /\ j \in Seq(T) /\ Len(j) = Len(q) + Len(r)
      /\ \A i \in 1..Len(q) + Len(r) : j[i] = IF i <= Len(q) THEN q[i] ELSE r[i - Len(q)]
      BY ConcatProperties
<1>2. /\ Len(q) \in Nat /\ DOMAIN q = 1..Len(q)
      /\ Len(r) \in Nat /\ DOMAIN r = 1..Len(r)
      BY LenProperties
<1>3. DOMAIN j = 1..Len(q) + Len(r)
      BY <1>1, LenProperties
<1> HIDE DEF j
<1>4. DOMAIN q \subseteq DOMAIN j /\ \A i \in DOMAIN q : j[i] = q[i] /\ i <= Len(q)
      BY <1>1, <1>2, <1>3
<1>5. ASSUME NEW i \in DOMAIN r
      PROVE  Len(q) + i \in DOMAIN j /\ Len(q) < Len(q) + i /\ j[Len(q) + i] = r[i]
  <2> DEFINE n == Len(q) + i
  <2>1. n \in 1..Len(q) + Len(r) /\ ~(n <= Len(q)) /\ n - Len(q) = i /\ Len(q) < n
        BY <1>2
  <2> QED BY <1>1, <1>3, <2>1
<1>6. \A i \in DOMAIN j : i \in DOMAIN q \/ (i - Len(q) \in DOMAIN r /\ Len(q) + (i - Len(q)) = i)
      BY <1>2, <1>3
<1>7. DOMAIN q \subseteq Nat /\ DOMAIN r \subseteq Nat /\ DOMAIN j \subseteq Nat
      BY <1>2, <1>3
<1> QED BY <1>2, <1>4, <1>5, <1>6, <1>7 DEF j

\* One stream after the other.
LEMMA JoinFree ==
    ASSUME NEW U, NEW q \in Seq(U), NEW r \in Seq(U), NEW S
    PROVE  Free(q \o r, S) <=> Free(q, S) /\ Free(r, S)
<1> DEFINE j == q \o r
<1>1. /\ DOMAIN q \subseteq DOMAIN j /\ \A i \in DOMAIN q : j[i] = q[i]
      /\ \A i \in DOMAIN r : Len(q) + i \in DOMAIN j /\ j[Len(q) + i] = r[i]
      /\ \A i \in DOMAIN j :
            i \in DOMAIN q \/ (i - Len(q) \in DOMAIN r /\ Len(q) + (i - Len(q)) = i)
      BY JoinPositions
<1> HIDE DEF j
<1>2. ASSUME Free(j, S)
      PROVE  Free(q, S) /\ Free(r, S)
      BY <1>1, <1>2 DEF Free
<1>3. ASSUME Free(q, S), Free(r, S), NEW i \in DOMAIN j
      PROVE  j[i] \notin S
  <2>1. CASE i \in DOMAIN q
        BY <1>1, <1>3, <2>1 DEF Free
  <2>2. CASE i - Len(q) \in DOMAIN r /\ Len(q) + (i - Len(q)) = i
    <3>1. j[Len(q) + (i - Len(q))] = r[i - Len(q)]
          BY <1>1, <2>2
    <3> QED BY <1>3, <2>2, <3>1 DEF Free
  <2> QED BY <1>1, <2>1, <2>2
<1>4. Free(q, S) /\ Free(r, S) => Free(j, S)
      BY <1>3 DEF Free
<1> QED BY <1>2, <1>4 DEF j

\* The same of two streams joined: the order within each, and none across.
LEMMA JoinNoneAfter ==
    ASSUME NEW U, NEW q \in Seq(U), NEW r \in Seq(U), NEW S, NEW T
    PROVE  NoneAfter(q \o r, S, T) <=>
               /\ NoneAfter(q, S, T) /\ NoneAfter(r, S, T)
               /\ Free(q, S) \/ Free(r, T)
<1> DEFINE j == q \o r
           n == Len(q)
<1>1. /\ DOMAIN q \subseteq DOMAIN j /\ \A i \in DOMAIN q : j[i] = q[i]
      /\ DOMAIN q \subseteq Nat /\ DOMAIN r \subseteq Nat /\ DOMAIN j \subseteq Nat
      /\ n \in Nat /\ \A i \in DOMAIN q : i <= n
      BY JoinPositions
<1>2. \A i \in DOMAIN r : n + i \in DOMAIN j /\ n < n + i /\ j[n + i] = r[i]
      BY JoinPositions
<1>3. \A i \in DOMAIN j : i \in DOMAIN q \/ (i - n \in DOMAIN r /\ n + (i - n) = i)
      BY JoinPositions
<1>4. /\ DOMAIN q \subseteq DOMAIN j /\ \A i \in DOMAIN q : j[i] = q[i]
      /\ DOMAIN q \subseteq Nat /\ DOMAIN r \subseteq Nat /\ DOMAIN j \subseteq Nat
      /\ n \in Nat /\ \A i \in DOMAIN q : i <= n
      /\ \A i \in DOMAIN r : n + i \in DOMAIN j /\ n < n + i /\ j[n + i] = r[i]
      /\ \A i \in DOMAIN j : i \in DOMAIN q \/ (i - n \in DOMAIN r /\ n + (i - n) = i)
      BY <1>1, <1>2, <1>3
<1> HIDE DEF j, n
<1>5. ASSUME NoneAfter(j, S, T)
      PROVE  /\ NoneAfter(q, S, T) /\ NoneAfter(r, S, T)
             /\ Free(q, S) \/ Free(r, T)
  <2>1. NoneAfter(q, S, T)
        BY <1>4, <1>5 DEF NoneAfter
  <2>2. ASSUME NEW i \in DOMAIN r, NEW k \in DOMAIN r, i < k, r[i] \in S
        PROVE  r[k] \notin T
    <3>1. n + i < n + k
          BY <1>4, <2>2
    <3>2. n + i \in DOMAIN j /\ n + k \in DOMAIN j /\ j[n + i] = r[i] /\ j[n + k] = r[k]
          BY <1>4, <2>2
    <3> QED BY <1>5, <2>2, <3>1, <3>2 DEF NoneAfter
  <2>3. ASSUME NEW i \in DOMAIN q, q[i] \in S, NEW k \in DOMAIN r
        PROVE  r[k] \notin T
    <3>1. i < n + k
          BY <1>4, <2>3
    <3>2. n + k \in DOMAIN j /\ i \in DOMAIN j /\ j[n + k] = r[k] /\ j[i] = q[i]
          BY <1>4, <2>3
    <3> QED BY <1>5, <2>3, <3>1, <3>2 DEF NoneAfter
  <2>4. NoneAfter(r, S, T)
        BY <2>2 DEF NoneAfter
  <2>5. Free(q, S) \/ Free(r, T)
        BY <2>3 DEF Free
  <2> QED BY <2>1, <2>4, <2>5
<1>6. ASSUME NoneAfter(q, S, T), NoneAfter(r, S, T), Free(q, S) \/ Free(r, T),
             NEW i \in DOMAIN j, NEW k \in DOMAIN j, i < k, j[i] \in S
      PROVE  j[k] \notin T
  <2>1. CASE k \in DOMAIN q
    <3>1. i \in DOMAIN q
      <4>1. k <= n /\ i \in Nat /\ k \in Nat
            BY <1>4, <2>1
      <4>2. i - n \notin DOMAIN r
        <5>1. ASSUME i - n \in DOMAIN r
              PROVE  FALSE
          <6>1. n < n + (i - n) /\ n + (i - n) = i
                BY <1>4, <4>1, <5>1
          <6> QED BY <1>4, <1>6, <4>1, <6>1
        <5> QED BY <5>1
      <4> QED BY <1>4, <4>2
    <3> QED BY <1>4, <1>6, <2>1, <3>1 DEF NoneAfter
  <2>2. CASE k - n \in DOMAIN r /\ n + (k - n) = k
    <3>1. j[k] = r[k - n]
      <4>1. j[n + (k - n)] = r[k - n]
            BY <1>4, <2>2
      <4> QED BY <2>2, <4>1
    <3>2. CASE i \in DOMAIN q
          BY <1>4, <1>6, <2>2, <3>1, <3>2 DEF Free
    <3>3. CASE i - n \in DOMAIN r /\ n + (i - n) = i
      <4>1. j[i] = r[i - n]
        <5>1. j[n + (i - n)] = r[i - n]
              BY <1>4, <3>3
        <5> QED BY <3>3, <5>1
      <4>2. i - n < k - n
            BY <1>4, <1>6
      <4> QED BY <1>6, <2>2, <3>1, <3>3, <4>1, <4>2 DEF NoneAfter
    <3> QED BY <1>4, <3>2, <3>3
  <2> QED BY <1>4, <2>1, <2>2
<1>7. /\ NoneAfter(q, S, T) /\ NoneAfter(r, S, T)
      /\ Free(q, S) \/ Free(r, T)
      => NoneAfter(j, S, T)
      BY <1>6 DEF NoneAfter
<1> QED BY <1>5, <1>7 DEF j

\* One frame.
LEMMA OneFrame ==
    ASSUME NEW U, NEW x \in U, NEW S, NEW T
    PROVE  /\ <<x>> \in Seq(U) /\ <<>> \in Seq(U)
           /\ Free(<<x>>, S) <=> x \notin S
           /\ NoneAfter(<<x>>, S, T)
           /\ Free(<<>>, S) /\ NoneAfter(<<>>, S, T)
<1>1. <<x>> \in Seq(U) /\ DOMAIN <<x>> = {1} /\ <<x>>[1] = x
      OBVIOUS
<1>2. Free(<<x>>, S) <=> x \notin S
      BY <1>1 DEF Free
<1>3. NoneAfter(<<x>>, S, T)
      BY <1>1 DEF NoneAfter
<1>4. DOMAIN <<>> = {} /\ <<>> \in Seq(U)
      OBVIOUS
<1>5. Free(<<>>, S) /\ NoneAfter(<<>>, S, T)
      BY <1>4 DEF Free, NoneAfter
<1> QED BY <1>1, <1>2, <1>3, <1>4, <1>5

\* A frame at the end of a stream.
LEMMA AppendFrame ==
    ASSUME NEW U, NEW q \in Seq(U), NEW x \in U, NEW S, NEW T
    PROVE  /\ Free(Append(q, x), S) <=> Free(q, S) /\ x \notin S
           /\ NoneAfter(Append(q, x), S, T) <=> NoneAfter(q, S, T) /\ (Free(q, S) \/ x \notin T)
<1>1. <<x>> \in Seq(U) /\ Append(q, x) = q \o <<x>>
      BY StreamTypes
<1>2. /\ Free(<<x>>, S) <=> x \notin S
      /\ Free(<<x>>, T) <=> x \notin T
      /\ NoneAfter(<<x>>, S, T)
      BY OneFrame
<1>3. Free(q \o <<x>>, S) <=> Free(q, S) /\ Free(<<x>>, S)
      BY <1>1, JoinFree
<1>4. NoneAfter(q \o <<x>>, S, T) <=>
          /\ NoneAfter(q, S, T) /\ NoneAfter(<<x>>, S, T)
          /\ Free(q, S) \/ Free(<<x>>, T)
      BY <1>1, JoinNoneAfter
<1> QED BY <1>1, <1>2, <1>3, <1>4

\* The frame at its head.
LEMMA HeadFrame ==
    ASSUME NEW U, NEW q \in Seq(U), q # <<>>, NEW S, NEW T
    PROVE  /\ Free(q, S) <=> Head(q) \notin S /\ Free(Tail(q), S)
           /\ NoneAfter(q, S, T) <=>
                  NoneAfter(Tail(q), S, T) /\ (Head(q) \notin S \/ Free(Tail(q), T))
<1> DEFINE h == Head(q)
           r == Tail(q)
<1>1. h \in U /\ r \in Seq(U) /\ q = <<h>> \o r /\ <<h>> \in Seq(U)
      BY StreamTypes, OneFrame
<1> HIDE DEF h, r
<1>2. /\ Free(<<h>>, S) <=> h \notin S
      /\ NoneAfter(<<h>>, S, T)
      BY <1>1, OneFrame
<1>3. Free(<<h>> \o r, S) <=> Free(<<h>>, S) /\ Free(r, S)
      BY <1>1, JoinFree
<1>4. NoneAfter(<<h>> \o r, S, T) <=>
          /\ NoneAfter(<<h>>, S, T) /\ NoneAfter(r, S, T)
          /\ Free(<<h>>, S) \/ Free(r, T)
      BY <1>1, JoinNoneAfter
<1>5. /\ Free(q, S) <=> h \notin S /\ Free(r, S)
      /\ NoneAfter(q, S, T) <=> NoneAfter(r, S, T) /\ (h \notin S \/ Free(r, T))
      BY <1>1, <1>2, <1>3, <1>4
<1> QED BY <1>5 DEF h, r

\* A union is free when its parts are.
LEMMA UnionFree ==
    ASSUME NEW q, NEW S, NEW T
    PROVE  /\ Free(q, S \cup T) <=> Free(q, S) /\ Free(q, T)
           /\ \A R : NoneAfter(q, R, S \cup T) <=> NoneAfter(q, R, S) /\ NoneAfter(q, R, T)
           /\ S \subseteq T /\ Free(q, T) => Free(q, S)
<1>1. Free(q, S \cup T) <=> Free(q, S) /\ Free(q, T)
      BY DEF Free
<1>2. ASSUME NEW R
      PROVE  NoneAfter(q, R, S \cup T) <=> NoneAfter(q, R, S) /\ NoneAfter(q, R, T)
      BY DEF NoneAfter
<1>3. S \subseteq T /\ Free(q, T) => Free(q, S)
      BY DEF Free
<1> QED BY <1>1, <1>2, <1>3

\* A frame outside W changes nothing within it, wherever it comes or goes.
LEMMA AlikeFrame ==
    ASSUME NEW U, NEW W, NEW q \in Seq(U), NEW r \in Seq(U), NEW x \in U, x \notin W
    PROVE  /\ Alike(Append(q, x), q, W)
           /\ Alike(Append(q, x) \o r, q \o r, W)
<1>1. ASSUME NEW S \in SUBSET W, NEW T \in SUBSET W
      PROVE  /\ Free(Append(q, x), S) <=> Free(q, S)
             /\ NoneAfter(Append(q, x), S, T) <=> NoneAfter(q, S, T)
  <2>1. x \notin S /\ x \notin T
        OBVIOUS
  <2> QED BY <2>1, AppendFrame
<1>2. ASSUME NEW S \in SUBSET W, NEW T \in SUBSET W
      PROVE  /\ Free(Append(q, x) \o r, S) <=> Free(q \o r, S)
             /\ NoneAfter(Append(q, x) \o r, S, T) <=> NoneAfter(q \o r, S, T)
  <2> DEFINE p == Append(q, x)
  <2>1. p \in Seq(U)
        BY StreamTypes
  <2>2. /\ Free(p, S) <=> Free(q, S)
        /\ NoneAfter(p, S, T) <=> NoneAfter(q, S, T)
        BY <1>1
  <2> HIDE DEF p
  <2>3. /\ Free(p \o r, S) <=> Free(p, S) /\ Free(r, S)
        /\ Free(q \o r, S) <=> Free(q, S) /\ Free(r, S)
        BY <2>1, JoinFree
  <2>4. /\ NoneAfter(p \o r, S, T) <=>
               NoneAfter(p, S, T) /\ NoneAfter(r, S, T) /\ (Free(p, S) \/ Free(r, T))
        /\ NoneAfter(q \o r, S, T) <=>
               NoneAfter(q, S, T) /\ NoneAfter(r, S, T) /\ (Free(q, S) \/ Free(r, T))
        BY <2>1, JoinNoneAfter
  <2>5. /\ Free(p \o r, S) <=> Free(q \o r, S)
        /\ NoneAfter(p \o r, S, T) <=> NoneAfter(q \o r, S, T)
        BY <2>2, <2>3, <2>4
  <2> QED BY <2>5 DEF p
<1>3. Alike(Append(q, x), q, W)
      BY <1>1 DEF Alike
<1>4. Alike(Append(q, x) \o r, q \o r, W)
      BY <1>2 DEF Alike
<1> QED BY <1>3, <1>4

\* A stream alike itself when it loses a head outside of W.
LEMMA AlikeTail ==
    ASSUME NEW U, NEW W, NEW q \in Seq(U), q # <<>>, Head(q) \notin W
    PROVE  Alike(Tail(q), q, W)
<1>1. ASSUME NEW S \in SUBSET W, NEW T \in SUBSET W
      PROVE  /\ Free(Tail(q), S) <=> Free(q, S)
             /\ NoneAfter(Tail(q), S, T) <=> NoneAfter(q, S, T)
  <2>1. Head(q) \notin S
        OBVIOUS
  <2> QED BY <2>1, HeadFrame
<1> QED BY <1>1 DEF Alike

-----------------------------------------------------------------------------
(* The inductive invariant.                                                *)

\* What the broker has still to read: what is on the wire, then what is blocked.
Out == toBroker \o blocked

ChannelTypes ==
    /\ TypeOK
    /\ toClient \in Seq(ClientFrames)
    /\ \A t \in Tags : life[t] <= calls
    /\ IsFiniteSet(consumers)

\* Before the broker reads Open there is nothing else.
Beginning ==
    brokerState = "none" =>
        /\ toBroker = <<Open>> /\ toClient = <<>> /\ blocking = Open
        /\ state \in {"OPENING", "CLOSING"}

\* A request is the only one that was sent and has not had its reply processed;
\* a broker that closed the channel may have dropped it.
Expected(request) == IF request = None THEN {} ELSE {Reply(request)}
OnlyAsked(request, out, in, broker) ==
    /\ request \in Asking \cup {None}
    /\ Free(out, Asking \ {request}) /\ Free(in, Answers \ Expected(request))
    /\ NoneAfter(out, Asking, Asking) /\ NoneAfter(in, Answers, Answers)
    /\ Free(out, Asking) \/ Free(in, Answers)
    /\ \/ request = None \/ broker \in {"closing", "closed"}
       \/ ~Free(out, Asking) \/ ~Free(in, Answers)
OneAsked == state # "CLOSED" => OnlyAsked(blocking, toBroker, toClient, brokerState)

Serving == brokerState \in {"none", "open"}

Old(S, n) == {f \in S : f.life # n}

\* The frames of one tag in the order of the life of a consumer.
InOrder(t) ==
    /\ NoneAfter(Out, Consumes(t), Consumes(t))
    /\ NoneAfter(Out, Cancels(t), Consumes(t) \cup Cancels(t))
    /\ Free(Out, Old(Consumes(t), life[t]))
    /\ NoneAfter(toClient, {BrokerCancel(t)}, Delivers(t) \cup {BrokerCancel(t)})
    /\ NoneAfter(toClient, {CancelOk(t)}, Delivers(t) \cup {BrokerCancel(t), CancelOk(t)})
    /\ Free(toClient, Old(Delivers(t), life[t]))

\* What the client thinks of a tag and what is on its way to the broker.
ClientSide(t) ==
    /\ t \notin cancelled => Free(Out, Cancels(t)) /\ Free(toClient, {CancelOk(t)})
    /\ t \notin consumers \cup cancelled =>
           Free(Out, Consumes(t)) /\ Free(toClient, Delivers(t) \cup {BrokerCancel(t)})
    /\ t \in consumers => Free(Out, {Cancel(t, TRUE)})
    /\ t \notin consumers => Free(Out, {Cancel(t, FALSE)}) /\ Free(toClient, {CancelOk(t)})
    /\ t \in cancelled /\ Free(Out, Cancels(t)) => Free(Out, Consumes(t))
    /\ t \in consumers \cap cancelled /\ Serving /\ Free(Out, Cancels(t)) =>
           ~Free(toClient, {CancelOk(t)})

\* What the broker thinks of it and what is on its way to the client.
BrokerSide(t) ==
    LET consuming == brokerConsumers[t] # 0 IN
    /\ consuming =>
           /\ brokerConsumers[t] = life[t] /\ t \in consumers \cup cancelled /\ Serving
           /\ Free(Out, Consumes(t)) /\ Free(toClient, {BrokerCancel(t)})
           /\ t \in cancelled => ~Free(Out, Cancels(t))
    /\ ~Free(toClient, {CancelOk(t)}) =>
           ~consuming /\ Free(Out, Consumes(t) \cup Cancels(t))
    /\ ~Free(toClient, {BrokerCancel(t)}) => Free(Out, Consumes(t))
    /\ t \in consumers \ cancelled /\ Serving =>
           consuming \/ ~Free(Out, Consumes(t)) \/ ~Free(toClient, {BrokerCancel(t)})

Lane(t) == InOrder(t) /\ ClientSide(t) /\ BrokerSide(t)
Lanes == state \in {"OPENING", "OPEN"} => \A t \in Tags : Lane(t)

ChannelInv == ChannelTypes /\ Beginning /\ OneAsked /\ Lanes

-----------------------------------------------------------------------------
(* What the frames are.                                                    *)

\* The fields of each kind of frame.
LEMMA Fields ==
    /\ None.m = "None" /\ Open.m = "Channel.Open" /\ ChannelClose.m = "Channel.Close"
    /\ CloseOk.m = "Channel.CloseOk" /\ OpenOk.m = "Channel.OpenOk"
    /\ \A f, w : Other(f, w).m = f /\ Other(f, w).nowait = w
    /\ \A t, n, a : /\ Consume(t, n, a).m = "Basic.Consume"
                    /\ Consume(t, n, a).tag = t /\ Consume(t, n, a).life = n
    /\ \A t, w : /\ Cancel(t, w).m = "Basic.Cancel" /\ Cancel(t, w).tag = t
                 /\ Cancel(t, w).nowait = w
    /\ \A m, t : Tagged(m, t).m = m /\ Tagged(m, t).tag = t
    /\ \A t, n : /\ Deliver(t, n).m = "Basic.Deliver"
                 /\ Deliver(t, n).tag = t /\ Deliver(t, n).life = n
BY DEF None, Open, ChannelClose, CloseOk, OpenOk, Other, Consume, Cancel, Tagged, Deliver

\* Which requests await a reply.
LEMMA AskingKinds ==
    /\ Open \in Asking /\ ChannelClose \in Asking /\ None \notin Asking
    /\ \A f \in Families, w \in BOOLEAN : Other(f, w) \in Asking <=> w = FALSE
    /\ \A t \in Tags, n \in 1..MaxCalls, a \in BOOLEAN : Consume(t, n, a) \in Asking
    /\ \A t \in Tags, w \in BOOLEAN : Cancel(t, w) \in Asking <=> w = FALSE
<1>1. Open \in Requests /\ ChannelClose \in Requests
      BY DEF Requests
<1>2. Awaits(Open) /\ Awaits(ChannelClose) /\ ~Awaits(None)
      BY Fields DEF Awaits, Synchronous, Families
<1>3. ASSUME NEW f \in Families, NEW w \in BOOLEAN
      PROVE  Other(f, w) \in Requests /\ (Awaits(Other(f, w)) <=> w = FALSE)
  <2>1. Other(f, w) \in Requests
        BY DEF Requests
  <2>2. Other(f, w).m = f /\ Other(f, w).nowait = w
        BY Fields
  <2>3. f \in Synchronous /\ f \in {"Basic.Cancel"} \cup Families
        BY DEF Synchronous
  <2> QED BY <2>1, <2>2, <2>3 DEF Awaits
<1>4. ASSUME NEW t \in Tags, NEW n \in 1..MaxCalls, NEW a \in BOOLEAN
      PROVE  Consume(t, n, a) \in Requests /\ Awaits(Consume(t, n, a))
  <2>1. Consume(t, n, a) \in Requests
        BY DEF Requests
  <2>2. Consume(t, n, a).m = "Basic.Consume"
        BY Fields
  <2> QED BY <2>1, <2>2 DEF Awaits, Synchronous, Families
<1>5. ASSUME NEW t \in Tags, NEW w \in BOOLEAN
      PROVE  Cancel(t, w) \in Requests /\ (Awaits(Cancel(t, w)) <=> w = FALSE)
  <2>1. Cancel(t, w) \in Requests
        BY DEF Requests
  <2>2. Cancel(t, w).m = "Basic.Cancel" /\ Cancel(t, w).nowait = w
        BY Fields
  <2> QED BY <2>1, <2>2 DEF Awaits, Synchronous
<1> QED BY <1>1, <1>2, <1>3, <1>4, <1>5 DEF Asking

\* A request is one of these.
LEMMA RequestKinds ==
    ASSUME NEW r \in Requests
    PROVE  \/ r = Open \/ r = ChannelClose
           \/ \E f \in Families, w \in BOOLEAN : r = Other(f, w)
           \/ \E t \in Tags, n \in 1..MaxCalls, a \in BOOLEAN : r = Consume(t, n, a)
           \/ \E t \in Tags, w \in BOOLEAN : r = Cancel(t, w)
BY DEF Requests

\* Every request is a synchronous method, and None is no request.
LEMMA RequestNames ==
    /\ \A r \in Requests : r.m \in Synchronous
    /\ None \notin Requests
<1>1. ASSUME NEW r \in Requests
      PROVE  r.m \in Synchronous
  <2>1. CASE r = Open \/ r = ChannelClose
        BY <2>1, Fields DEF Synchronous
  <2>2. CASE \E f \in Families, w \in BOOLEAN : r = Other(f, w)
        BY <2>2, Fields DEF Synchronous
  <2>3. CASE \E t \in Tags, n \in 1..MaxCalls, a \in BOOLEAN : r = Consume(t, n, a)
        BY <2>3, Fields DEF Synchronous
  <2>4. CASE \E t \in Tags, w \in BOOLEAN : r = Cancel(t, w)
        BY <2>4, Fields DEF Synchronous
  <2> QED BY <2>1, <2>2, <2>3, <2>4, RequestKinds
<1>2. None.m \notin Synchronous
      BY Fields DEF Synchronous, Families
<1> QED BY <1>1, <1>2

\* The kind of a frame that the broker reads, from its name.
LEMMA BrokerFrameKinds ==
    ASSUME NEW f \in BrokerFrames
    PROVE  /\ f \in Asking <=> Awaits(f)
           /\ f.m = "Channel.Close" <=> f = ChannelClose
           /\ f.m = "Basic.Consume" => f.tag \in Tags /\ f.life \in 1..MaxCalls
           /\ f.m = "Basic.Cancel" => f.tag \in Tags
           /\ \A t \in Tags : /\ f \in Consumes(t) <=> f.m = "Basic.Consume" /\ f.tag = t
                              /\ f \in Cancels(t) <=> f.m = "Basic.Cancel" /\ f.tag = t
<1>1. CASE f \in {Open, ChannelClose, CloseOk}
  <2>1. f.m \in {"Channel.Open", "Channel.Close", "Channel.CloseOk"}
        BY <1>1, Fields
  <2>2. f.m = "Channel.Close" <=> f = ChannelClose
        BY <1>1, Fields
  <2>3. f \in Asking <=> Awaits(f)
        BY <1>1, Fields, AskingKinds DEF Asking, Awaits, Synchronous, Families
  <2>4. \A t \in Tags : f \notin Consumes(t) /\ f \notin Cancels(t)
        BY <2>1, Fields DEF Consumes, Cancels
  <2> QED BY <2>1, <2>2, <2>3, <2>4
<1>2. ASSUME NEW t0 \in Tags, f = Tagged("Basic.Reject", t0)
      PROVE  /\ f.m = "Basic.Reject" /\ ~Awaits(f) /\ f \notin Asking /\ f # ChannelClose
             /\ \A t \in Tags : f \notin Consumes(t) /\ f \notin Cancels(t)
  <2>1. f.m = "Basic.Reject"
        BY <1>2, Fields
  <2>2. ~Awaits(f) /\ f \notin Asking /\ f # ChannelClose
        BY <2>1, Fields DEF Asking, Awaits, Synchronous, Families
  <2>3. \A t \in Tags : f \notin Consumes(t) /\ f \notin Cancels(t)
        BY <2>1, Fields DEF Consumes, Cancels
  <2> QED BY <2>1, <2>2, <2>3
<1>3. ASSUME NEW g \in Families, NEW w \in BOOLEAN, f = Other(g, w)
      PROVE  /\ f.m \in Families /\ f \in Requests /\ f # ChannelClose
             /\ \A t \in Tags : f \notin Consumes(t) /\ f \notin Cancels(t)
  <2>1. f.m \in Families /\ f \in Requests
        BY <1>3, Fields DEF Requests
  <2>2. f.m \in {"Declaring", "Waiting"}
        BY <2>1 DEF Families
  <2> QED BY <2>1, <2>2, Fields DEF Consumes, Cancels
<1>4. ASSUME NEW t0 \in Tags, NEW n \in 1..MaxCalls, NEW a \in BOOLEAN, f = Consume(t0, n, a)
      PROVE  /\ f \in Requests /\ f.m = "Basic.Consume" /\ f.tag = t0 /\ f.life = n /\ f # ChannelClose
             /\ \A t \in Tags : /\ f \in Consumes(t) <=> t = t0
                                /\ f \notin Cancels(t)
  <2>1. f \in Requests /\ f.m = "Basic.Consume" /\ f.tag = t0 /\ f.life = n
        BY <1>4, Fields DEF Requests
  <2>2. \A t \in Tags : f \in Consumes(t) => t = t0
        BY <2>1, Fields DEF Consumes
  <2>3. f \in Consumes(t0)
        BY <1>4 DEF Consumes
  <2>4. \A t \in Tags : f \notin Cancels(t)
        BY <2>1, Fields DEF Cancels
  <2> QED BY <2>1, <2>2, <2>3, <2>4, Fields
<1>5. ASSUME NEW t0 \in Tags, NEW w \in BOOLEAN, f = Cancel(t0, w)
      PROVE  /\ f \in Requests /\ f.m = "Basic.Cancel" /\ f.tag = t0 /\ f # ChannelClose
             /\ \A t \in Tags : /\ f \in Cancels(t) <=> t = t0
                                /\ f \notin Consumes(t)
  <2>1. f \in Requests /\ f.m = "Basic.Cancel" /\ f.tag = t0
        BY <1>5, Fields DEF Requests
  <2>2. \A t \in Tags : f \in Cancels(t) => t = t0
        BY <2>1, Fields DEF Cancels
  <2>3. f \in Cancels(t0)
        BY <1>5 DEF Cancels
  <2>4. \A t \in Tags : f \notin Consumes(t)
        BY <2>1, Fields DEF Consumes
  <2> QED BY <2>1, <2>2, <2>3, <2>4, Fields
<1>6. f \in Requests => (f \in Asking <=> Awaits(f))
      BY DEF Asking
<1>7. CASE \E t0 \in Tags : f = Tagged("Basic.Reject", t0)
      BY <1>2, <1>7
<1>8. CASE \E g \in Families, w \in BOOLEAN : f = Other(g, w)
  <2>1. f.m \in {"Declaring", "Waiting"}
        BY <1>3, <1>8 DEF Families
  <2> QED BY <1>3, <1>6, <1>8, <2>1
<1>9. CASE \E t0 \in Tags, n \in 1..MaxCalls, a \in BOOLEAN : f = Consume(t0, n, a)
      BY <1>4, <1>6, <1>9
<1>10. CASE \E t0 \in Tags, w \in BOOLEAN : f = Cancel(t0, w)
      BY <1>5, <1>6, <1>10
<1> QED BY <1>1, <1>7, <1>8, <1>9, <1>10 DEF BrokerFrames, Requests

\* The kind of a frame that the client reads.
LEMMA ClientFrameKinds ==
    ASSUME NEW g \in ClientFrames
    PROVE  /\ g \in Answers <=> g.m \notin {"Basic.Deliver", "Basic.Cancel", "Channel.Close"}
           /\ g.m \in {"Basic.Deliver", "Basic.Cancel", "Basic.CancelOk"} => g.tag \in Tags
           /\ g.m = "Basic.Deliver" => g.life \in 1..MaxCalls
           /\ \A t \in Tags : /\ g \in Delivers(t) <=> g.m = "Basic.Deliver" /\ g.tag = t
                              /\ g = BrokerCancel(t) <=> g.m = "Basic.Cancel" /\ g.tag = t
                              /\ g = CancelOk(t) <=> g.m = "Basic.CancelOk" /\ g.tag = t
<1>1. ASSUME g \in Answers
      PROVE  /\ g.m \notin {"Basic.Deliver", "Basic.Cancel", "Channel.Close"}
             /\ g.m = "Basic.CancelOk" => g.tag \in Tags /\ g = CancelOk(g.tag)
  <2>1. CASE g \in {OpenOk, CloseOk}
        BY <2>1, Fields
  <2>2. CASE \E t \in Tags : g = Tagged("Basic.ConsumeOk", t)
        BY <2>2, Fields
  <2>3. CASE \E t \in Tags : g = CancelOk(t)
        BY <2>3, Fields DEF CancelOk
  <2>4. CASE \E f \in Families : g = Tagged("Ok", f)
        BY <2>4, Fields
  <2> QED BY <1>1, <2>1, <2>2, <2>3, <2>4 DEF Answers
<1>2. CASE g \in Answers
  <2>1. \A t \in Tags : g \notin Delivers(t) /\ g # BrokerCancel(t)
        BY <1>1, <1>2, Fields DEF Delivers, BrokerCancel
  <2>2. \A t \in Tags : g = CancelOk(t) <=> g.m = "Basic.CancelOk" /\ g.tag = t
        BY <1>1, <1>2, Fields DEF CancelOk
  <2> QED BY <1>1, <1>2, <2>1, <2>2
<1>3. CASE g = ChannelClose
  <2>1. g.m = "Channel.Close"
        BY <1>3, Fields
  <2>2. \A t \in Tags : g \notin Delivers(t) /\ g # BrokerCancel(t) /\ g # CancelOk(t)
        BY <2>1, Fields DEF Delivers, BrokerCancel, CancelOk
  <2> QED BY <1>1, <2>1, <2>2
<1>4. ASSUME NEW t0 \in Tags, g = BrokerCancel(t0)
      PROVE  /\ g.m = "Basic.Cancel" /\ g.tag = t0 /\ g \notin Answers
             /\ \A t \in Tags : /\ g \notin Delivers(t) /\ g # CancelOk(t)
                                /\ g = BrokerCancel(t) <=> t = t0
  <2>1. g.m = "Basic.Cancel" /\ g.tag = t0
        BY <1>4, Fields DEF BrokerCancel
  <2>2. \A t \in Tags : g \notin Delivers(t) /\ g # CancelOk(t)
        BY <2>1, Fields DEF Delivers, CancelOk
  <2>3. \A t \in Tags : g = BrokerCancel(t) <=> t = t0
        BY <1>4, <2>1, Fields DEF BrokerCancel
  <2> QED BY <1>1, <2>1, <2>2, <2>3
<1>5. ASSUME NEW t0 \in Tags, NEW n \in 1..MaxCalls, g = Deliver(t0, n)
      PROVE  /\ g.m = "Basic.Deliver" /\ g.tag = t0 /\ g.life = n /\ g \notin Answers
             /\ \A t \in Tags : /\ g # BrokerCancel(t) /\ g # CancelOk(t)
                                /\ g \in Delivers(t) <=> t = t0
  <2>1. g.m = "Basic.Deliver" /\ g.tag = t0 /\ g.life = n
        BY <1>5, Fields
  <2>2. \A t \in Tags : g # BrokerCancel(t) /\ g # CancelOk(t)
        BY <2>1, Fields DEF BrokerCancel, CancelOk
  <2>3. \A t \in Tags : g \in Delivers(t) => t = t0
        BY <2>1, Fields DEF Delivers
  <2>4. g \in Delivers(t0)
        BY <1>5 DEF Delivers
  <2> QED BY <1>1, <2>1, <2>2, <2>3, <2>4
<1>6. CASE \E t0 \in Tags : g = BrokerCancel(t0)
      BY <1>4, <1>6
<1>7. CASE \E t0 \in Tags, n \in 1..MaxCalls : g = Deliver(t0, n)
      BY <1>5, <1>7
<1> QED BY <1>2, <1>3, <1>6, <1>7 DEF ClientFrames

\* A reply is an answer, and a CancelOk is the answer to a Cancel.
LEMMA Replies ==
    ASSUME NEW r \in Asking
    PROVE  /\ Reply(r) \in Answers /\ Reply(r) \in ClientFrames
           /\ Reply(r).m = "Basic.CancelOk" =>
                  /\ Reply(r).tag \in Tags /\ r = Cancel(Reply(r).tag, FALSE)
           /\ r.m = "Basic.Cancel" => r.tag \in Tags /\ Reply(r) = CancelOk(r.tag)
           /\ Reply(r).m = "Channel.CloseOk" => r = ChannelClose
           /\ Reply(r).m = "Channel.OpenOk" => r = Open
<1>1. CASE r = Open
  <2>1. r.m = "Channel.Open"
        BY <1>1, Fields
  <2>2. Reply(r) = OpenOk
        BY <2>1 DEF Reply, OpenOk
  <2>3. Reply(r).m = "Channel.OpenOk" /\ OpenOk \in Answers
        BY <2>2, Fields DEF Answers
  <2> QED BY <1>1, <2>1, <2>2, <2>3 DEF ClientFrames
<1>2. CASE r = ChannelClose
  <2>1. r.m = "Channel.Close"
        BY <1>2, Fields
  <2>2. Reply(r) = CloseOk
        BY <2>1 DEF Reply
  <2>3. Reply(r).m = "Channel.CloseOk" /\ CloseOk \in Answers
        BY <2>2, Fields DEF Answers
  <2> QED BY <1>2, <2>1, <2>2, <2>3 DEF ClientFrames
<1>3. ASSUME NEW f \in Families, NEW w \in BOOLEAN, r = Other(f, w)
      PROVE  Reply(r) \in Answers /\ Reply(r).m = "Ok" /\ r.m # "Basic.Cancel"
  <2>1. r.m = f /\ f \in {"Declaring", "Waiting"}
        BY <1>3, Fields DEF Families
  <2>2. Reply(r) = Tagged("Ok", f)
        BY <2>1 DEF Reply
  <2> QED BY <2>1, <2>2, Fields DEF Answers
<1>4. ASSUME NEW t \in Tags, NEW n \in 1..MaxCalls, NEW a \in BOOLEAN, r = Consume(t, n, a)
      PROVE  Reply(r) \in Answers /\ Reply(r).m = "Basic.ConsumeOk" /\ r.m # "Basic.Cancel"
  <2>1. r.m = "Basic.Consume" /\ r.tag = t
        BY <1>4, Fields
  <2>2. Reply(r) = Tagged("Basic.ConsumeOk", t)
        BY <2>1 DEF Reply
  <2> QED BY <2>1, <2>2, Fields DEF Answers
<1>5. ASSUME NEW t \in Tags, NEW w \in BOOLEAN, r = Cancel(t, w)
      PROVE  /\ Reply(r) \in Answers /\ Reply(r).m = "Basic.CancelOk" /\ Reply(r).tag = t
             /\ Reply(r) = CancelOk(t) /\ r.tag = t /\ r = Cancel(t, FALSE)
  <2>1. r.m = "Basic.Cancel" /\ r.tag = t
        BY <1>5, Fields
  <2>2. Reply(r) = CancelOk(t)
        BY <2>1 DEF Reply, CancelOk
  <2>3. w = FALSE
        BY <1>5, AskingKinds
  <2>4. CancelOk(t) \in Answers
        BY DEF Answers
  <2>5. CancelOk(t).m = "Basic.CancelOk" /\ CancelOk(t).tag = t
        BY Fields DEF CancelOk
  <2> QED BY <1>5, <2>1, <2>2, <2>3, <2>4, <2>5
<1>6. CASE \E f \in Families, w \in BOOLEAN : r = Other(f, w)
  <2>1. Reply(r) \in Answers /\ Reply(r).m = "Ok" /\ r.m # "Basic.Cancel"
        BY <1>3, <1>6
  <2> QED BY <2>1 DEF ClientFrames
<1>7. CASE \E t \in Tags, n \in 1..MaxCalls, a \in BOOLEAN : r = Consume(t, n, a)
  <2>1. Reply(r) \in Answers /\ Reply(r).m = "Basic.ConsumeOk" /\ r.m # "Basic.Cancel"
        BY <1>4, <1>7
  <2> QED BY <2>1 DEF ClientFrames
<1>8. CASE \E t \in Tags, w \in BOOLEAN : r = Cancel(t, w)
  <2>1. PICK t \in Tags, w \in BOOLEAN : r = Cancel(t, w)
        BY <1>8
  <2>2. /\ Reply(r) \in Answers /\ Reply(r).m = "Basic.CancelOk" /\ Reply(r).tag = t
        /\ Reply(r) = CancelOk(t) /\ r.tag = t /\ r = Cancel(t, FALSE)
        BY <1>5, <2>1
  <2>3. Reply(r) \in ClientFrames
        BY <2>2 DEF ClientFrames
  <2> QED BY <2>2, <2>3
<1>9. r \in Requests
      BY DEF Asking
<1> QED BY <1>1, <1>2, <1>6, <1>7, <1>8, <1>9, RequestKinds

-----------------------------------------------------------------------------
(* One request at a time.                                                  *)

\* Methods that go out one after the other, of which the last may await a reply.
Row(row, request) ==
    \/ request = None /\ Free(row, Asking)
    \/ /\ request \in Asking /\ ~Free(row, Asking)
       /\ Free(row, Asking \ {request}) /\ NoneAfter(row, Asking, Asking)

\* When nothing waits for its reply, a row of methods may be sent.
LEMMA SendRow ==
    ASSUME NEW out \in Seq(BrokerFrames), NEW in, NEW broker, OnlyAsked(None, out, in, broker),
           NEW row \in Seq(BrokerFrames), NEW request, Row(row, request)
    PROVE  OnlyAsked(request, out \o row, in, broker)
<1>1. Free(out, Asking) /\ Free(in, Answers)
  <2>1. Asking \ {None} = Asking /\ Answers \ Expected(None) = Answers
        BY AskingKinds DEF Expected
  <2> QED BY <2>1 DEF OnlyAsked
<1>2. /\ Free(out \o row, Asking) <=> Free(out, Asking) /\ Free(row, Asking)
      /\ Free(out \o row, Asking \ {request}) <=>
             Free(out, Asking \ {request}) /\ Free(row, Asking \ {request})
      BY JoinFree
<1>3. NoneAfter(out \o row, Asking, Asking) <=>
          /\ NoneAfter(out, Asking, Asking) /\ NoneAfter(row, Asking, Asking)
          /\ Free(out, Asking) \/ Free(row, Asking)
      BY JoinNoneAfter
<1>4. Free(out, Asking \ {request}) /\ Free(in, Answers \ Expected(request))
      BY <1>1 DEF Free
<1>5. Free(row, Asking) => Free(row, Asking \ {request}) /\ NoneAfter(row, Asking, Asking)
      BY DEF Free, NoneAfter
<1> QED BY <1>1, <1>2, <1>3, <1>4, <1>5 DEF OnlyAsked, Row

\* The reply of the request that waits is taken: nothing waits any more.
LEMMA TakeReply ==
    ASSUME NEW out, NEW in \in Seq(ClientFrames), NEW broker, NEW request,
           OnlyAsked(request, out, in, broker), in # <<>>, request # None,
           Head(in) = Reply(request)
    PROVE  OnlyAsked(None, out, Tail(in), broker)
<1>1. request \in Asking /\ Reply(request) \in Answers
      BY Replies DEF OnlyAsked
<1>2. /\ Free(in, Answers) <=> Head(in) \notin Answers /\ Free(Tail(in), Answers)
      /\ NoneAfter(in, Answers, Answers) <=>
             /\ NoneAfter(Tail(in), Answers, Answers)
             /\ Head(in) \notin Answers \/ Free(Tail(in), Answers)
      BY HeadFrame
<1>3. Free(out, Asking) /\ Free(Tail(in), Answers) /\ NoneAfter(Tail(in), Answers, Answers)
      BY <1>1, <1>2 DEF OnlyAsked
<1>4. Free(out, Asking \ {None}) /\ Free(Tail(in), Answers \ Expected(None))
      BY <1>3 DEF Free
<1> QED BY <1>3, <1>4 DEF OnlyAsked

\* Other frames do not matter.
LEMMA OnlyAskedKept ==
    ASSUME NEW request, NEW out, NEW in, NEW broker, OnlyAsked(request, out, in, broker),
           NEW out2, NEW in2, NEW broker2,
           Alike(out2, out, Asking), Alike(in2, in, Answers),
           broker \in {"closing", "closed"} => broker2 \in {"closing", "closed"}
    PROVE  OnlyAsked(request, out2, in2, broker2)
<1>1. /\ Free(out2, Asking) <=> Free(out, Asking)
      /\ NoneAfter(out2, Asking, Asking) <=> NoneAfter(out, Asking, Asking)
      BY DEF Alike
<1>2. Free(out2, Asking \ {request}) <=> Free(out, Asking \ {request})
  <2>1. Asking \ {request} \in SUBSET Asking
        OBVIOUS
  <2> QED BY <2>1 DEF Alike
<1>3. /\ Free(in2, Answers) <=> Free(in, Answers)
      /\ NoneAfter(in2, Answers, Answers) <=> NoneAfter(in, Answers, Answers)
      BY DEF Alike
<1>4. Free(in2, Answers \ Expected(request)) <=> Free(in, Answers \ Expected(request))
  <2>1. Answers \ Expected(request) \in SUBSET Answers
        OBVIOUS
  <2> QED BY <2>1 DEF Alike
<1> QED BY <1>1, <1>2, <1>3, <1>4 DEF OnlyAsked

\* The broker reads the request and answers it.
LEMMA AnswerRequest ==
    ASSUME NEW out \in Seq(BrokerFrames), NEW in \in Seq(ClientFrames), NEW broker, NEW request,
           OnlyAsked(request, out, in, broker), out # <<>>, Head(out) \in Asking
    PROVE  /\ Head(out) = request
           /\ \A broker2 : OnlyAsked(request, Tail(out), Append(in, Reply(request)), broker2)
<1>1. /\ Free(out, Asking) <=> Head(out) \notin Asking /\ Free(Tail(out), Asking)
      /\ Free(out, Asking \ {request}) <=>
             /\ Head(out) \notin Asking \ {request}
             /\ Free(Tail(out), Asking \ {request})
      /\ NoneAfter(out, Asking, Asking) <=>
             /\ NoneAfter(Tail(out), Asking, Asking)
             /\ Head(out) \notin Asking \/ Free(Tail(out), Asking)
      BY HeadFrame
<1>2. /\ Head(out) = request /\ Free(Tail(out), Asking) /\ Free(Tail(out), Asking \ {request})
      /\ NoneAfter(Tail(out), Asking, Asking) /\ Free(in, Answers)
      /\ NoneAfter(in, Answers, Answers)
      BY <1>1 DEF OnlyAsked
<1>3. Reply(request) \in Answers /\ Reply(request) \in ClientFrames /\ request # None
      BY <1>2, Replies, AskingKinds
<1>4. Free(in, Answers \ Expected(request))
      BY DEF OnlyAsked
<1>5. Reply(request) \notin Answers \ Expected(request)
      BY <1>3 DEF Expected
<1> DEFINE in2 == Append(in, Reply(request))
<1>6. /\ Free(in2, Answers \ Expected(request)) <=>
             /\ Free(in, Answers \ Expected(request))
             /\ Reply(request) \notin Answers \ Expected(request)
      /\ Free(in2, Answers) <=> Free(in, Answers) /\ Reply(request) \notin Answers
      /\ NoneAfter(in2, Answers, Answers) <=>
             /\ NoneAfter(in, Answers, Answers)
             /\ Free(in, Answers) \/ Reply(request) \notin Answers
      BY <1>3, AppendFrame
<1> HIDE DEF in2
<1>7. \A broker2 : OnlyAsked(request, Tail(out), in2, broker2)
      BY <1>2, <1>3, <1>4, <1>5, <1>6 DEF OnlyAsked
<1> QED BY <1>2, <1>7 DEF in2

\* A broker that closed the channel drops what it reads.
LEMMA DropRequest ==
    ASSUME NEW out \in Seq(BrokerFrames), NEW in, NEW broker, NEW request,
           OnlyAsked(request, out, in, broker), out # <<>>,
           NEW broker2 \in {"closing", "closed"}
    PROVE  OnlyAsked(request, Tail(out), in, broker2)
<1>1. /\ Free(out, Asking) => Free(Tail(out), Asking)
      /\ Free(out, Asking \ {request}) => Free(Tail(out), Asking \ {request})
      /\ NoneAfter(out, Asking, Asking) => NoneAfter(Tail(out), Asking, Asking)
      BY HeadFrame
<1> QED BY <1>1 DEF OnlyAsked

-----------------------------------------------------------------------------
(* _rpc and _on_synchronous_complete.                                      *)

RpcTypes ==
    /\ blocking \in Requests \cup {None} /\ blocked \in Seq(Requests)
    /\ toBroker \in Seq(BrokerFrames)
    /\ blocking = None => blocked = <<>>

\* What becomes of the three: the broker still reads "out", and one request waits.
Sends(r, out, in) ==
    /\ r.blocking \in Requests \cup {None} /\ r.blocked \in Seq(Requests)
    /\ r.out \in Seq(BrokerFrames)
    /\ r.blocking = None => r.blocked = <<>>
    /\ r.out \o r.blocked = out
    /\ OnlyAsked(r.blocking, r.out, in, brokerState)

\* What is blocked is what will be sent.
LEMMA RequestsAreFrames ==
    ASSUME NEW q \in Seq(Requests)
    PROVE  q \in Seq(BrokerFrames)
<1>1. Requests \subseteq BrokerFrames
      BY DEF BrokerFrames
<1>2. Len(q) \in Nat /\ q \in [1..Len(q) -> Requests]
      BY LenProperties
<1> QED BY <1>1, <1>2

\* The order of what goes out does not depend on whether a request waits.
LEMMA RpcSends ==
    ASSUME RpcTypes, OnlyAsked(blocking, toBroker, toClient, brokerState), NEW request \in Requests
    PROVE  Sends(Rpc(Rpc0, request), Append(Out, request), toClient)
<1>1. /\ blocked \in Seq(BrokerFrames) /\ request \in BrokerFrames
      /\ toBroker \in Seq(BrokerFrames)
      BY RequestsAreFrames DEF RpcTypes, BrokerFrames
<1>2. CASE blocking # None
  <2>1. Rpc(Rpc0, request) = [blocking |-> blocking, blocked |-> Append(blocked, request),
                              out |-> toBroker]
        BY <1>2 DEF Rpc, Rpc0
  <2>2. Append(blocked, request) \in Seq(Requests)
        BY StreamTypes DEF RpcTypes
  <2>3. toBroker \o Append(blocked, request) = Append(toBroker \o blocked, request)
    <3>1. Append(blocked, request) = blocked \o <<request>> /\ <<request>> \in Seq(BrokerFrames)
          BY <1>1, StreamTypes
    <3>2. Append(toBroker \o blocked, request) = (toBroker \o blocked) \o <<request>>
          BY <1>1, StreamTypes
    <3> QED BY <1>1, <3>1, <3>2, ConcatAssociative
  <2> QED BY <1>2, <2>1, <2>2, <2>3 DEF Sends, RpcTypes, Out
<1>3. CASE blocking = None
  <2> DEFINE next == IF Awaits(request) THEN request ELSE None
  <2>1. Rpc(Rpc0, request) = [blocking |-> next, blocked |-> blocked,
                              out |-> Append(toBroker, request)]
        BY <1>3 DEF Rpc, Rpc0
  <2>2. blocked = <<>> /\ Out = toBroker
        BY <1>1, <1>3, StreamTypes DEF RpcTypes, Out
  <2>3. /\ Append(toBroker, request) \in Seq(BrokerFrames) /\ <<request>> \in Seq(BrokerFrames)
        /\ Append(toBroker, request) = toBroker \o <<request>>
        BY <1>1, StreamTypes
  <2>4. Append(toBroker, request) \o <<>> = Append(toBroker, request)
        BY <2>3, StreamTypes
  <2>5. Row(<<request>>, next)
    <3>1. \A S : Free(<<request>>, S) <=> request \notin S
          BY <1>1, OneFrame
    <3>2. NoneAfter(<<request>>, Asking, Asking)
          BY <1>1, OneFrame
    <3> QED BY <3>1, <3>2 DEF Row, Asking
  <2>6. next \in Requests \cup {None}
        OBVIOUS
  <2> HIDE DEF next
  <2>7. OnlyAsked(next, toBroker \o <<request>>, toClient, brokerState)
        BY <1>1, <1>3, <2>3, <2>5, SendRow
  <2> QED BY <2>1, <2>2, <2>3, <2>4, <2>6, <2>7, EmptySeq DEF Sends
<1> QED BY <1>2, <1>3

\* The same of a row whose last method awaits its reply.
LEMMA RowSends ==
    ASSUME RpcTypes, OnlyAsked(blocking, toBroker, toClient, brokerState),
           NEW row \in Seq(Requests), Last(row) \in Asking, Row(row, Last(row))
    PROVE  Sends(RpcRow(row), Out \o row, toClient)
<1>1. /\ blocked \in Seq(BrokerFrames) /\ row \in Seq(BrokerFrames)
      /\ toBroker \in Seq(BrokerFrames)
      BY RequestsAreFrames DEF RpcTypes
<1>2. CASE blocking # None
  <2>1. RpcRow(row) = [blocking |-> blocking, blocked |-> blocked \o row, out |-> toBroker]
        BY <1>2 DEF RpcRow, Rpc0
  <2>2. blocked \o row \in Seq(Requests)
        BY StreamTypes DEF RpcTypes
  <2>3. toBroker \o (blocked \o row) = (toBroker \o blocked) \o row
        BY <1>1, ConcatAssociative
  <2> QED BY <1>2, <2>1, <2>2, <2>3 DEF Sends, RpcTypes, Out
<1>3. CASE blocking = None
  <2> DEFINE last == Last(row)
  <2>1. RpcRow(row) = [blocking |-> last, blocked |-> blocked, out |-> toBroker \o row]
        BY <1>3 DEF RpcRow, Rpc0
  <2>2. blocked = <<>> /\ Out = toBroker
        BY <1>1, <1>3, StreamTypes DEF RpcTypes, Out
  <2>3. toBroker \o row \in Seq(BrokerFrames)
        BY <1>1, StreamTypes
  <2>4. (toBroker \o row) \o <<>> = toBroker \o row
        BY <2>3, StreamTypes
  <2>5. last \in Requests /\ Row(row, last)
        BY DEF Asking
  <2> HIDE DEF last
  <2>6. OnlyAsked(last, toBroker \o row, toClient, brokerState)
        BY <1>1, <1>3, <2>5, SendRow
  <2> QED BY <2>1, <2>2, <2>3, <2>4, <2>5, <2>6, EmptySeq DEF Sends
<1> QED BY <1>2, <1>3

\* A set of naturals has a least element: the first blocked method that awaits.
LEMMA LeastOfNaturals ==
    ASSUME NEW T \in SUBSET Nat, T # {}
    PROVE  \E x \in T : \A y \in T : x <= y
<1>. DEFINE I == {0 .. x : x \in T}
            R == StrictSubsetOrdering(Nat)
<1>1. \A x \in T : IsFiniteSet(0 .. x) /\ 0 .. x \subseteq Nat
  BY FS_Interval
<1>2. I \subseteq FiniteSubsetsOf(Nat)
  BY <1>1 DEF FiniteSubsetsOf
<1>3. IsWellFoundedOn(R, FiniteSubsetsOf(Nat))
  BY FS_StrictSubsetOrderingWellFounded
<1>4. I # {}
  OBVIOUS
<1>. HIDE DEF I, R
<1>5. PICK i \in I : \A j \in I : <<j, i>> \notin R
  BY <1>2, <1>3, <1>4, WFMin
<1>. USE DEF I, R
<1>6. PICK x \in T : i = 0 .. x
  BY <1>5
<1>7. ASSUME NEW y \in T, y < x PROVE FALSE
  <2>1. x \in 0 .. x /\ x \notin 0 .. y
    BY <1>7
  <2>2. 0 .. y \subseteq 0 .. x /\ 0 .. y # 0 .. x
    BY <1>7, <2>1
  <2>3. 0 .. x \in SUBSET Nat /\ 0 .. y \in SUBSET Nat
    BY <1>1
  <2>4. <<0 .. y, 0 .. x>> \in R
    BY <2>2, <2>3 DEF StrictSubsetOrdering
  <2>5. 0 .. y \in I
    OBVIOUS
  <2>. QED  BY <1>5, <1>6, <2>4, <2>5
<1>. QED  BY <1>7

\* The blocked methods go out in their order, up to the first that awaits a reply.
LEMMA CompleteSends ==
    ASSUME RpcTypes, NEW in, OnlyAsked(None, toBroker, in, brokerState)
    PROVE  Sends(SynchronousComplete, Out, in)
<1> DEFINE waiting == {i \in DOMAIN blocked : Awaits(blocked[i])}
           n == IF waiting = {} THEN Len(blocked)
                ELSE CHOOSE i \in waiting : \A j \in waiting : i <= j
           next == IF waiting = {} THEN None ELSE blocked[n]
           row == SubSeq(blocked, 1, n)
           rest == SubSeq(blocked, n + 1, Len(blocked))
<1>1. SynchronousComplete = [blocking |-> next, blocked |-> rest, out |-> toBroker \o row]
      BY DEF SynchronousComplete
<1>2. /\ blocked \in Seq(Requests) /\ Len(blocked) \in Nat /\ DOMAIN blocked = 1..Len(blocked)
      /\ toBroker \in Seq(BrokerFrames)
      BY LenProperties DEF RpcTypes
<1>3. /\ n \in 0..Len(blocked)
      /\ waiting # {} => n \in waiting /\ \A j \in waiting : n <= j
  <2>1. CASE waiting = {}
        BY <1>2, <2>1
  <2>2. CASE waiting # {}
    <3>1. waiting \subseteq Nat
          BY <1>2
    <3>2. \E i \in waiting : \A j \in waiting : i <= j
      <4>1. waiting \in SUBSET Nat
            BY <3>1
      <4> HIDE DEF waiting
      <4> QED BY <2>2, <4>1, LeastOfNaturals
    <3>3. n \in waiting /\ \A j \in waiting : n <= j
          BY <2>2, <3>2
    <3> QED BY <1>2, <3>3
  <2> QED BY <2>1, <2>2
<1>4. next \in Requests \cup {None}
      BY <1>2, <1>3, ElementOfSeq
<1> HIDE DEF n
<1>5. row \in Seq(Requests) /\ Len(row) = n /\ \A i \in 1..n : row[i] = blocked[i]
  <2>1. \A i \in 1..n : blocked[i] \in Requests
        BY <1>2, <1>3, ElementOfSeq
  <2> QED BY <1>2, <1>3, <2>1
<1>6. rest \in Seq(Requests) /\ (waiting = {} => rest = <<>>)
  <2>1. \A i \in n + 1..Len(blocked) : blocked[i] \in Requests
        BY <1>2, <1>3, ElementOfSeq
  <2>2. rest \in Seq(Requests)
        BY <1>2, <1>3, <2>1
  <2>3. waiting = {} => n = Len(blocked)
        BY DEF n
  <2>4. waiting = {} => rest = <<>>
        BY <1>2, <2>3
  <2> QED BY <2>2, <2>4
<1>7. row \o rest = blocked
  <2>1. SubSeq(blocked, 1, n) \o SubSeq(blocked, n + 1, Len(blocked)) = SubSeq(blocked, 1, Len(blocked))
    <3>1. /\ 1 \in 1..Len(blocked) + 1 /\ n \in 1 - 1..Len(blocked)
          /\ Len(blocked) \in n..Len(blocked)
          BY <1>2, <1>3
    <3> QED BY <1>2, <3>1, ConcatAdjacentSubSeq
  <2>2. SubSeq(blocked, 1, Len(blocked)) = blocked
        BY <1>2, SubSeqFull
  <2> QED BY <2>1, <2>2
<1>8. DOMAIN row = 1..n
      BY <1>5
<1>9. \A i \in 1..n : blocked[i] \in Asking <=> i \in waiting
      BY <1>2, <1>3, ElementOfSeq DEF Asking
<1> HIDE DEF row, rest
<1>10. Row(row, next)
  <2>1. CASE waiting = {}
    <3>1. Free(row, Asking)
          BY <1>5, <1>8, <1>9, <2>1 DEF Free
    <3> QED BY <2>1, <3>1 DEF Row
  <2>2. CASE waiting # {}
    <3>1. n \in 1..n /\ row[n] = next /\ next \in Asking
          BY <1>2, <1>3, <1>5, <1>9, <2>2
    <3>2. \A i \in 1..n : row[i] \in Asking => i = n
      <4>1. ASSUME NEW i \in 1..n, row[i] \in Asking
            PROVE  i = n
        <5>1. i \in waiting
              BY <1>5, <1>9, <4>1
        <5>2. n <= i /\ n \in Nat
              BY <1>3, <2>2, <5>1
        <5> QED BY <5>2
      <4> QED BY <4>1
    <3>3. ~Free(row, Asking)
          BY <1>8, <3>1 DEF Free
    <3>4. Free(row, Asking \ {next})
          BY <1>8, <3>1, <3>2 DEF Free
    <3>5. NoneAfter(row, Asking, Asking)
      <4>1. ASSUME NEW i \in 1..n, NEW j \in 1..n, i < j, row[i] \in Asking, row[j] \in Asking
            PROVE  FALSE
        <5>1. i = n /\ j = n /\ n \in Nat
              BY <1>3, <3>2, <4>1
        <5> QED BY <4>1, <5>1
      <4> QED BY <1>8, <4>1 DEF NoneAfter
    <3> QED BY <3>1, <3>3, <3>4, <3>5 DEF Row
  <2> QED BY <2>1, <2>2
<1>11. row \in Seq(BrokerFrames) /\ rest \in Seq(BrokerFrames)
       BY <1>5, <1>6, RequestsAreFrames
<1>12. next = None => rest = <<>>
  <2>1. next = None => waiting = {}
    <3>1. waiting # {} => next \in Requests
          BY <1>2, <1>3, ElementOfSeq
    <3>2. None \notin Requests
          BY RequestNames
    <3> QED BY <3>1, <3>2
  <2> QED BY <1>6, <2>1
<1> HIDE DEF next, waiting
<1>13. OnlyAsked(next, toBroker \o row, in, brokerState)
       BY <1>2, <1>10, <1>11, SendRow
<1>14. (toBroker \o row) \o rest = toBroker \o (row \o rest) /\ toBroker \o row \in Seq(BrokerFrames)
       BY <1>2, <1>11, ConcatAssociative, StreamTypes
<1> QED BY <1>1, <1>4, <1>6, <1>7, <1>12, <1>13, <1>14 DEF Sends, Out

-----------------------------------------------------------------------------
(* Types, the beginning, and one request at a time are kept.               *)

Asks == ChannelTypes /\ Beginning /\ OneAsked

\* The streams hold frames of their direction.
LEMMA Typed ==
    ASSUME ChannelTypes
    PROVE  /\ toBroker \in Seq(BrokerFrames) /\ blocked \in Seq(Requests)
           /\ blocked \in Seq(BrokerFrames) /\ Out \in Seq(BrokerFrames)
           /\ toClient \in Seq(ClientFrames)
           /\ state # "CLOSED" => RpcTypes
<1>1. toBroker \in Seq(BrokerFrames) /\ blocked \in Seq(Requests) /\ toClient \in Seq(ClientFrames)
      BY DEF ChannelTypes, TypeOK, BrokerFrames
<1>2. blocked \in Seq(BrokerFrames)
      BY <1>1, RequestsAreFrames
<1>3. Out \in Seq(BrokerFrames)
      BY <1>1, <1>2, StreamTypes DEF Out
<1>4. state # "CLOSED" => RpcTypes
      BY <1>1 DEF ChannelTypes, TypeOK, RpcTypes
<1> QED BY <1>1, <1>2, <1>3, <1>4

\* What _rpc leaves, in the next state.
LEMMA SentTypes ==
    ASSUME NEW r, NEW out, NEW in, Sends(r, out, in), SetRpc(r)
    PROVE  /\ blocking' \in Requests \cup {None} /\ blocked' \in Seq(Requests)
           /\ toBroker' \in Seq(BrokerFrames)
           /\ blocking' = None => blocked' = <<>>
           /\ Out' = out
           /\ OnlyAsked(blocking', toBroker', in, brokerState)
BY DEF Sends, SetRpc, Out

\* A call of the application.
LEMMA RpcAsks ==
    ASSUME Asks, Call, NEW request \in Requests, SetRpc(Rpc(Rpc0, request)),
           UNCHANGED <<state, toClient, brokerVars>>
    PROVE  /\ blocking' \in Requests \cup {None} /\ blocked' \in Seq(Requests)
           /\ toBroker' \in Seq(BrokerFrames)
           /\ blocking' = None => blocked' = <<>>
           /\ Out' = Append(Out, request)
           /\ Beginning' /\ OneAsked'
           /\ calls' = calls + 1 /\ calls' \in 0..MaxCalls /\ calls \in Nat
<1>1. RpcTypes /\ OnlyAsked(blocking, toBroker, toClient, brokerState)
      BY Typed DEF Asks, OneAsked, Call
<1>2. Sends(Rpc(Rpc0, request), Append(Out, request), toClient)
      BY <1>1, RpcSends
<1>3. /\ blocking' \in Requests \cup {None} /\ blocked' \in Seq(Requests)
      /\ toBroker' \in Seq(BrokerFrames)
      /\ blocking' = None => blocked' = <<>>
      /\ Out' = Append(Out, request)
      /\ OnlyAsked(blocking', toBroker', toClient, brokerState)
      BY <1>2, SentTypes
<1>4. toClient' = toClient /\ brokerState' = brokerState /\ state' = "OPEN" /\ state = "OPEN"
      BY DEF Call, brokerVars
<1>5. Beginning'
      BY <1>4 DEF Asks, Beginning
<1>6. OneAsked'
      BY <1>3, <1>4 DEF OneAsked
<1>7. calls' = calls + 1 /\ calls' \in 0..MaxCalls /\ calls \in Nat
      BY BoundsAssumption DEF Call, Asks, ChannelTypes, TypeOK
<1> QED BY <1>3, <1>5, <1>6, <1>7

\* basic_consume adds the tag, with its next life, and its Consume.
LEMMA BasicConsumeAsks ==
    ASSUME Asks, NEW tag \in Tags, NEW auto \in BOOLEAN, BasicConsume(tag, auto)
    PROVE  /\ Asks'
           /\ life' = [life EXCEPT ![tag] = @ + 1] /\ life'[tag] = life[tag] + 1
           /\ life' \in [Tags -> Nat] /\ life \in [Tags -> Nat]
           /\ Consume(tag, life'[tag], auto) \in Consumes(tag)
           /\ Consume(tag, life'[tag], auto) \in BrokerFrames
           /\ Out' = Append(Out, Consume(tag, life'[tag], auto))
<1>1. /\ Call /\ SetRpc(Rpc(Rpc0, Consume(tag, life'[tag], auto)))
      /\ life' = [life EXCEPT ![tag] = @ + 1]
      /\ UNCHANGED <<state, cancelled, cancelCallbacks, toClient, brokerVars>>
      /\ consumers' = consumers \cup {tag}
      BY DEF BasicConsume
<1>2. consumersWithNoack' \in SUBSET Tags
      BY DEF BasicConsume, Asks, ChannelTypes, TypeOK
<1>3. /\ life \in [Tags -> 0..MaxCalls] /\ \A t \in Tags : life[t] <= calls
      /\ calls \in 0..MaxCalls /\ MaxCalls \in Nat
      /\ consumers \in SUBSET Tags /\ IsFiniteSet(consumers)
      BY BoundsAssumption DEF Asks, ChannelTypes, TypeOK
<1>4. calls < MaxCalls /\ calls' = calls + 1
      BY <1>1 DEF Call
<1>5. life'[tag] = life[tag] + 1 /\ life'[tag] \in 1..MaxCalls
      BY <1>1, <1>3, <1>4
<1>6. Consume(tag, life'[tag], auto) \in Consumes(tag)
      BY <1>5 DEF Consumes
<1>7. Consume(tag, life'[tag], auto) \in Requests
      BY <1>5 DEF Requests
<1>8. /\ blocking' \in Requests \cup {None} /\ blocked' \in Seq(Requests)
      /\ toBroker' \in Seq(BrokerFrames)
      /\ blocking' = None => blocked' = <<>>
      /\ Out' = Append(Out, Consume(tag, life'[tag], auto))
      /\ Beginning' /\ OneAsked'
      /\ calls' = calls + 1 /\ calls' \in 0..MaxCalls /\ calls \in Nat
  <2>1. UNCHANGED <<state, toClient, brokerVars>>
        BY <1>1
  <2> DEFINE request == Consume(tag, life'[tag], auto)
  <2>2. request \in Requests /\ SetRpc(Rpc(Rpc0, request))
        BY <1>1, <1>7
  <2> HIDE DEF request
  <2>3. /\ blocking' \in Requests \cup {None} /\ blocked' \in Seq(Requests)
        /\ toBroker' \in Seq(BrokerFrames)
        /\ blocking' = None => blocked' = <<>>
        /\ Out' = Append(Out, request)
        /\ Beginning' /\ OneAsked'
        /\ calls' = calls + 1 /\ calls' \in 0..MaxCalls /\ calls \in Nat
        BY <1>1, <2>1, <2>2, RpcAsks
  <2> QED BY <2>3 DEF request
<1>9. life' \in [Tags -> 0..MaxCalls] /\ \A t \in Tags : life'[t] <= calls'
      BY <1>1, <1>3, <1>4, <1>5
<1>10. consumers' \in SUBSET Tags /\ IsFiniteSet(consumers')
       BY <1>1, <1>3, FS_AddElement
<1>11. ChannelTypes'
  <2>1. TypeOK'
        BY <1>1, <1>2, <1>8, <1>9, <1>10 DEF Asks, ChannelTypes, TypeOK, BrokerFrames, brokerVars
  <2>2. toClient' \in Seq(ClientFrames)
        BY <1>1 DEF Asks, ChannelTypes
  <2> QED BY <1>9, <1>10, <2>1, <2>2 DEF ChannelTypes
<1>12. life' \in [Tags -> Nat] /\ life \in [Tags -> Nat]
       BY <1>3, <1>9
<1>13. Consume(tag, life'[tag], auto) \in BrokerFrames
       BY <1>7 DEF BrokerFrames
<1> QED BY <1>1, <1>5, <1>6, <1>8, <1>11, <1>12, <1>13 DEF Asks

\* basic_cancel sends or queues its Cancel.
LEMMA BasicCancelAsks ==
    ASSUME Asks, NEW tag \in Tags, NEW nowait \in BOOLEAN, BasicCancel(tag, nowait)
    PROVE  /\ Asks'
           /\ Cancel(tag, nowait) \in Cancels(tag) /\ Cancel(tag, nowait) \in BrokerFrames
           /\ Out' = Append(Out, Cancel(tag, nowait))
<1>1. /\ Call /\ SetRpc(Rpc(Rpc0, Cancel(tag, nowait)))
      /\ UNCHANGED <<state, consumersWithNoack, life, toClient, brokerVars>>
      BY DEF BasicCancel
<1>2. /\ consumers' \in SUBSET consumers /\ cancelled' \in SUBSET Tags
      /\ cancelCallbacks' \in SUBSET Tags /\ consumers \in SUBSET Tags
      BY DEF BasicCancel, Asks, ChannelTypes, TypeOK
<1>3. Cancel(tag, nowait) \in Cancels(tag) /\ Cancel(tag, nowait) \in Requests
      BY DEF Cancels, Requests
<1>4. /\ blocking' \in Requests \cup {None} /\ blocked' \in Seq(Requests)
      /\ toBroker' \in Seq(BrokerFrames)
      /\ blocking' = None => blocked' = <<>>
      /\ Out' = Append(Out, Cancel(tag, nowait))
      /\ Beginning' /\ OneAsked'
      /\ calls' = calls + 1 /\ calls' \in 0..MaxCalls /\ calls \in Nat
  <2>1. UNCHANGED <<state, toClient, brokerVars>>
        BY <1>1
  <2> QED BY <1>1, <1>3, <2>1, RpcAsks
<1>5. IsFiniteSet(consumers')
      BY <1>2, FS_Subset DEF Asks, ChannelTypes
<1>6. TypeOK'
      BY <1>1, <1>2, <1>4 DEF Asks, ChannelTypes, TypeOK, BrokerFrames, brokerVars
<1>7. \A t \in Tags : life'[t] <= calls'
  <2>1. \A t \in Tags : life[t] \in Int /\ life[t] <= calls
        BY BoundsAssumption DEF Asks, ChannelTypes, TypeOK
  <2> QED BY <1>1, <1>4, <2>1
<1>8. ChannelTypes'
      BY <1>1, <1>5, <1>6, <1>7 DEF Asks, ChannelTypes
<1>9. Cancel(tag, nowait) \in BrokerFrames
      BY <1>3 DEF BrokerFrames
<1> QED BY <1>3, <1>4, <1>8, <1>9 DEF Asks

\* A method that is a request only is sent or queued.
LEMMA RpcOnlyAsks ==
    ASSUME Asks, NEW family \in Families, NEW nowait \in BOOLEAN, RpcOnly(Other(family, nowait))
    PROVE  /\ Asks'
           /\ Other(family, nowait) \in BrokerFrames /\ Other(family, nowait).m \in Families
           /\ Out' = Append(Out, Other(family, nowait))
<1> DEFINE request == Other(family, nowait)
<1>1. request \in Requests
      BY DEF Requests
<1>2. request.m \in Families
      BY Fields
<1> HIDE DEF request
<1>3. /\ Call /\ SetRpc(Rpc(Rpc0, request))
      /\ UNCHANGED <<state, consumerVars, toClient, brokerVars>>
      BY DEF RpcOnly, request
<1>4. /\ blocking' \in Requests \cup {None} /\ blocked' \in Seq(Requests)
      /\ toBroker' \in Seq(BrokerFrames)
      /\ blocking' = None => blocked' = <<>>
      /\ Out' = Append(Out, request)
      /\ Beginning' /\ OneAsked'
      /\ calls' = calls + 1 /\ calls' \in 0..MaxCalls /\ calls \in Nat
  <2>1. UNCHANGED <<state, toClient, brokerVars>>
        BY <1>3
  <2> QED BY <1>1, <1>3, <2>1, RpcAsks
<1>5. TypeOK'
      BY <1>3, <1>4 DEF Asks, ChannelTypes, TypeOK, BrokerFrames, brokerVars, consumerVars
<1>6. \A t \in Tags : life'[t] <= calls'
  <2>1. \A t \in Tags : life[t] \in Int /\ life[t] <= calls
        BY BoundsAssumption DEF Asks, ChannelTypes, TypeOK
  <2> QED BY <1>3, <1>4, <2>1 DEF consumerVars
<1>7. ChannelTypes'
      BY <1>3, <1>5, <1>6 DEF Asks, ChannelTypes, consumerVars
<1>8. request \in BrokerFrames
      BY <1>1 DEF BrokerFrames
<1> QED BY <1>2, <1>4, <1>7, <1>8 DEF Asks, request

\* The tags in the order of SetToSeq.
LEMMA TagsInARow ==
    ASSUME NEW S, IsFiniteSet(S)
    PROVE  SetToSeq(S) \in Seq(S)
<1> DEFINE n == Cardinality(S)
<1>1. n \in Nat /\ ExistsBijection(1..n, S)
      BY FS_CardinalityType
<1>2. PICK g \in Bijection(1..n, S) : TRUE
      BY <1>1 DEF ExistsBijection
<1>3. g \in [1..n -> S] /\ \A a, b \in 1..n : g[a] = g[b] => a = b
      BY <1>2 DEF Bijection, Injection, IsInjective
<1> HIDE DEF n
<1>4. \E f \in [1..n -> S] : IsInjective(f)
      BY <1>3 DEF IsInjective
<1>5. SetToSeq(S) \in [1..n -> S]
      BY <1>4 DEF SetToSeq, n
<1> QED BY <1>1, <1>5

\* close() sends or queues the Cancels of its consumers and Channel.Close.
LEMMA CloseAsks ==
    ASSUME Asks, Close
    PROVE  Asks' /\ state' = "CLOSING"
<1> DEFINE tags == SetToSeq(consumers \ cancelled)
           cancels == [i \in DOMAIN tags |-> Cancel(tags[i], TRUE)]
           row == Append(cancels, ChannelClose)
<1>1. /\ state \in {"OPENING", "OPEN"} /\ state' = "CLOSING"
      /\ SetRpc(RpcRow(row))
      /\ consumers' = consumers \cap cancelled /\ cancelled' = cancelled \cup consumers
      /\ UNCHANGED <<consumersWithNoack, cancelCallbacks, life, toClient, brokerVars, calls>>
      BY DEF Close
<1>2. tags \in Seq(Tags)
  <2>1. IsFiniteSet(consumers \ cancelled)
        BY FS_Subset DEF Asks, ChannelTypes
  <2>2. tags \in Seq(consumers \ cancelled)
        BY <2>1, TagsInARow
  <2>3. consumers \ cancelled \subseteq Tags
        BY DEF Asks, ChannelTypes, TypeOK
  <2> HIDE DEF tags
  <2> QED BY <2>2, <2>3
<1> HIDE DEF tags
<1>3. cancels \in Seq(Requests) /\ \A i \in DOMAIN cancels : cancels[i] \notin Asking
  <2>1. /\ Len(tags) \in Nat /\ DOMAIN tags = 1..Len(tags)
        /\ \A i \in 1..Len(tags) : tags[i] \in Tags
        BY <1>2, LenProperties, ElementOfSeq
  <2>2. \A t \in Tags : Cancel(t, TRUE) \in Requests /\ Cancel(t, TRUE) \notin Asking
    <3>1. \A t \in Tags : Cancel(t, TRUE) \in Requests
      <4>1. \A t \in Tags, w \in BOOLEAN : Cancel(t, w) \in Requests
            BY DEF Requests
      <4> QED BY <4>1
    <3>2. \A t \in Tags : Cancel(t, TRUE) \notin Asking
          BY AskingKinds
    <3> QED BY <3>1, <3>2
  <2>3. cancels \in [1..Len(tags) -> Requests]
        BY <2>1, <2>2
  <2>4. \A i \in DOMAIN cancels : cancels[i] \notin Asking
        BY <2>1, <2>2
  <2> HIDE DEF cancels
  <2>5. cancels \in Seq(Requests)
        BY <2>1, <2>3
  <2> QED BY <2>4, <2>5
<1> HIDE DEF cancels
<1>4. ChannelClose \in Requests /\ ChannelClose \in Asking
      BY AskingKinds DEF Requests
<1>5. Free(cancels, Asking) /\ Free(cancels, Asking \ {ChannelClose})
      /\ NoneAfter(cancels, Asking, Asking)
      BY <1>3 DEF Free, NoneAfter
<1>6. row \in Seq(Requests) /\ Last(row) = ChannelClose
  <2>1. row \in Seq(Requests) /\ Len(row) = Len(cancels) + 1 /\ row[Len(cancels) + 1] = ChannelClose
        BY <1>3, <1>4, AppendProperties
  <2> QED BY <2>1 DEF Last
<1>7. /\ Free(row, Asking) <=> Free(cancels, Asking) /\ ChannelClose \notin Asking
      /\ Free(row, Asking \ {ChannelClose}) <=>
             /\ Free(cancels, Asking \ {ChannelClose})
             /\ ChannelClose \notin Asking \ {ChannelClose}
      /\ NoneAfter(row, Asking, Asking) <=>
             /\ NoneAfter(cancels, Asking, Asking)
             /\ Free(cancels, Asking) \/ ChannelClose \notin Asking
      BY <1>3, <1>4, AppendFrame
<1>8. Row(row, ChannelClose)
      BY <1>4, <1>5, <1>7 DEF Row
<1> HIDE DEF row
<1>9. Sends(RpcRow(row), Out \o row, toClient)
  <2>1. RpcTypes /\ OnlyAsked(blocking, toBroker, toClient, brokerState)
        BY <1>1, Typed DEF Asks, OneAsked
  <2> QED BY <1>4, <1>6, <1>8, <2>1, RowSends
<1>10. /\ blocking' \in Requests \cup {None} /\ blocked' \in Seq(Requests)
       /\ toBroker' \in Seq(BrokerFrames)
       /\ blocking' = None => blocked' = <<>>
       /\ OnlyAsked(blocking', toBroker', toClient, brokerState)
       BY <1>1, <1>9, SentTypes
<1>11. OneAsked'
       BY <1>1, <1>10 DEF OneAsked, brokerVars
<1>12. Beginning'
  <2>1. blocking # None => toBroker' = toBroker /\ blocking' = blocking
        BY <1>1 DEF SetRpc, RpcRow, Rpc0
  <2>2. None # Open
        BY Fields
  <2> QED BY <1>1, <2>1, <2>2 DEF Asks, Beginning, brokerVars
<1>13. IsFiniteSet(consumers')
       BY <1>1, FS_Subset DEF Asks, ChannelTypes
<1>14. TypeOK'
       BY <1>1, <1>10 DEF Asks, ChannelTypes, TypeOK, BrokerFrames, brokerVars
<1>15. ChannelTypes'
       BY <1>1, <1>13, <1>14 DEF Asks, ChannelTypes
<1> QED BY <1>1, <1>11, <1>12, <1>15 DEF Asks

-----------------------------------------------------------------------------
(* The frames that the client reads.                                       *)

\* A frame is taken from the stream; the handshake is over.
LEMMA Received ==
    ASSUME Asks, NEW m, Receive(m)
    PROVE  /\ toClient # <<>> /\ Head(toClient) \in ClientFrames /\ Head(toClient).m = m
           /\ toClient' = Tail(toClient) /\ Tail(toClient) \in Seq(ClientFrames)
           /\ brokerState # "none" /\ state # "CLOSED"
           /\ UNCHANGED <<brokerState, brokerConsumers, deliveries, calls, life>>
           /\ RpcTypes /\ OnlyAsked(blocking, toBroker, toClient, brokerState)
<1>1. toClient \in Seq(ClientFrames) /\ toClient # <<>> /\ state # "CLOSED"
      BY DEF Asks, ChannelTypes, Receive
<1>2. Head(toClient) \in ClientFrames /\ Tail(toClient) \in Seq(ClientFrames)
      BY <1>1, StreamTypes
<1>3. RpcTypes /\ OnlyAsked(blocking, toBroker, toClient, brokerState)
      BY <1>1, Typed DEF Asks, OneAsked
<1> QED BY <1>1, <1>2, <1>3 DEF Asks, Beginning, Receive, brokerVars

\* The reply that waited for: what was blocked goes out, and what the broker has
\* still to read stays.
LEMMA ReplyAsks ==
    ASSUME Asks, NEW m, Receive(m), Answered, SetRpc(SynchronousComplete)
    PROVE  /\ blocking' \in Requests \cup {None} /\ blocked' \in Seq(Requests)
           /\ toBroker' \in Seq(BrokerFrames)
           /\ blocking' = None => blocked' = <<>>
           /\ Out' = Out /\ Beginning' /\ OneAsked'
           /\ blocking \in Asking /\ Head(toClient) = Reply(blocking)
<1>1. /\ toClient # <<>> /\ toClient \in Seq(ClientFrames)
      /\ toClient' = Tail(toClient) /\ brokerState # "none" /\ brokerState' = brokerState
      /\ RpcTypes /\ OnlyAsked(blocking, toBroker, toClient, brokerState)
      BY Received DEF Asks, ChannelTypes
<1>2. blocking # None /\ Head(toClient) = Reply(blocking)
      BY DEF Answered
<1>3. OnlyAsked(None, toBroker, Tail(toClient), brokerState)
      BY <1>1, <1>2, TakeReply
<1>4. Sends(SynchronousComplete, Out, Tail(toClient))
      BY <1>1, <1>3, CompleteSends
<1>5. /\ blocking' \in Requests \cup {None} /\ blocked' \in Seq(Requests)
      /\ toBroker' \in Seq(BrokerFrames)
      /\ blocking' = None => blocked' = <<>>
      /\ Out' = Out
      /\ OnlyAsked(blocking', toBroker', Tail(toClient), brokerState)
      BY <1>4, SentTypes
<1>6. Beginning' /\ OneAsked'
      BY <1>1, <1>5 DEF Beginning, OneAsked
<1>7. blocking \in Asking
      BY <1>1, <1>2 DEF OnlyAsked
<1> QED BY <1>2, <1>5, <1>6, <1>7

\* Each handler of a reply ends its request and sends what was behind it.
LEMMA OnOpenOkAsks ==
    ASSUME Asks, OnOpenOk
    PROVE  Asks' /\ Out' = Out
<1>1. /\ Receive("Channel.OpenOk") /\ Answered /\ SetRpc(SynchronousComplete)
      /\ state' = IF state = "CLOSING" THEN state ELSE "OPEN"
      /\ UNCHANGED <<consumers, consumersWithNoack, cancelled, cancelCallbacks>>
      BY DEF OnOpenOk
<1>2. /\ blocking' \in Requests \cup {None} /\ blocked' \in Seq(Requests)
      /\ toBroker' \in Seq(BrokerFrames)
      /\ blocking' = None => blocked' = <<>>
      /\ Out' = Out /\ Beginning' /\ OneAsked'
      BY <1>1, ReplyAsks
<1>3. /\ toClient' \in Seq(ClientFrames)
      /\ UNCHANGED <<brokerState, brokerConsumers, deliveries, calls, life>>
      BY <1>1, Received
<1>4. TypeOK'
      BY <1>1, <1>2, <1>3 DEF Asks, ChannelTypes, TypeOK, BrokerFrames
<1>5. ChannelTypes'
      BY <1>1, <1>3, <1>4 DEF Asks, ChannelTypes
<1> QED BY <1>2, <1>5 DEF Asks

\* The replies to consume and to the methods that are requests only.
LEMMA OnOkAsks ==
    ASSUME Asks, OnOk
    PROVE  /\ Asks' /\ Out' = Out
           /\ \A t \in Tags : Head(toClient) \notin Delivers(t) \cup {BrokerCancel(t), CancelOk(t)}
<1>1. PICK m \in {"Basic.ConsumeOk", "Ok"} : Receive(m)
      BY DEF OnOk
<1>2. /\ Answered /\ SetRpc(SynchronousComplete)
      /\ UNCHANGED <<state, consumers, consumersWithNoack, cancelled, cancelCallbacks>>
      BY DEF OnOk
<1>3. /\ blocking' \in Requests \cup {None} /\ blocked' \in Seq(Requests)
      /\ toBroker' \in Seq(BrokerFrames)
      /\ blocking' = None => blocked' = <<>>
      /\ Out' = Out /\ Beginning' /\ OneAsked'
      BY <1>1, <1>2, ReplyAsks
<1>4. /\ toClient' \in Seq(ClientFrames)
      /\ Head(toClient) \in ClientFrames /\ Head(toClient).m = m
      /\ UNCHANGED <<brokerState, brokerConsumers, deliveries, calls, life>>
      BY <1>1, Received
<1>5. TypeOK'
      BY <1>2, <1>3, <1>4 DEF Asks, ChannelTypes, TypeOK, BrokerFrames
<1>6. ChannelTypes'
      BY <1>2, <1>4, <1>5 DEF Asks, ChannelTypes
<1>7. \A t \in Tags : Head(toClient) \notin Delivers(t) \cup {BrokerCancel(t), CancelOk(t)}
      BY <1>1, <1>4, ClientFrameKinds
<1> QED BY <1>3, <1>6, <1>7 DEF Asks

\* The reply to a cancellation forgets its tag.
LEMMA OnCancelOkAsks ==
    ASSUME Asks, OnCancelOk
    PROVE  /\ Asks' /\ Out' = Out
           /\ Head(toClient).tag \in Tags /\ Head(toClient) = CancelOk(Head(toClient).tag)
<1>1. /\ Receive("Basic.CancelOk") /\ Answered /\ SetRpc(SynchronousComplete)
      /\ CleanupConsumerRef(Head(toClient).tag) /\ cancelCallbacks' = {} /\ state' = state
      BY DEF OnCancelOk
<1>2. /\ blocking' \in Requests \cup {None} /\ blocked' \in Seq(Requests)
      /\ toBroker' \in Seq(BrokerFrames)
      /\ blocking' = None => blocked' = <<>>
      /\ Out' = Out /\ Beginning' /\ OneAsked'
      BY <1>1, ReplyAsks
<1>3. /\ toClient' \in Seq(ClientFrames)
      /\ Head(toClient) \in ClientFrames /\ Head(toClient).m = "Basic.CancelOk"
      /\ UNCHANGED <<brokerState, brokerConsumers, deliveries, calls, life>>
      BY <1>1, Received
<1>4. /\ consumers' \in SUBSET consumers /\ cancelled' \in SUBSET cancelled
      /\ consumersWithNoack' \in SUBSET consumersWithNoack
      BY <1>1 DEF CleanupConsumerRef
<1>5. IsFiniteSet(consumers')
      BY <1>4, FS_Subset DEF Asks, ChannelTypes
<1>6. TypeOK'
      BY <1>1, <1>2, <1>3, <1>4 DEF Asks, ChannelTypes, TypeOK, BrokerFrames
<1>7. ChannelTypes'
      BY <1>3, <1>5, <1>6 DEF Asks, ChannelTypes
<1>8. Head(toClient).tag \in Tags /\ Head(toClient) = CancelOk(Head(toClient).tag)
      BY <1>3, ClientFrameKinds
<1> QED BY <1>2, <1>7, <1>8 DEF Asks

\* A frame that answers nothing.
LEMMA NoAnswerAsks ==
    ASSUME Asks, NEW m \in {"Basic.Deliver", "Basic.Cancel", "Channel.Close"}, Receive(m),
           blocking' = blocking, NEW f \in BrokerFrames, f \notin Asking,
           toBroker' \in {toBroker, Append(toBroker, f)}
    PROVE  Beginning' /\ OneAsked' /\ toBroker' \in Seq(BrokerFrames)
<1>1. /\ toClient # <<>> /\ toClient \in Seq(ClientFrames) /\ toBroker \in Seq(BrokerFrames)
      /\ Head(toClient) \in ClientFrames /\ Head(toClient).m = m
      /\ toClient' = Tail(toClient) /\ brokerState # "none" /\ brokerState' = brokerState
      /\ OnlyAsked(blocking, toBroker, toClient, brokerState)
      BY Received, Typed DEF Asks
<1>2. Head(toClient) \notin Answers
      BY <1>1, ClientFrameKinds
<1>3. Alike(Tail(toClient), toClient, Answers)
      BY <1>1, <1>2, AlikeTail
<1>4. Alike(toBroker', toBroker, Asking) /\ toBroker' \in Seq(BrokerFrames)
  <2>1. Alike(toBroker, toBroker, Asking)
        BY DEF Alike
  <2>2. Alike(Append(toBroker, f), toBroker, Asking)
        BY <1>1, AlikeFrame
  <2>3. Append(toBroker, f) \in Seq(BrokerFrames)
        BY <1>1, StreamTypes
  <2> QED BY <1>1, <2>1, <2>2, <2>3
<1>5. OnlyAsked(blocking, toBroker', Tail(toClient), brokerState)
      BY <1>1, <1>3, <1>4, OnlyAskedKept
<1> QED BY <1>1, <1>4, <1>5 DEF Beginning, OneAsked

\* A cancellation by the broker is no reply: the request under way stays.
LEMMA OnCancelAsks ==
    ASSUME Asks, OnCancel
    PROVE  /\ Asks' /\ Out' = Out
           /\ Head(toClient).tag \in Tags /\ Head(toClient) = BrokerCancel(Head(toClient).tag)
<1>1. Receive("Basic.Cancel") /\ UNCHANGED <<state, rpcVars, cancelCallbacks>>
      BY DEF OnCancel
<1>2. /\ toClient' \in Seq(ClientFrames)
      /\ Head(toClient) \in ClientFrames /\ Head(toClient).m = "Basic.Cancel"
      /\ UNCHANGED <<brokerState, brokerConsumers, deliveries, calls, life>>
      BY <1>1, Received
<1>3. /\ consumers' \in SUBSET consumers /\ cancelled' \in SUBSET cancelled
      /\ consumersWithNoack' \in SUBSET consumersWithNoack
      BY DEF OnCancel, CleanupConsumerRef
<1>4. Beginning' /\ OneAsked'
  <2>1. Open \in Asking /\ CloseOk \in BrokerFrames /\ CloseOk \notin Asking
    <3>1. CloseOk.m \notin Synchronous
          BY Fields DEF Synchronous, Families
    <3> QED BY <3>1, AskingKinds, RequestNames DEF Asking, BrokerFrames
  <2>2. blocking' = blocking /\ toBroker' = toBroker
        BY <1>1 DEF rpcVars
  <2> QED BY <1>1, <2>1, <2>2, NoAnswerAsks
<1>5. IsFiniteSet(consumers')
      BY <1>3, FS_Subset DEF Asks, ChannelTypes
<1>6. TypeOK'
      BY <1>1, <1>2, <1>3 DEF Asks, ChannelTypes, TypeOK, rpcVars
<1>7. ChannelTypes'
      BY <1>2, <1>5, <1>6 DEF Asks, ChannelTypes
<1>8. Head(toClient).tag \in Tags /\ Head(toClient) = BrokerCancel(Head(toClient).tag)
      BY <1>2, ClientFrameKinds
<1> QED BY <1>1, <1>4, <1>7, <1>8 DEF Asks, Out, rpcVars

\* A Basic.Reject is no request and nobody's consumer.
LEMMA Rejecting ==
    ASSUME NEW t \in Tags
    PROVE  /\ Tagged("Basic.Reject", t) \in BrokerFrames
           /\ Tagged("Basic.Reject", t) \notin Asking
           /\ \A u \in Tags : Tagged("Basic.Reject", t) \notin Consumes(u) \cup Cancels(u)
<1> DEFINE f == Tagged("Basic.Reject", t)
<1>1. f.m = "Basic.Reject"
      BY Fields
<1>2. f \in BrokerFrames
      BY DEF BrokerFrames
<1> HIDE DEF f
<1>3. f.m \notin Synchronous
      BY <1>1 DEF Synchronous, Families
<1>4. f \notin Asking
      BY <1>3, RequestNames DEF Asking
<1>5. \A u \in Tags : f \notin Consumes(u) \cup Cancels(u)
      BY <1>1, <1>2, BrokerFrameKinds
<1> QED BY <1>2, <1>4, <1>5 DEF f

\* Nor is a delivery, which a cancelled consumer's handler rejects.
LEMMA OnDeliverAsks ==
    ASSUME Asks, OnDeliver
    PROVE  /\ Asks'
           /\ Head(toClient).tag \in Tags /\ Head(toClient) \in Delivers(Head(toClient).tag)
           /\ \A t \in Tags : Alike(Out', Out, Consumes(t) \cup Cancels(t))
<1> DEFINE tag == Head(toClient).tag
           f == Tagged("Basic.Reject", tag)
<1>1. /\ Receive("Basic.Deliver")
      /\ toBroker' \in {toBroker, Append(toBroker, f)}
      /\ UNCHANGED <<state, blocking, blocked, consumers, consumersWithNoack, cancelled,
                     cancelCallbacks>>
      BY DEF OnDeliver
<1>2. /\ toClient' \in Seq(ClientFrames)
      /\ Head(toClient) \in ClientFrames /\ Head(toClient).m = "Basic.Deliver"
      /\ UNCHANGED <<brokerState, brokerConsumers, deliveries, calls, life>>
      BY <1>1, Received
<1>3. tag \in Tags /\ Head(toClient) \in Delivers(tag)
      BY <1>2, ClientFrameKinds
<1>4. /\ f \in BrokerFrames /\ f \notin Asking
      /\ \A u \in Tags : f \notin Consumes(u) \cup Cancels(u)
      BY <1>3, Rejecting
<1> HIDE DEF f, tag
<1>5. Beginning' /\ OneAsked' /\ toBroker' \in Seq(BrokerFrames)
      BY <1>1, <1>4, NoAnswerAsks
<1>6. TypeOK'
      BY <1>1, <1>2, <1>5 DEF Asks, ChannelTypes, TypeOK, BrokerFrames
<1>7. ChannelTypes'
      BY <1>1, <1>2, <1>6 DEF Asks, ChannelTypes
<1>8. ASSUME NEW t \in Tags
      PROVE  Alike(Out', Out, Consumes(t) \cup Cancels(t))
  <2>1. toBroker \in Seq(BrokerFrames) /\ blocked \in Seq(BrokerFrames)
        BY Typed DEF Asks
  <2>2. Alike(Append(toBroker, f) \o blocked, toBroker \o blocked, Consumes(t) \cup Cancels(t))
        BY <1>4, <2>1, AlikeFrame
  <2>3. Alike(toBroker \o blocked, toBroker \o blocked, Consumes(t) \cup Cancels(t))
        BY DEF Alike
  <2> QED BY <1>1, <2>2, <2>3 DEF Out
<1> QED BY <1>3, <1>5, <1>7, <1>8 DEF Asks, tag

\* A channel that ends.
LEMMA ToClosedAsks ==
    ASSUME Asks, state # "CLOSED", ToClosed, blocked' \in {blocked, <<>>}, brokerState' # "none",
           toBroker' \in Seq(BrokerFrames), toClient' \in Seq(ClientFrames),
           brokerState' \in {"open", "closing", "closed"},
           brokerConsumers' \in [Tags -> 0..MaxCalls],
           UNCHANGED <<deliveries, calls, life>>
    PROVE  Asks' /\ state' = "CLOSED"
<1>1. /\ state' = "CLOSED" /\ consumers' = {} /\ cancelCallbacks' = {} /\ blocking' = None
      /\ UNCHANGED <<consumersWithNoack, cancelled>>
      BY DEF ToClosed
<1>2. blocked' \in Seq(Requests)
      BY EmptySeq DEF Asks, ChannelTypes, TypeOK
<1>3. IsFiniteSet(consumers')
      BY <1>1, FS_EmptySet
<1>4. TypeOK'
      BY <1>1, <1>2 DEF Asks, ChannelTypes, TypeOK, BrokerFrames
<1>5. ChannelTypes'
      BY <1>3, <1>4 DEF Asks, ChannelTypes
<1>6. Beginning' /\ OneAsked'
      BY <1>1 DEF Beginning, OneAsked
<1> QED BY <1>1, <1>5, <1>6 DEF Asks

\* CloseOk answers a close; the client's own one awaits nothing.
LEMMA ClosingFrames ==
    /\ CloseOk \in BrokerFrames /\ CloseOk \notin Asking /\ CloseOk \in ClientFrames
    /\ ChannelClose \in ClientFrames /\ ChannelClose \notin Answers
    /\ Reply(ChannelClose) = CloseOk
<1>1. CloseOk \in BrokerFrames /\ CloseOk \in ClientFrames /\ ChannelClose \in ClientFrames
      BY DEF BrokerFrames, ClientFrames, Answers
<1>2. CloseOk.m \notin Synchronous
      BY Fields DEF Synchronous, Families
<1>3. CloseOk \notin Asking
      BY <1>2, RequestNames DEF Asking
<1>4. ChannelClose \notin Answers
      BY <1>1, Fields, ClientFrameKinds
<1>5. Reply(ChannelClose) = CloseOk
      BY Fields DEF Reply
<1> QED BY <1>1, <1>3, <1>4, <1>5

\* Channel.Close of the broker is answered and closes the channel.
LEMMA OnCloseFromBrokerAsks ==
    ASSUME Asks, OnCloseFromBroker
    PROVE  Asks' /\ state' \notin {"OPENING", "OPEN"}
<1>1. /\ Receive("Channel.Close") /\ toBroker' = Append(toBroker, CloseOk)
      /\ blocked' \in {blocked, <<>>}
      BY DEF OnCloseFromBroker
<1>2. /\ toClient' \in Seq(ClientFrames) /\ state # "CLOSED" /\ brokerState # "none"
      /\ UNCHANGED <<brokerState, brokerConsumers, deliveries, calls, life>>
      BY <1>1, Received
<1>3. toBroker' \in Seq(BrokerFrames) /\ CloseOk \in BrokerFrames /\ CloseOk \notin Asking
      BY <1>1, ClosingFrames, StreamTypes, Typed DEF Asks
<1>4. CASE /\ state = "CLOSING" /\ blocked' = <<>>
           /\ UNCHANGED <<state, blocking, consumers, consumersWithNoack, cancelled,
                          cancelCallbacks>>
  <2>1. Beginning' /\ OneAsked'
        BY <1>1, <1>3, <1>4, NoAnswerAsks
  <2>2. TypeOK'
        BY <1>2, <1>3, <1>4, EmptySeq DEF Asks, ChannelTypes, TypeOK, BrokerFrames
  <2>3. ChannelTypes'
        BY <1>2, <1>4, <2>2 DEF Asks, ChannelTypes
  <2> QED BY <1>4, <2>1, <2>3 DEF Asks
<1>5. CASE ToClosed
  <2>1. /\ brokerState' \in {"open", "closing", "closed"} /\ brokerState' # "none"
        /\ brokerConsumers' \in [Tags -> 0..MaxCalls]
        BY <1>2 DEF Asks, ChannelTypes, TypeOK
  <2> QED BY <1>1, <1>2, <1>3, <1>5, <2>1, ToClosedAsks
<1> QED BY <1>4, <1>5 DEF OnCloseFromBroker

\* So does the reply to the client's own.
LEMMA OnCloseOkAsks ==
    ASSUME Asks, OnCloseOk
    PROVE  Asks' /\ state' \notin {"OPENING", "OPEN"}
<1>1. /\ Receive("Channel.CloseOk") /\ ToClosed /\ UNCHANGED <<blocked, toBroker>>
      BY DEF OnCloseOk
<1>2. /\ toClient' \in Seq(ClientFrames) /\ state # "CLOSED" /\ brokerState # "none"
      /\ UNCHANGED <<brokerState, brokerConsumers, deliveries, calls, life>>
      BY <1>1, Received
<1>3. /\ brokerState' \in {"open", "closing", "closed"} /\ brokerState' # "none"
      /\ brokerConsumers' \in [Tags -> 0..MaxCalls]
      BY <1>2 DEF Asks, ChannelTypes, TypeOK
<1>4. toBroker' \in Seq(BrokerFrames)
      BY <1>1, Typed DEF Asks
<1> QED BY <1>1, <1>2, <1>3, <1>4, ToClosedAsks

\* And the end of the connection, with what was on its way.
LEMMA OnCloseMetaAsks ==
    ASSUME Asks, OnCloseMeta
    PROVE  Asks' /\ state' \notin {"OPENING", "OPEN"}
<1>1. /\ state # "CLOSED" /\ ToClosed /\ blocked' = blocked
      /\ toBroker' = <<>> /\ toClient' = <<>> /\ brokerState' = "closed"
      /\ brokerConsumers' = [t \in Tags |-> 0]
      /\ UNCHANGED <<life, calls, deliveries>>
      BY DEF OnCloseMeta
<1>2. toBroker' \in Seq(BrokerFrames) /\ toClient' \in Seq(ClientFrames)
      BY <1>1, EmptySeq
<1>3. brokerConsumers' \in [Tags -> 0..MaxCalls]
      BY <1>1, BoundsAssumption
<1> QED BY <1>1, <1>2, <1>3, ToClosedAsks

-----------------------------------------------------------------------------
(* The broker.                                                             *)

\* The head of a concatenation.
LEMMA JoinHead ==
    ASSUME NEW U, NEW q \in Seq(U), NEW r \in Seq(U), q # <<>>
    PROVE  /\ q \o r # <<>> /\ Head(q \o r) = Head(q) /\ Tail(q \o r) = Tail(q) \o r
<1> DEFINE j == q \o r
<1>1. /\ Len(q) \in Nat /\ Len(r) \in Nat /\ Len(q) # 0
      /\ j \in Seq(U) /\ Len(j) = Len(q) + Len(r)
      /\ \A i \in 1..Len(q) + Len(r) : j[i] = IF i <= Len(q) THEN q[i] ELSE r[i - Len(q)]
      BY LenProperties, EmptySeq, ConcatProperties
<1>2. /\ Tail(q) \in Seq(U) /\ Len(Tail(q)) = Len(q) - 1
      /\ \A i \in 1..Len(Tail(q)) : Tail(q)[i] = q[i + 1]
      /\ Head(q) = q[1]
      BY HeadTailProperties
<1> HIDE DEF j
<1>3. j # <<>>
      BY <1>1, EmptySeq
<1>4. /\ Tail(j) \in Seq(U) /\ Len(Tail(j)) = Len(j) - 1
      /\ \A i \in 1..Len(Tail(j)) : Tail(j)[i] = j[i + 1]
      /\ Head(j) = j[1]
      BY <1>1, <1>3, HeadTailProperties
<1>5. Head(j) = Head(q)
      BY <1>1, <1>2, <1>4
<1> DEFINE k == Tail(q) \o r
<1>6. /\ k \in Seq(U) /\ Len(k) = Len(Tail(q)) + Len(r)
      /\ \A i \in 1..Len(Tail(q)) + Len(r) :
            k[i] = IF i <= Len(Tail(q)) THEN Tail(q)[i] ELSE r[i - Len(Tail(q))]
      BY <1>2, ConcatProperties
<1> HIDE DEF k
<1>7. Len(Tail(j)) = Len(k)
      BY <1>1, <1>2, <1>4, <1>6
<1>8. ASSUME NEW i \in 1..Len(k)
      PROVE  Tail(j)[i] = k[i]
  <2>1. /\ i \in Nat /\ Tail(j)[i] = j[i + 1] /\ i + 1 \in 1..Len(q) + Len(r)
        /\ i \in 1..Len(Tail(q)) + Len(r)
        BY <1>1, <1>2, <1>4, <1>6, <1>7
  <2>2. CASE i <= Len(Tail(q))
    <3>1. k[i] = Tail(q)[i]
          BY <1>6, <2>1, <2>2
    <3>2. Tail(q)[i] = q[i + 1]
          BY <1>1, <1>2, <2>1, <2>2
    <3>3. j[i + 1] = q[i + 1]
          BY <1>1, <1>2, <2>1, <2>2
    <3> QED BY <2>1, <3>1, <3>2, <3>3
  <2>3. CASE ~(i <= Len(Tail(q)))
    <3>1. k[i] = r[i - Len(Tail(q))]
          BY <1>6, <2>1, <2>3
    <3>2. j[i + 1] = r[i + 1 - Len(q)]
          BY <1>1, <1>2, <2>1, <2>3
    <3>3. i + 1 - Len(q) = i - Len(Tail(q))
          BY <1>1, <1>2, <2>1
    <3> QED BY <2>1, <3>1, <3>2, <3>3
  <2> QED BY <2>2, <2>3
<1>9. Tail(j) = k
      BY <1>4, <1>6, <1>7, <1>8, SeqEqual
<1> QED BY <1>3, <1>5, <1>9 DEF j, k

\* What the broker reads and sends, in each of its states.
BrokerRead(f) ==
    \/ /\ brokerState = "none" /\ brokerState' = "open" /\ f = Open
       /\ toClient' = Append(toClient, Reply(f)) /\ brokerConsumers' = brokerConsumers
    \/ /\ brokerState = "open" /\ brokerState' = "closed" /\ f = ChannelClose
       /\ toClient' = Append(toClient, Reply(f))
       /\ brokerConsumers' = [t \in Tags |-> 0]
    \/ /\ brokerState = "open" /\ brokerState' = "open" /\ f.m # "Channel.Close"
       /\ IF f \in Asking THEN toClient' = Append(toClient, Reply(f)) ELSE toClient' = toClient
       /\ brokerConsumers' = CASE f.m = "Basic.Consume" -> [brokerConsumers EXCEPT ![f.tag] = f.life]
                               [] f.m = "Basic.Cancel" -> [brokerConsumers EXCEPT ![f.tag] = 0]
                               [] OTHER -> brokerConsumers
    \/ /\ brokerState \in {"closing", "closed"} /\ brokerState' \in {"closing", "closed"}
       /\ IF f = ChannelClose THEN toClient' = Append(toClient, Reply(f)) ELSE toClient' = toClient
       /\ brokerConsumers' = brokerConsumers

\* The broker reads the first frame that the client sent.
LEMMA BrokerReadsFrame ==
    ASSUME Asks, BrokerReads
    PROVE  /\ toBroker # <<>> /\ Head(toBroker) \in BrokerFrames /\ toBroker' = Tail(toBroker)
           /\ Out # <<>> /\ Head(Out) = Head(toBroker) /\ Out' = Tail(Out)
           /\ BrokerRead(Head(toBroker))
           /\ UNCHANGED <<state, blocking, blocked, consumerVars, calls, deliveries>>
<1>1. /\ toBroker # <<>> /\ toBroker' = Tail(toBroker)
      /\ UNCHANGED <<state, blocking, blocked, consumerVars, calls, deliveries>>
      BY DEF BrokerReads
<1>2. /\ toBroker \in Seq(BrokerFrames) /\ blocked \in Seq(BrokerFrames)
      /\ toClient \in Seq(ClientFrames)
      BY Typed DEF Asks
<1>3. Head(toBroker) \in BrokerFrames
      BY <1>1, <1>2, StreamTypes
<1>4. Out # <<>> /\ Head(Out) = Head(toBroker) /\ Out' = Tail(Out)
      BY <1>1, <1>2, JoinHead DEF Out
<1> DEFINE f == Head(toBroker)
<1>5. /\ f \in Asking <=> Awaits(f)
      /\ f.m = "Channel.Close" <=> f = ChannelClose
      BY <1>3, BrokerFrameKinds
<1>6. /\ f \in Asking => toClient \o <<Reply(f)>> = Append(toClient, Reply(f))
      /\ toClient \o <<CloseOk>> = Append(toClient, CloseOk)
      /\ toClient \o <<>> = toClient
      BY <1>2, Replies, ClosingFrames, StreamTypes
<1>7. brokerState \in {"none", "open", "closing", "closed"}
      BY DEF Asks, ChannelTypes, TypeOK
<1>8. BrokerRead(f)
  <2>1. CASE brokerState = "none"
    <3>1. f = Open /\ f \in Asking
          BY <2>1, AskingKinds DEF Asks, Beginning
    <3>2. /\ brokerState' = "open" /\ toClient' = toClient \o <<Reply(f)>>
          /\ UNCHANGED brokerConsumers
          BY <2>1 DEF BrokerReads, Send
    <3> QED BY <1>6, <2>1, <3>1, <3>2 DEF BrokerRead
  <2>2. CASE brokerState = "open" /\ f.m = "Channel.Close"
    <3>1. /\ brokerState' = "closed" /\ toClient' = toClient \o <<CloseOk>>
          /\ brokerConsumers' = [t \in Tags |-> 0]
          BY <2>2 DEF BrokerReads, Send
    <3> QED BY <1>5, <1>6, <2>2, <3>1, ClosingFrames DEF BrokerRead
  <2>3. CASE brokerState = "open" /\ f.m # "Channel.Close"
    <3>1. /\ brokerState' = brokerState
          /\ toClient' = toClient \o (IF Awaits(f) THEN <<Reply(f)>> ELSE <<>>)
          /\ brokerConsumers' = CASE f.m = "Basic.Consume" -> [brokerConsumers EXCEPT ![f.tag] = f.life]
                                  [] f.m = "Basic.Cancel" -> [brokerConsumers EXCEPT ![f.tag] = 0]
                                  [] OTHER -> brokerConsumers
          BY <2>3 DEF BrokerReads, Send
    <3> HIDE DEF f
    <3>2. IF f \in Asking THEN toClient' = Append(toClient, Reply(f)) ELSE toClient' = toClient
          BY <1>5, <1>6, <3>1
    <3> QED BY <2>3, <3>1, <3>2 DEF BrokerRead
  <2>4. CASE brokerState \in {"closing", "closed"}
    <3>1. /\ toClient' = toClient \o (IF f = ChannelClose THEN <<CloseOk>> ELSE <<>>)
          /\ brokerState' = IF f = CloseOk THEN "closed" ELSE brokerState
          /\ UNCHANGED brokerConsumers
          BY <2>4 DEF BrokerReads, Send
    <3> HIDE DEF f
    <3>2. IF f = ChannelClose THEN toClient' = Append(toClient, Reply(f)) ELSE toClient' = toClient
          BY <1>6, <3>1, ClosingFrames
    <3> QED BY <2>4, <3>1, <3>2 DEF BrokerRead
  <2> QED BY <1>7, <2>1, <2>2, <2>3, <2>4
<1> QED BY <1>1, <1>3, <1>4, <1>8

\* What it answers keeps one request under way.
LEMMA BrokerReadsAsks ==
    ASSUME Asks, BrokerReads
    PROVE  Asks'
<1> DEFINE f == Head(toBroker)
<1>1. /\ toBroker # <<>> /\ f \in BrokerFrames /\ toBroker' = Tail(toBroker)
      /\ BrokerRead(f)
      /\ UNCHANGED <<state, blocking, blocked, consumerVars, calls, deliveries>>
      BY BrokerReadsFrame
<1>2. toBroker \in Seq(BrokerFrames) /\ toClient \in Seq(ClientFrames)
      BY Typed DEF Asks
<1>3. Tail(toBroker) \in Seq(BrokerFrames)
      BY <1>1, <1>2, StreamTypes
<1>4. toClient' = toClient \/ (f \in Asking /\ toClient' = Append(toClient, Reply(f)))
      BY <1>1, AskingKinds DEF BrokerRead
<1>5. toClient' \in Seq(ClientFrames)
  <2>1. f \in Asking => Reply(f) \in ClientFrames
        BY Replies
  <2>2. \A g \in ClientFrames : Append(toClient, g) \in Seq(ClientFrames)
        BY <1>2, StreamTypes
  <2> QED BY <1>2, <1>4, <2>1, <2>2
<1>6. f \in Asking => \/ toClient' = Append(toClient, Reply(f))
                      \/ brokerState' \in {"closing", "closed"} /\ toClient' = toClient
      BY <1>1 DEF BrokerRead
<1>7. brokerState \in {"closing", "closed"} => brokerState' \in {"closing", "closed"}
      BY <1>1 DEF BrokerRead
<1>8. brokerConsumers' \in [Tags -> 0..MaxCalls]
  <2>1. f.m = "Basic.Consume" => f.tag \in Tags /\ f.life \in 0..MaxCalls
        BY <1>1, BrokerFrameKinds
  <2>2. brokerConsumers \in [Tags -> 0..MaxCalls] /\ 0 \in 0..MaxCalls
        BY BoundsAssumption DEF Asks, ChannelTypes, TypeOK
  <2> HIDE DEF f
  <2>3. \/ brokerConsumers' = brokerConsumers \/ brokerConsumers' = [t \in Tags |-> 0]
        \/ f.m = "Basic.Consume" /\ brokerConsumers' = [brokerConsumers EXCEPT ![f.tag] = f.life]
        \/ brokerConsumers' = [brokerConsumers EXCEPT ![f.tag] = 0]
        BY <1>1 DEF BrokerRead
  <2> QED BY <2>1, <2>2, <2>3
<1>9. brokerState' \in {"open", "closing", "closed"}
      BY <1>1 DEF BrokerRead
<1> HIDE DEF f
<1>10. ASSUME state # "CLOSED"
       PROVE  OnlyAsked(blocking, toBroker', toClient', brokerState')
  <2>1. OnlyAsked(blocking, toBroker, toClient, brokerState)
        BY <1>10 DEF Asks, OneAsked
  <2>2. CASE f \in Asking /\ toClient' = Append(toClient, Reply(f))
    <3>1. f = blocking /\ \A b : OnlyAsked(blocking, Tail(toBroker), Append(toClient, Reply(blocking)), b)
          BY <1>1, <1>2, <2>1, <2>2, AnswerRequest DEF f
    <3> QED BY <1>1, <2>2, <3>1
  <2>3. CASE f \in Asking /\ toClient' = toClient /\ brokerState' \in {"closing", "closed"}
    <3>1. OnlyAsked(blocking, Tail(toBroker), toClient, brokerState')
          BY <1>1, <1>2, <2>1, <2>3, DropRequest
    <3> QED BY <1>1, <2>3, <3>1
  <2>4. CASE f \notin Asking
    <3>1. Alike(Tail(toBroker), toBroker, Asking)
          BY <1>1, <1>2, <2>4, AlikeTail DEF f
    <3>2. Alike(toClient, toClient, Answers)
          BY DEF Alike
    <3>3. OnlyAsked(blocking, Tail(toBroker), toClient, brokerState')
          BY <1>7, <2>1, <3>1, <3>2, OnlyAskedKept
    <3> QED BY <1>1, <1>4, <2>4, <3>3
  <2> QED BY <1>6, <2>2, <2>3, <2>4
<1>11. OneAsked'
       BY <1>1, <1>10 DEF OneAsked
<1>12. Beginning'
       BY <1>9 DEF Beginning
<1>13. TypeOK'
       BY <1>1, <1>3, <1>8, <1>9 DEF Asks, ChannelTypes, TypeOK, BrokerFrames, consumerVars
<1>14. ChannelTypes'
       BY <1>1, <1>5, <1>13 DEF Asks, ChannelTypes, consumerVars
<1> QED BY <1>11, <1>12, <1>14 DEF Asks

\* A frame that the broker sends on its own.
LEMMA BrokerSendsAsks ==
    ASSUME Asks, brokerState = "open", NEW f \in ClientFrames, f \notin Answers,
           toClient' = toClient \o <<f>>, brokerState' \in {"open", "closing"},
           brokerConsumers' \in [Tags -> 0..MaxCalls], deliveries' \in 0..MaxDeliveries,
           UNCHANGED <<state, rpcVars, consumerVars, calls>>
    PROVE  Asks' /\ toClient' = Append(toClient, f) /\ Out' = Out
<1>1. toClient \in Seq(ClientFrames)
      BY Typed DEF Asks
<1>2. toClient' = Append(toClient, f) /\ Append(toClient, f) \in Seq(ClientFrames)
      BY <1>1, StreamTypes
<1>3. Alike(Append(toClient, f), toClient, Answers)
      BY <1>1, AlikeFrame
<1>4. Alike(toBroker, toBroker, Asking)
      BY DEF Alike
<1>5. ASSUME state # "CLOSED"
      PROVE  OnlyAsked(blocking, toBroker, Append(toClient, f), brokerState')
  <2>1. OnlyAsked(blocking, toBroker, toClient, brokerState)
        BY <1>5 DEF Asks, OneAsked
  <2> QED BY <1>3, <1>4, <2>1, OnlyAskedKept
<1>6. OneAsked' /\ Beginning'
      BY <1>2, <1>5 DEF OneAsked, Beginning, rpcVars
<1>7. TypeOK'
      BY DEF Asks, ChannelTypes, TypeOK, BrokerFrames, consumerVars, rpcVars
<1>8. ChannelTypes'
      BY <1>2, <1>7 DEF Asks, ChannelTypes, consumerVars
<1> QED BY <1>2, <1>6, <1>8 DEF Asks, Out, rpcVars

\* A delivery is added for the consumer's present life.
LEMMA BrokerDeliversAsks ==
    ASSUME Asks, NEW tag \in Tags, BrokerDelivers(tag)
    PROVE  /\ Asks' /\ Out' = Out
           /\ toClient' = Append(toClient, Deliver(tag, brokerConsumers[tag]))
           /\ Deliver(tag, brokerConsumers[tag]) \in ClientFrames
           /\ Deliver(tag, brokerConsumers[tag]) \in Delivers(tag)
<1> DEFINE f == Deliver(tag, brokerConsumers[tag])
<1>1. /\ brokerState = "open" /\ brokerConsumers[tag] # 0 /\ deliveries < MaxDeliveries
      /\ deliveries' = deliveries + 1 /\ toClient' = toClient \o <<f>>
      /\ UNCHANGED <<state, rpcVars, consumerVars, brokerState, brokerConsumers, calls>>
      BY DEF BrokerDelivers, Send, Deliver
<1>2. brokerConsumers[tag] \in 1..MaxCalls
      BY <1>1 DEF Asks, ChannelTypes, TypeOK
<1>3. f \in ClientFrames /\ f \in Delivers(tag)
      BY <1>2 DEF ClientFrames, Delivers
<1>4. f.m = "Basic.Deliver"
      BY Fields
<1> HIDE DEF f
<1>5. f \notin Answers
      BY <1>3, <1>4, ClientFrameKinds
<1>6. /\ brokerConsumers' \in [Tags -> 0..MaxCalls] /\ deliveries' \in 0..MaxDeliveries
      /\ brokerState' \in {"open", "closing"}
      /\ UNCHANGED <<state, rpcVars, consumerVars, calls>>
      BY <1>1, BoundsAssumption DEF Asks, ChannelTypes, TypeOK
<1>7. Asks' /\ toClient' = Append(toClient, f) /\ Out' = Out
      BY <1>1, <1>3, <1>5, <1>6, BrokerSendsAsks
<1> QED BY <1>3, <1>7 DEF f

\* A cancellation by the broker forgets its consumer there.
LEMMA BrokerCancelsAsks ==
    ASSUME Asks, NEW tag \in Tags, BrokerCancels(tag)
    PROVE  /\ Asks' /\ Out' = Out
           /\ toClient' = Append(toClient, BrokerCancel(tag)) /\ BrokerCancel(tag) \in ClientFrames
<1> DEFINE f == BrokerCancel(tag)
<1>1. /\ brokerState = "open"
      /\ brokerConsumers' = [brokerConsumers EXCEPT ![tag] = 0] /\ toClient' = toClient \o <<f>>
      /\ UNCHANGED <<state, rpcVars, consumerVars, brokerState, deliveries, calls>>
      BY DEF BrokerCancels, Send, BrokerCancel
<1>2. f \in ClientFrames
      BY DEF ClientFrames
<1>3. f.m = "Basic.Cancel"
      BY Fields DEF BrokerCancel
<1> HIDE DEF f
<1>4. f \notin Answers
      BY <1>2, <1>3, ClientFrameKinds
<1>5. /\ brokerConsumers' \in [Tags -> 0..MaxCalls] /\ deliveries' \in 0..MaxDeliveries
      /\ brokerState' \in {"open", "closing"}
      /\ UNCHANGED <<state, rpcVars, consumerVars, calls>>
      BY <1>1, BoundsAssumption DEF Asks, ChannelTypes, TypeOK
<1>6. Asks' /\ toClient' = Append(toClient, f) /\ Out' = Out
      BY <1>1, <1>2, <1>4, <1>5, BrokerSendsAsks
<1> QED BY <1>2, <1>6 DEF f

\* The broker's Channel.Close is its last frame before CloseOk.
LEMMA BrokerClosesAsks ==
    ASSUME Asks, BrokerCloses
    PROVE  Asks' /\ Out' = Out /\ toClient' = Append(toClient, ChannelClose)
<1>1. /\ brokerState = "open" /\ brokerState' = "closing"
      /\ toClient' = toClient \o <<ChannelClose>>
      /\ brokerConsumers' = [t \in Tags |-> 0]
      /\ UNCHANGED <<state, rpcVars, consumerVars, deliveries, calls>>
      BY DEF BrokerCloses, Send
<1>2. /\ brokerConsumers' \in [Tags -> 0..MaxCalls] /\ deliveries' \in 0..MaxDeliveries
      /\ brokerState' \in {"open", "closing"}
      /\ UNCHANGED <<state, rpcVars, consumerVars, calls>>
      BY <1>1, BoundsAssumption DEF Asks, ChannelTypes, TypeOK
<1> QED BY <1>1, <1>2, ClosingFrames, BrokerSendsAsks

-----------------------------------------------------------------------------
(* The lane of a tag.                                                      *)

OutOf(t) == Consumes(t) \cup Cancels(t)
InOf(t) == Delivers(t) \cup {BrokerCancel(t), CancelOk(t)}

\* The sets of frames that the lane speaks of.
LEMMA LaneSets ==
    ASSUME NEW t \in Tags
    PROVE  /\ Consumes(t) \subseteq OutOf(t) /\ Cancels(t) \subseteq OutOf(t)
           /\ Consumes(t) \cup Cancels(t) \subseteq OutOf(t)
           /\ {Cancel(t, TRUE)} \subseteq OutOf(t) /\ {Cancel(t, FALSE)} \subseteq OutOf(t)
           /\ \A n : Old(Consumes(t), n) \subseteq OutOf(t)
           /\ {BrokerCancel(t)} \subseteq InOf(t) /\ {CancelOk(t)} \subseteq InOf(t)
           /\ Delivers(t) \subseteq InOf(t) /\ Delivers(t) \cup {BrokerCancel(t)} \subseteq InOf(t)
           /\ Delivers(t) \cup {BrokerCancel(t), CancelOk(t)} \subseteq InOf(t)
           /\ \A n : Old(Delivers(t), n) \subseteq InOf(t)
<1>1. \A w \in BOOLEAN : Cancel(t, w) \in Cancels(t)
      BY DEF Cancels
<1>2. Cancel(t, TRUE) \in OutOf(t) /\ Cancel(t, FALSE) \in OutOf(t)
      BY <1>1 DEF OutOf
<1>3. /\ Consumes(t) \subseteq OutOf(t) /\ Cancels(t) \subseteq OutOf(t)
      /\ Consumes(t) \cup Cancels(t) \subseteq OutOf(t)
      /\ {Cancel(t, TRUE)} \subseteq OutOf(t) /\ {Cancel(t, FALSE)} \subseteq OutOf(t)
      BY <1>2 DEF OutOf
<1>4. \A n : Old(Consumes(t), n) \subseteq OutOf(t)
      BY DEF OutOf, Old
<1>5. /\ {BrokerCancel(t)} \subseteq InOf(t) /\ {CancelOk(t)} \subseteq InOf(t)
      /\ Delivers(t) \subseteq InOf(t) /\ Delivers(t) \cup {BrokerCancel(t)} \subseteq InOf(t)
      /\ Delivers(t) \cup {BrokerCancel(t), CancelOk(t)} \subseteq InOf(t)
      BY DEF InOf
<1>6. \A n : Old(Delivers(t), n) \subseteq InOf(t)
      BY DEF InOf, Old
<1> QED BY <1>3, <1>4, <1>5, <1>6

\* A step that does not touch the lane; the broker may forget its consumers when
\* it closes the channel.
LEMMA LaneKept ==
    ASSUME NEW t \in Tags, Lane(t),
           Alike(Out', Out, OutOf(t)), Alike(toClient', toClient, InOf(t)),
           t \in consumers' <=> t \in consumers, t \in cancelled' <=> t \in cancelled,
           life'[t] = life[t], Serving' => Serving,
           \/ brokerConsumers'[t] = brokerConsumers[t] /\ (Serving => Serving')
           \/ brokerConsumers'[t] = 0 /\ ~Serving'
    PROVE  Lane(t)'
<1>1. \A S \in SUBSET OutOf(t), T \in SUBSET OutOf(t) :
          /\ Free(Out', S) <=> Free(Out, S)
          /\ NoneAfter(Out', S, T) <=> NoneAfter(Out, S, T)
      BY DEF Alike
<1>2. \A S \in SUBSET InOf(t), T \in SUBSET InOf(t) :
          /\ Free(toClient', S) <=> Free(toClient, S)
          /\ NoneAfter(toClient', S, T) <=> NoneAfter(toClient, S, T)
      BY DEF Alike
<1>3. /\ Free(Out', Consumes(t)) <=> Free(Out, Consumes(t))
      /\ Free(Out', Cancels(t)) <=> Free(Out, Cancels(t))
      /\ Free(Out', Consumes(t) \cup Cancels(t)) <=> Free(Out, Consumes(t) \cup Cancels(t))
      /\ Free(Out', {Cancel(t, TRUE)}) <=> Free(Out, {Cancel(t, TRUE)})
      /\ Free(Out', {Cancel(t, FALSE)}) <=> Free(Out, {Cancel(t, FALSE)})
      /\ Free(Out', Old(Consumes(t), life[t])) <=> Free(Out, Old(Consumes(t), life[t]))
      BY <1>1, LaneSets
<1>4. /\ NoneAfter(Out', Consumes(t), Consumes(t)) <=> NoneAfter(Out, Consumes(t), Consumes(t))
      /\ NoneAfter(Out', Cancels(t), Consumes(t) \cup Cancels(t)) <=>
             NoneAfter(Out, Cancels(t), Consumes(t) \cup Cancels(t))
      BY <1>1, LaneSets
<1>5. /\ Free(toClient', {BrokerCancel(t)}) <=> Free(toClient, {BrokerCancel(t)})
      /\ Free(toClient', {CancelOk(t)}) <=> Free(toClient, {CancelOk(t)})
      /\ Free(toClient', Delivers(t) \cup {BrokerCancel(t)}) <=>
             Free(toClient, Delivers(t) \cup {BrokerCancel(t)})
      /\ Free(toClient', Old(Delivers(t), life[t])) <=> Free(toClient, Old(Delivers(t), life[t]))
      BY <1>2, LaneSets
<1>6. /\ NoneAfter(toClient', {BrokerCancel(t)}, Delivers(t) \cup {BrokerCancel(t)}) <=>
             NoneAfter(toClient, {BrokerCancel(t)}, Delivers(t) \cup {BrokerCancel(t)})
      /\ NoneAfter(toClient', {CancelOk(t)}, Delivers(t) \cup {BrokerCancel(t), CancelOk(t)}) <=>
             NoneAfter(toClient, {CancelOk(t)}, Delivers(t) \cup {BrokerCancel(t), CancelOk(t)})
      BY <1>2, LaneSets
<1>7. InOrder(t)'
      BY <1>3, <1>4, <1>5, <1>6 DEF Lane, InOrder
<1>8. ClientSide(t)'
      BY <1>3, <1>5 DEF Lane, ClientSide
<1>9. BrokerSide(t)'
      BY <1>3, <1>5 DEF Lane, BrokerSide
<1> QED BY <1>7, <1>8, <1>9 DEF Lane

\* What a Basic.Consume and a Basic.Cancel are not.
LEMMA ConsumeFrame ==
    ASSUME NEW t \in Tags, NEW f \in Consumes(t)
    PROVE  /\ f \notin Cancels(t) /\ f # Cancel(t, TRUE) /\ f # Cancel(t, FALSE)
           /\ \A n : f \in Old(Consumes(t), n) <=> f.life # n
           /\ f.m = "Basic.Consume" /\ f.tag = t
<1>1. f.m = "Basic.Consume" /\ f.tag = t
      BY Fields DEF Consumes
<1>2. \A g \in Cancels(t) : g.m = "Basic.Cancel"
      BY Fields DEF Cancels
<1>3. Cancel(t, TRUE) \in Cancels(t) /\ Cancel(t, FALSE) \in Cancels(t)
  <2>1. \A w \in BOOLEAN : Cancel(t, w) \in Cancels(t)
        BY DEF Cancels
  <2> QED BY <2>1
<1>4. \A n : f \in Old(Consumes(t), n) <=> f.life # n
      BY DEF Old
<1> QED BY <1>1, <1>2, <1>3, <1>4

\* A Cancel is no Consume, and awaits a reply unless it has nowait.
LEMMA CancelFrame ==
    ASSUME NEW t \in Tags, NEW f \in Cancels(t)
    PROVE  /\ f \notin Consumes(t) /\ \A n : f \notin Old(Consumes(t), n)
           /\ \/ f = Cancel(t, TRUE) /\ f # Cancel(t, FALSE) /\ f \notin Asking
              \/ f = Cancel(t, FALSE) /\ f # Cancel(t, TRUE) /\ f \in Asking
           /\ f.m = "Basic.Cancel" /\ f.tag = t
<1>1. f.m = "Basic.Cancel" /\ f.tag = t
      BY Fields DEF Cancels
<1>2. \A g \in Consumes(t) : g.m = "Basic.Consume"
      BY Fields DEF Consumes
<1>3. \A n : Old(Consumes(t), n) \subseteq Consumes(t)
      BY DEF Old
<1>4. PICK w \in BOOLEAN : f = Cancel(t, w)
      BY DEF Cancels
<1>5. f \in Asking <=> w = FALSE
      BY <1>4, AskingKinds
<1>6. \A v \in BOOLEAN : Cancel(t, v) \in Asking <=> v = FALSE
      BY AskingKinds
<1>7. Cancel(t, TRUE) \notin Asking /\ Cancel(t, FALSE) \in Asking
      BY <1>6
<1> QED BY <1>1, <1>2, <1>3, <1>4, <1>5, <1>7

\* What the frames to the client are not.
LEMMA DeliverFrame ==
    ASSUME NEW t \in Tags, NEW g \in Delivers(t)
    PROVE  /\ g # BrokerCancel(t) /\ g # CancelOk(t)
           /\ \A n : g \in Old(Delivers(t), n) <=> g.life # n
           /\ g.m = "Basic.Deliver" /\ g.tag = t
<1>1. g.m = "Basic.Deliver" /\ g.tag = t
      BY Fields DEF Delivers
<1>2. BrokerCancel(t).m = "Basic.Cancel" /\ CancelOk(t).m = "Basic.CancelOk"
      BY Fields DEF BrokerCancel, CancelOk
<1>3. \A n : g \in Old(Delivers(t), n) <=> g.life # n
      BY DEF Old
<1> QED BY <1>1, <1>2, <1>3

\* The broker's frames about a cancellation are different and no deliveries.
LEMMA CancellingFrames ==
    ASSUME NEW t \in Tags
    PROVE  /\ BrokerCancel(t) # CancelOk(t)
           /\ BrokerCancel(t) \notin Delivers(t) /\ CancelOk(t) \notin Delivers(t)
           /\ \A n : BrokerCancel(t) \notin Old(Delivers(t), n) /\ CancelOk(t) \notin Old(Delivers(t), n)
<1>1. BrokerCancel(t).m = "Basic.Cancel" /\ CancelOk(t).m = "Basic.CancelOk"
      BY Fields DEF BrokerCancel, CancelOk
<1>2. \A g \in Delivers(t) : g.m = "Basic.Deliver"
      BY Fields DEF Delivers
<1>3. \A n : Old(Delivers(t), n) \subseteq Delivers(t)
      BY DEF Old
<1> QED BY <1>1, <1>2, <1>3

\* The parts of the sets in a lane.
LEMMA LaneParts ==
    ASSUME NEW t, NEW q
    PROVE  /\ Free(q, Consumes(t) \cup Cancels(t)) <=> Free(q, Consumes(t)) /\ Free(q, Cancels(t))
           /\ Free(q, Delivers(t) \cup {BrokerCancel(t)}) <=>
                  Free(q, Delivers(t)) /\ Free(q, {BrokerCancel(t)})
           /\ Free(q, Delivers(t) \cup {BrokerCancel(t), CancelOk(t)}) <=>
                  Free(q, Delivers(t)) /\ Free(q, {BrokerCancel(t)}) /\ Free(q, {CancelOk(t)})
           /\ \A n : Free(q, Consumes(t)) => Free(q, Old(Consumes(t), n))
           /\ \A n : Free(q, Delivers(t)) => Free(q, Old(Delivers(t), n))
           /\ Free(q, Cancels(t)) <=> Free(q, {Cancel(t, TRUE)}) /\ Free(q, {Cancel(t, FALSE)})
<1>1. Free(q, Consumes(t) \cup Cancels(t)) <=> Free(q, Consumes(t)) /\ Free(q, Cancels(t))
      BY DEF Free
<1>2. Free(q, Delivers(t) \cup {BrokerCancel(t)}) <=>
          Free(q, Delivers(t)) /\ Free(q, {BrokerCancel(t)})
      BY DEF Free
<1>3. Free(q, Delivers(t) \cup {BrokerCancel(t), CancelOk(t)}) <=>
          Free(q, Delivers(t)) /\ Free(q, {BrokerCancel(t)}) /\ Free(q, {CancelOk(t)})
      BY DEF Free
<1>4. \A n : Free(q, Consumes(t)) => Free(q, Old(Consumes(t), n))
      BY DEF Free, Old
<1>5. \A n : Free(q, Delivers(t)) => Free(q, Old(Delivers(t), n))
      BY DEF Free, Old
<1>6. Cancels(t) = {Cancel(t, TRUE), Cancel(t, FALSE)}
      BY DEF Cancels
<1>7. Free(q, Cancels(t)) <=> Free(q, {Cancel(t, TRUE)}) /\ Free(q, {Cancel(t, FALSE)})
      BY <1>6 DEF Free
<1> QED BY <1>1, <1>2, <1>3, <1>4, <1>5, <1>7

\* basic_consume: the tag was free on both sides.
LEMMA ConsumeLane ==
    ASSUME NEW t \in Tags, Lane(t), life[t] \in Nat, Out \in Seq(BrokerFrames),
           t \notin consumers \cup cancelled, t \in consumers', t \notin cancelled',
           NEW f \in Consumes(t), f \in BrokerFrames, Out' = Append(Out, f), f.life = life'[t],
           toClient' = toClient, brokerConsumers'[t] = brokerConsumers[t], Serving' = Serving
    PROVE  Lane(t)'
<1>1. \A S, T : /\ Free(Out', S) <=> Free(Out, S) /\ f \notin S
                /\ NoneAfter(Out', S, T) <=> NoneAfter(Out, S, T) /\ (Free(Out, S) \/ f \notin T)
      BY AppendFrame
<1>2. /\ f \notin Cancels(t) /\ f # Cancel(t, TRUE)
      /\ \A n : f \in Old(Consumes(t), n) <=> f.life # n
      BY ConsumeFrame
<1>3. /\ Free(Out, Consumes(t)) /\ Free(Out, Cancels(t)) /\ Free(toClient, {CancelOk(t)})
      /\ Free(toClient, Delivers(t)) /\ Free(toClient, {BrokerCancel(t)})
      /\ brokerConsumers[t] = 0
      BY LaneParts DEF Lane, ClientSide, BrokerSide
<1>4. /\ Free(Out, Old(Consumes(t), life'[t])) /\ Free(toClient, Old(Delivers(t), life'[t]))
      /\ Free(Out, {Cancel(t, TRUE)})
      BY <1>3, LaneParts
<1>5. InOrder(t)'
  <2>1. NoneAfter(Out', Consumes(t), Consumes(t))
        BY <1>1, <1>3 DEF Lane, InOrder
  <2>2. NoneAfter(Out', Cancels(t), Consumes(t) \cup Cancels(t))
        BY <1>1, <1>3 DEF Lane, InOrder
  <2>3. Free(Out', Old(Consumes(t), life'[t]))
        BY <1>1, <1>2, <1>4
  <2> QED BY <1>4, <2>1, <2>2, <2>3 DEF Lane, InOrder
<1>6. Free(Out', Cancels(t)) /\ Free(Out', {Cancel(t, TRUE)}) /\ ~Free(Out', Consumes(t))
      BY <1>1, <1>2, <1>3, <1>4
<1>7. ClientSide(t)'
      BY <1>3, <1>6 DEF ClientSide
<1>8. BrokerSide(t)'
      BY <1>3, <1>6 DEF BrokerSide
<1> QED BY <1>5, <1>7, <1>8 DEF Lane

\* basic_cancel.
LEMMA CancelLane ==
    ASSUME NEW t \in Tags, Lane(t), Out \in Seq(BrokerFrames),
           t \in consumers, t \notin cancelled, t \in cancelled',
           NEW nowait \in BOOLEAN, NEW f \in Cancels(t), f \in BrokerFrames, f = Cancel(t, nowait),
           t \in consumers' <=> nowait = FALSE, Out' = Append(Out, f), life'[t] = life[t],
           toClient' = toClient, brokerConsumers'[t] = brokerConsumers[t], Serving' = Serving
    PROVE  Lane(t)'
<1>1. \A S, T : /\ Free(Out', S) <=> Free(Out, S) /\ f \notin S
                /\ NoneAfter(Out', S, T) <=> NoneAfter(Out, S, T) /\ (Free(Out, S) \/ f \notin T)
      BY AppendFrame
<1>2. f \notin Consumes(t) /\ \A n : f \notin Old(Consumes(t), n)
      BY CancelFrame
<1>3. /\ nowait = FALSE => f # Cancel(t, TRUE)
      /\ nowait = TRUE => f # Cancel(t, FALSE)
      BY CancelFrame
<1>4. /\ Free(Out, Cancels(t)) /\ Free(toClient, {CancelOk(t)})
      /\ Free(Out, {Cancel(t, TRUE)}) /\ Free(Out, {Cancel(t, FALSE)})
      BY LaneParts DEF Lane, ClientSide
<1>5. /\ Free(Out', Consumes(t)) <=> Free(Out, Consumes(t))
      /\ ~Free(Out', Cancels(t))
      /\ nowait = FALSE => Free(Out', {Cancel(t, TRUE)})
      /\ nowait = TRUE => Free(Out', {Cancel(t, FALSE)})
      BY <1>1, <1>2, <1>3, <1>4
<1>6. InOrder(t)'
  <2>1. NoneAfter(Out', Consumes(t), Consumes(t))
        BY <1>1, <1>2 DEF Lane, InOrder
  <2>2. NoneAfter(Out', Cancels(t), Consumes(t) \cup Cancels(t))
        BY <1>1, <1>4 DEF Lane, InOrder
  <2>3. Free(Out', Old(Consumes(t), life[t]))
        BY <1>1, <1>2 DEF Lane, InOrder
  <2> QED BY <2>1, <2>2, <2>3 DEF Lane, InOrder
<1>7. ClientSide(t)'
      BY <1>4, <1>5 DEF ClientSide
<1>8. BrokerSide(t)'
      BY <1>4, <1>5 DEF Lane, BrokerSide
<1> QED BY <1>6, <1>7, <1>8 DEF Lane

\* CancelOk: nothing about the tag is on the way in either direction.
LEMMA CancelOkLane ==
    ASSUME NEW t \in Tags, Lane(t), toClient \in Seq(ClientFrames), toClient # <<>>,
           Head(toClient) = CancelOk(t), toClient' = Tail(toClient), Out' = Out,
           t \notin consumers' \cup cancelled', life'[t] = life[t],
           brokerConsumers'[t] = brokerConsumers[t], Serving' = Serving
    PROVE  Lane(t)'
<1>1. \A S, T : /\ Free(toClient, S) <=> Head(toClient) \notin S /\ Free(toClient', S)
                /\ NoneAfter(toClient, S, T) <=>
                       NoneAfter(toClient', S, T) /\ (Head(toClient) \notin S \/ Free(toClient', T))
      BY HeadFrame
<1>2. ~Free(toClient, {CancelOk(t)})
      BY <1>1
<1>3. /\ brokerConsumers[t] = 0 /\ Free(Out, Consumes(t)) /\ Free(Out, Cancels(t))
      /\ Free(Out, {Cancel(t, FALSE)})
      BY <1>2, LaneParts DEF Lane, BrokerSide
<1>4. Free(toClient', Delivers(t) \cup {BrokerCancel(t), CancelOk(t)})
      BY <1>1 DEF Lane, InOrder
<1>5. /\ Free(toClient', Delivers(t)) /\ Free(toClient', {BrokerCancel(t)})
      /\ Free(toClient', {CancelOk(t)}) /\ Free(toClient', Delivers(t) \cup {BrokerCancel(t)})
      BY <1>4, LaneParts
<1>6. InOrder(t)'
  <2>1. /\ NoneAfter(toClient', {BrokerCancel(t)}, Delivers(t) \cup {BrokerCancel(t)})
        /\ NoneAfter(toClient', {CancelOk(t)}, Delivers(t) \cup {BrokerCancel(t), CancelOk(t)})
        /\ Free(toClient', Old(Delivers(t), life[t]))
        BY <1>1 DEF Lane, InOrder
  <2> QED BY <2>1 DEF Lane, InOrder
<1>7. ClientSide(t)'
      BY <1>3, <1>5 DEF ClientSide
<1>8. BrokerSide(t)'
      BY <1>3, <1>5 DEF BrokerSide
<1> QED BY <1>6, <1>7, <1>8 DEF Lane

\* A Cancel of the broker's.
LEMMA BrokerCancelLane ==
    ASSUME NEW t \in Tags, Lane(t), toClient \in Seq(ClientFrames), toClient # <<>>,
           Head(toClient) = BrokerCancel(t), toClient' = Tail(toClient), Out' = Out,
           IF t \in cancelled THEN (t \in consumers' <=> t \in consumers) /\ t \in cancelled'
           ELSE t \notin consumers' \cup cancelled',
           life'[t] = life[t], brokerConsumers'[t] = brokerConsumers[t], Serving' = Serving
    PROVE  Lane(t)'
<1>1. \A S, T : /\ Free(toClient, S) <=> Head(toClient) \notin S /\ Free(toClient', S)
                /\ NoneAfter(toClient, S, T) <=>
                       NoneAfter(toClient', S, T) /\ (Head(toClient) \notin S \/ Free(toClient', T))
      BY HeadFrame
<1>2. ~Free(toClient, {BrokerCancel(t)})
      BY <1>1
<1>3. brokerConsumers[t] = 0 /\ Free(Out, Consumes(t))
      BY <1>2 DEF Lane, BrokerSide
<1>4. Free(toClient', Delivers(t) \cup {BrokerCancel(t)})
      BY <1>1 DEF Lane, InOrder
<1>5. Free(toClient', {BrokerCancel(t)})
      BY <1>4, LaneParts
<1>6. Free(toClient', {CancelOk(t)}) <=> Free(toClient, {CancelOk(t)})
      BY <1>1, CancellingFrames
<1>7. Free(Out, Cancels(t)) => Free(Out, {Cancel(t, FALSE)})
      BY LaneParts
<1>8. InOrder(t)'
  <2>1. /\ NoneAfter(toClient', {BrokerCancel(t)}, Delivers(t) \cup {BrokerCancel(t)})
        /\ NoneAfter(toClient', {CancelOk(t)}, Delivers(t) \cup {BrokerCancel(t), CancelOk(t)})
        /\ Free(toClient', Old(Delivers(t), life[t]))
        BY <1>1 DEF Lane, InOrder
  <2> QED BY <2>1 DEF Lane, InOrder
<1>9. ClientSide(t)'
      BY <1>3, <1>4, <1>6, <1>7 DEF Lane, ClientSide
<1>10. BrokerSide(t)'
       BY <1>3, <1>5, <1>6 DEF Lane, BrokerSide
<1> QED BY <1>8, <1>9, <1>10 DEF Lane

\* A delivery is taken.
LEMMA DeliverLane ==
    ASSUME NEW t \in Tags, Lane(t), toClient \in Seq(ClientFrames), toClient # <<>>,
           Head(toClient) \in Delivers(t), toClient' = Tail(toClient), Alike(Out', Out, OutOf(t)),
           t \in consumers' <=> t \in consumers, t \in cancelled' <=> t \in cancelled,
           life'[t] = life[t], brokerConsumers'[t] = brokerConsumers[t], Serving' = Serving
    PROVE  Lane(t)'
<1>1. \A S, T : /\ Free(toClient, S) <=> Head(toClient) \notin S /\ Free(toClient', S)
                /\ NoneAfter(toClient, S, T) <=>
                       NoneAfter(toClient', S, T) /\ (Head(toClient) \notin S \/ Free(toClient', T))
      BY HeadFrame
<1>2. Head(toClient) # BrokerCancel(t) /\ Head(toClient) # CancelOk(t)
      BY DeliverFrame
<1>3. \A S \in SUBSET OutOf(t), T \in SUBSET OutOf(t) :
          /\ Free(Out', S) <=> Free(Out, S)
          /\ NoneAfter(Out', S, T) <=> NoneAfter(Out, S, T)
      BY DEF Alike
<1>4. /\ Free(Out', Consumes(t)) <=> Free(Out, Consumes(t))
      /\ Free(Out', Cancels(t)) <=> Free(Out, Cancels(t))
      /\ Free(Out', Consumes(t) \cup Cancels(t)) <=> Free(Out, Consumes(t) \cup Cancels(t))
      /\ Free(Out', {Cancel(t, TRUE)}) <=> Free(Out, {Cancel(t, TRUE)})
      /\ Free(Out', {Cancel(t, FALSE)}) <=> Free(Out, {Cancel(t, FALSE)})
      /\ Free(Out', Old(Consumes(t), life[t])) <=> Free(Out, Old(Consumes(t), life[t]))
      BY <1>3, LaneSets
<1>5. /\ NoneAfter(Out', Consumes(t), Consumes(t)) <=> NoneAfter(Out, Consumes(t), Consumes(t))
      /\ NoneAfter(Out', Cancels(t), Consumes(t) \cup Cancels(t)) <=>
             NoneAfter(Out, Cancels(t), Consumes(t) \cup Cancels(t))
      BY <1>3, LaneSets
<1>6. /\ Free(toClient', {BrokerCancel(t)}) <=> Free(toClient, {BrokerCancel(t)})
      /\ Free(toClient', {CancelOk(t)}) <=> Free(toClient, {CancelOk(t)})
      /\ Free(toClient, Delivers(t) \cup {BrokerCancel(t)}) =>
             Free(toClient', Delivers(t) \cup {BrokerCancel(t)})
      BY <1>1, <1>2
<1>7. InOrder(t)'
  <2>1. /\ NoneAfter(toClient', {BrokerCancel(t)}, Delivers(t) \cup {BrokerCancel(t)})
        /\ NoneAfter(toClient', {CancelOk(t)}, Delivers(t) \cup {BrokerCancel(t), CancelOk(t)})
        /\ Free(toClient', Old(Delivers(t), life[t]))
        BY <1>1 DEF Lane, InOrder
  <2> QED BY <1>4, <1>5, <2>1 DEF Lane, InOrder
<1>8. ClientSide(t)'
      BY <1>4, <1>6 DEF Lane, ClientSide
<1>9. BrokerSide(t)'
      BY <1>4, <1>6 DEF Lane, BrokerSide
<1> QED BY <1>7, <1>8, <1>9 DEF Lane

\* The broker reads the Basic.Consume of the tag and serves its consumer.
LEMMA ServeLane ==
    ASSUME NEW t \in Tags, Lane(t), life[t] \in Nat, Out \in Seq(BrokerFrames), Out # <<>>,
           Head(Out) \in Consumes(t), Head(Out).life # 0, Out' = Tail(Out),
           Alike(toClient', toClient, InOf(t)),
           t \in consumers' <=> t \in consumers, t \in cancelled' <=> t \in cancelled,
           life'[t] = life[t], brokerConsumers'[t] = Head(Out).life, Serving' = Serving, Serving
    PROVE  Lane(t)'
<1>1. \A S, T : /\ Free(Out, S) <=> Head(Out) \notin S /\ Free(Out', S)
                /\ NoneAfter(Out, S, T) <=>
                       NoneAfter(Out', S, T) /\ (Head(Out) \notin S \/ Free(Out', T))
      BY HeadFrame
<1>2. /\ Head(Out) \notin Cancels(t)
      /\ Head(Out) # Cancel(t, TRUE) /\ Head(Out) # Cancel(t, FALSE)
      /\ \A n : Head(Out) \in Old(Consumes(t), n) <=> Head(Out).life # n
      BY ConsumeFrame
<1>3. \A S \in SUBSET InOf(t), T \in SUBSET InOf(t) :
          /\ Free(toClient', S) <=> Free(toClient, S)
          /\ NoneAfter(toClient', S, T) <=> NoneAfter(toClient, S, T)
      BY DEF Alike
<1>4. /\ Free(toClient', {BrokerCancel(t)}) <=> Free(toClient, {BrokerCancel(t)})
      /\ Free(toClient', {CancelOk(t)}) <=> Free(toClient, {CancelOk(t)})
      /\ Free(toClient', Delivers(t) \cup {BrokerCancel(t)}) <=>
             Free(toClient, Delivers(t) \cup {BrokerCancel(t)})
      /\ Free(toClient', Old(Delivers(t), life[t])) <=> Free(toClient, Old(Delivers(t), life[t]))
      BY <1>3, LaneSets
<1>5. /\ NoneAfter(toClient', {BrokerCancel(t)}, Delivers(t) \cup {BrokerCancel(t)}) <=>
             NoneAfter(toClient, {BrokerCancel(t)}, Delivers(t) \cup {BrokerCancel(t)})
      /\ NoneAfter(toClient', {CancelOk(t)}, Delivers(t) \cup {BrokerCancel(t), CancelOk(t)}) <=>
             NoneAfter(toClient, {CancelOk(t)}, Delivers(t) \cup {BrokerCancel(t), CancelOk(t)})
      BY <1>3, LaneSets
<1>6. Head(Out).life = life[t]
      BY <1>1, <1>2 DEF Lane, InOrder
<1>7. ~Free(Out, Consumes(t)) /\ Free(Out', Consumes(t))
      BY <1>1 DEF Lane, InOrder
<1>8. /\ t \in consumers \cup cancelled
      /\ Free(toClient, {BrokerCancel(t)}) /\ Free(toClient, {CancelOk(t)})
      /\ t \in cancelled => ~Free(Out, Cancels(t))
  <2>1. ~Free(Out, Consumes(t) \cup Cancels(t))
        BY <1>7, LaneParts
  <2> QED BY <1>7, <2>1 DEF Lane, ClientSide, BrokerSide
<1>9. /\ Free(Out', Cancels(t)) <=> Free(Out, Cancels(t))
      /\ Free(Out', {Cancel(t, TRUE)}) <=> Free(Out, {Cancel(t, TRUE)})
      /\ Free(Out', {Cancel(t, FALSE)}) <=> Free(Out, {Cancel(t, FALSE)})
      BY <1>1, <1>2
<1>10. InOrder(t)'
  <2>1. /\ NoneAfter(Out', Consumes(t), Consumes(t))
        /\ NoneAfter(Out', Cancels(t), Consumes(t) \cup Cancels(t))
        /\ Free(Out', Old(Consumes(t), life[t]))
        BY <1>1 DEF Lane, InOrder
  <2> QED BY <1>4, <1>5, <2>1 DEF Lane, InOrder
<1>11. ClientSide(t)'
       BY <1>4, <1>7, <1>8, <1>9 DEF Lane, ClientSide
<1>12. BrokerSide(t)'
       BY <1>4, <1>6, <1>7, <1>8, <1>9 DEF BrokerSide
<1> QED BY <1>10, <1>11, <1>12 DEF Lane

\* The broker reads the Basic.Cancel of the tag, and answers it if it is awaited.
LEMMA UnserveLane ==
    ASSUME NEW t \in Tags, Lane(t), Out \in Seq(BrokerFrames), Out # <<>>,
           Head(Out) \in Cancels(t), Out' = Tail(Out), toClient \in Seq(ClientFrames),
           CancelOk(t) \in ClientFrames,
           IF Head(Out) \in Asking THEN toClient' = Append(toClient, CancelOk(t))
           ELSE toClient' = toClient,
           t \in consumers' <=> t \in consumers, t \in cancelled' <=> t \in cancelled,
           life'[t] = life[t], brokerConsumers'[t] = 0, Serving' = Serving
    PROVE  Lane(t)'
<1>1. \A S, T : /\ Free(Out, S) <=> Head(Out) \notin S /\ Free(Out', S)
                /\ NoneAfter(Out, S, T) <=>
                       NoneAfter(Out', S, T) /\ (Head(Out) \notin S \/ Free(Out', T))
      BY HeadFrame
<1>2. \A S, T :
         LET in == Append(toClient, CancelOk(t)) IN
         /\ Free(in, S) <=> Free(toClient, S) /\ CancelOk(t) \notin S
         /\ NoneAfter(in, S, T) <=>
                NoneAfter(toClient, S, T) /\ (Free(toClient, S) \/ CancelOk(t) \notin T)
      BY AppendFrame
<1>3. ~Free(Out, Cancels(t)) /\ Free(Out', Consumes(t) \cup Cancels(t))
      BY <1>1 DEF Lane, InOrder
<1>4. /\ Free(Out', Consumes(t)) /\ Free(Out', Cancels(t))
      /\ Free(Out', {Cancel(t, TRUE)}) /\ Free(Out', {Cancel(t, FALSE)})
      /\ Free(Out', Old(Consumes(t), life[t]))
      BY <1>3, LaneParts
<1>5. t \in cancelled /\ Free(toClient, {CancelOk(t)})
  <2>1. ~Free(Out, Consumes(t) \cup Cancels(t))
        BY <1>3, LaneParts
  <2> QED BY <1>3, <2>1 DEF Lane, ClientSide, BrokerSide
<1>6. /\ Head(Out) \in Asking <=> t \in consumers
      /\ Head(Out) \in Asking => ~Free(toClient', {CancelOk(t)})
      /\ Head(Out) \notin Asking => Free(toClient', {CancelOk(t)})
  <2>1. \/ Head(Out) = Cancel(t, TRUE) /\ Head(Out) \notin Asking
        \/ Head(Out) = Cancel(t, FALSE) /\ Head(Out) \in Asking
        BY CancelFrame
  <2>2. Head(Out) = Cancel(t, TRUE) => t \notin consumers
        BY <1>1 DEF Lane, ClientSide
  <2>3. Head(Out) = Cancel(t, FALSE) => t \in consumers
        BY <1>1 DEF Lane, ClientSide
  <2>4. ~Free(Append(toClient, CancelOk(t)), {CancelOk(t)})
        BY <1>2
  <2> QED BY <1>5, <2>1, <2>2, <2>3, <2>4
<1>7. InOrder(t)'
  <2>1. /\ NoneAfter(toClient', {BrokerCancel(t)}, Delivers(t) \cup {BrokerCancel(t)})
        /\ NoneAfter(toClient', {CancelOk(t)}, Delivers(t) \cup {BrokerCancel(t), CancelOk(t)})
        /\ Free(toClient', Old(Delivers(t), life[t]))
    <3>1. CASE toClient' = toClient
          BY <3>1 DEF Lane, InOrder
    <3>2. CASE toClient' = Append(toClient, CancelOk(t))
      <4>1. /\ CancelOk(t) \notin Delivers(t) \cup {BrokerCancel(t)}
            /\ CancelOk(t) \notin Old(Delivers(t), life[t])
            BY CancellingFrames
      <4> QED BY <1>2, <1>5, <3>2, <4>1 DEF Lane, InOrder
    <3> QED BY <3>1, <3>2
  <2>2. /\ NoneAfter(Out', Consumes(t), Consumes(t))
        /\ NoneAfter(Out', Cancels(t), Consumes(t) \cup Cancels(t))
        BY <1>1 DEF Lane, InOrder
  <2> QED BY <1>4, <2>1, <2>2 DEF InOrder
<1>8. ClientSide(t)'
      BY <1>4, <1>5, <1>6 DEF ClientSide
<1>9. BrokerSide(t)'
      BY <1>3, <1>4, <1>5 DEF BrokerSide
<1> QED BY <1>7, <1>8, <1>9 DEF Lane

\* The broker, having closed the channel, drops a frame of the tag.
LEMMA DropLane ==
    ASSUME NEW t \in Tags, Lane(t), Out \in Seq(BrokerFrames), Out # <<>>, Out' = Tail(Out),
           Alike(toClient', toClient, InOf(t)),
           t \in consumers' <=> t \in consumers, t \in cancelled' <=> t \in cancelled,
           life'[t] = life[t], brokerConsumers'[t] = brokerConsumers[t], ~Serving, ~Serving'
    PROVE  Lane(t)'
<1>1. \A S, T : /\ Free(Out, S) <=> Head(Out) \notin S /\ Free(Out', S)
                /\ NoneAfter(Out, S, T) <=>
                       NoneAfter(Out', S, T) /\ (Head(Out) \notin S \/ Free(Out', T))
      BY HeadFrame
<1>2. \A S \in SUBSET InOf(t), T \in SUBSET InOf(t) :
          /\ Free(toClient', S) <=> Free(toClient, S)
          /\ NoneAfter(toClient', S, T) <=> NoneAfter(toClient, S, T)
      BY DEF Alike
<1>3. /\ Free(toClient', {BrokerCancel(t)}) <=> Free(toClient, {BrokerCancel(t)})
      /\ Free(toClient', {CancelOk(t)}) <=> Free(toClient, {CancelOk(t)})
      /\ Free(toClient', Delivers(t) \cup {BrokerCancel(t)}) <=>
             Free(toClient, Delivers(t) \cup {BrokerCancel(t)})
      /\ Free(toClient', Old(Delivers(t), life[t])) <=> Free(toClient, Old(Delivers(t), life[t]))
      BY <1>2, LaneSets
<1>4. /\ NoneAfter(toClient', {BrokerCancel(t)}, Delivers(t) \cup {BrokerCancel(t)}) <=>
             NoneAfter(toClient, {BrokerCancel(t)}, Delivers(t) \cup {BrokerCancel(t)})
      /\ NoneAfter(toClient', {CancelOk(t)}, Delivers(t) \cup {BrokerCancel(t), CancelOk(t)}) <=>
             NoneAfter(toClient, {CancelOk(t)}, Delivers(t) \cup {BrokerCancel(t), CancelOk(t)})
      BY <1>2, LaneSets
<1>5. brokerConsumers[t] = 0
      BY DEF Lane, BrokerSide
<1>6. InOrder(t)'
  <2>1. /\ NoneAfter(Out', Consumes(t), Consumes(t))
        /\ NoneAfter(Out', Cancels(t), Consumes(t) \cup Cancels(t))
        /\ Free(Out', Old(Consumes(t), life[t]))
        BY <1>1 DEF Lane, InOrder
  <2> QED BY <1>3, <1>4, <2>1 DEF Lane, InOrder
<1>7. \A S : Free(Out, S) => Free(Out', S)
      BY <1>1
<1>8. t \in cancelled /\ Free(Out', Cancels(t)) => Free(Out', Consumes(t))
  <2>1. CASE Free(Out, Cancels(t))
        BY <1>7, <2>1 DEF Lane, ClientSide
  <2>2. CASE ~Free(Out, Cancels(t))
    <3>1. Free(Out', Cancels(t)) => Head(Out) \in Cancels(t)
          BY <1>1, <2>2
    <3>2. Head(Out) \in Cancels(t) => Free(Out', Consumes(t) \cup Cancels(t))
          BY <1>1 DEF Lane, InOrder
    <3> QED BY <3>1, <3>2, LaneParts
  <2> QED BY <2>1, <2>2
<1>9. ClientSide(t)'
      BY <1>3, <1>7, <1>8 DEF Lane, ClientSide
<1>10. BrokerSide(t)'
       BY <1>3, <1>5, <1>7 DEF Lane, BrokerSide
<1> QED BY <1>6, <1>9, <1>10 DEF Lane

\* The broker delivers to the consumer of the tag.
LEMMA DeliveringLane ==
    ASSUME NEW t \in Tags, Lane(t), brokerConsumers[t] # 0, toClient \in Seq(ClientFrames),
           NEW g \in Delivers(t), g \in ClientFrames, g.life = brokerConsumers[t],
           toClient' = Append(toClient, g), Out' = Out,
           t \in consumers' <=> t \in consumers, t \in cancelled' <=> t \in cancelled,
           life'[t] = life[t], brokerConsumers'[t] = brokerConsumers[t], Serving' = Serving
    PROVE  Lane(t)'
<1>1. \A S, T : /\ Free(toClient', S) <=> Free(toClient, S) /\ g \notin S
                /\ NoneAfter(toClient', S, T) <=>
                       NoneAfter(toClient, S, T) /\ (Free(toClient, S) \/ g \notin T)
      BY AppendFrame
<1>2. /\ g # BrokerCancel(t) /\ g # CancelOk(t)
      /\ \A n : g \in Old(Delivers(t), n) <=> g.life # n
      BY DeliverFrame
<1>3. /\ brokerConsumers[t] = life[t] /\ t \in consumers \cup cancelled
      /\ Free(toClient, {BrokerCancel(t)}) /\ Free(toClient, {CancelOk(t)})
      BY DEF Lane, BrokerSide
<1>4. /\ Free(toClient', {BrokerCancel(t)}) <=> Free(toClient, {BrokerCancel(t)})
      /\ Free(toClient', {CancelOk(t)}) <=> Free(toClient, {CancelOk(t)})
      /\ Free(toClient', Old(Delivers(t), life[t])) <=> Free(toClient, Old(Delivers(t), life[t]))
      BY <1>1, <1>2, <1>3
<1>5. InOrder(t)'
  <2>1. /\ NoneAfter(toClient', {BrokerCancel(t)}, Delivers(t) \cup {BrokerCancel(t)})
        /\ NoneAfter(toClient', {CancelOk(t)}, Delivers(t) \cup {BrokerCancel(t), CancelOk(t)})
        BY <1>1, <1>3 DEF Lane, InOrder
  <2> QED BY <1>4, <2>1 DEF Lane, InOrder
<1>6. ClientSide(t)'
      BY <1>3, <1>4 DEF Lane, ClientSide
<1>7. BrokerSide(t)'
      BY <1>4 DEF Lane, BrokerSide
<1> QED BY <1>5, <1>6, <1>7 DEF Lane

\* The broker cancels the consumer of the tag.
LEMMA CancellingLane ==
    ASSUME NEW t \in Tags, Lane(t), brokerConsumers[t] # 0, toClient \in Seq(ClientFrames),
           BrokerCancel(t) \in ClientFrames, toClient' = Append(toClient, BrokerCancel(t)),
           Out' = Out, t \in consumers' <=> t \in consumers, t \in cancelled' <=> t \in cancelled,
           life'[t] = life[t], brokerConsumers'[t] = 0, Serving' = Serving
    PROVE  Lane(t)'
<1>1. \A S, T : /\ Free(toClient', S) <=> Free(toClient, S) /\ BrokerCancel(t) \notin S
                /\ NoneAfter(toClient', S, T) <=>
                       /\ NoneAfter(toClient, S, T)
                       /\ Free(toClient, S) \/ BrokerCancel(t) \notin T
      BY AppendFrame
<1>2. BrokerCancel(t) # CancelOk(t) /\ \A n : BrokerCancel(t) \notin Old(Delivers(t), n)
      BY CancellingFrames
<1>3. /\ t \in consumers \cup cancelled /\ Free(Out, Consumes(t))
      /\ Free(toClient, {BrokerCancel(t)}) /\ Free(toClient, {CancelOk(t)})
      BY DEF Lane, BrokerSide
<1>4. /\ ~Free(toClient', {BrokerCancel(t)})
      /\ Free(toClient', {CancelOk(t)})
      /\ Free(toClient', Old(Delivers(t), life[t])) <=> Free(toClient, Old(Delivers(t), life[t]))
      BY <1>1, <1>2, <1>3
<1>5. InOrder(t)'
  <2>1. /\ NoneAfter(toClient', {BrokerCancel(t)}, Delivers(t) \cup {BrokerCancel(t)})
        /\ NoneAfter(toClient', {CancelOk(t)}, Delivers(t) \cup {BrokerCancel(t), CancelOk(t)})
        BY <1>1, <1>3 DEF Lane, InOrder
  <2> QED BY <1>4, <2>1 DEF Lane, InOrder
<1>6. ClientSide(t)'
  <2>1. t \in consumers \cap cancelled /\ Serving => ~Free(Out, Cancels(t))
        BY DEF Lane, BrokerSide
  <2> QED BY <1>3, <1>4, <2>1 DEF Lane, ClientSide
<1>7. BrokerSide(t)'
      BY <1>3, <1>4 DEF BrokerSide
<1> QED BY <1>5, <1>6, <1>7 DEF Lane

-----------------------------------------------------------------------------
(* Every step keeps the lanes.                                             *)

\* The frames of one tag are no other tag's, and most frames are of no tag.
LEMMA OutOfTag ==
    ASSUME NEW t \in Tags, NEW f \in BrokerFrames
    PROVE  /\ f \in OutOf(t) <=> f.m \in {"Basic.Consume", "Basic.Cancel"} /\ f.tag = t
           /\ Alike(Out, Out, OutOf(t))
<1>1. /\ f \in Consumes(t) <=> f.m = "Basic.Consume" /\ f.tag = t
      /\ f \in Cancels(t) <=> f.m = "Basic.Cancel" /\ f.tag = t
      BY BrokerFrameKinds
<1>2. Alike(Out, Out, OutOf(t))
      BY DEF Alike
<1> QED BY <1>1, <1>2 DEF OutOf

\* What of the client's stream is about a tag.
LEMMA InOfTag ==
    ASSUME NEW t \in Tags, NEW g \in ClientFrames
    PROVE  /\ g \in InOf(t) <=> /\ g.m \in {"Basic.Deliver", "Basic.Cancel", "Basic.CancelOk"}
                                /\ g.tag = t
           /\ Alike(toClient, toClient, InOf(t))
<1>1. /\ g \in Delivers(t) <=> g.m = "Basic.Deliver" /\ g.tag = t
      /\ g = BrokerCancel(t) <=> g.m = "Basic.Cancel" /\ g.tag = t
      /\ g = CancelOk(t) <=> g.m = "Basic.CancelOk" /\ g.tag = t
      BY ClientFrameKinds
<1>2. Alike(toClient, toClient, InOf(t))
      BY DEF Alike
<1> QED BY <1>1, <1>2 DEF InOf

\* A frame appended or taken, and the tags it is not of.
LEMMA OutAppended ==
    ASSUME NEW t \in Tags, NEW f \in BrokerFrames, Out \in Seq(BrokerFrames), f \notin OutOf(t),
           Out' = Append(Out, f)
    PROVE  Alike(Out', Out, OutOf(t))
BY AlikeFrame

\* A tag sees no change when a frame about another is taken,
LEMMA InTaken ==
    ASSUME NEW t \in Tags, toClient \in Seq(ClientFrames), toClient # <<>>,
           Head(toClient) \notin InOf(t), toClient' = Tail(toClient)
    PROVE  Alike(toClient', toClient, InOf(t))
BY AlikeTail

\* or added.
LEMMA InAppended ==
    ASSUME NEW t \in Tags, NEW g \in ClientFrames, toClient \in Seq(ClientFrames),
           g \notin InOf(t), toClient' = Append(toClient, g)
    PROVE  Alike(toClient', toClient, InOf(t))
BY AlikeFrame

\* One lemma for each action: what it does to the lanes of all tags.
LEMMA BasicConsumeLanes ==
    ASSUME ChannelInv, NEW tag \in Tags, NEW auto \in BOOLEAN, BasicConsume(tag, auto)
    PROVE  Lanes'
<1> DEFINE f == Consume(tag, life'[tag], auto)
<1>1. /\ Asks /\ Lanes /\ Out \in Seq(BrokerFrames)
      BY Typed DEF ChannelInv, Asks
<1>2. /\ life' = [life EXCEPT ![tag] = @ + 1] /\ life'[tag] = life[tag] + 1
      /\ life' \in [Tags -> Nat] /\ life \in [Tags -> Nat]
      /\ f \in Consumes(tag) /\ f \in BrokerFrames /\ Out' = Append(Out, f)
      BY <1>1, BasicConsumeAsks
<1>3. /\ state = "OPEN" /\ state' = state /\ tag \notin consumers \cup cancelled
      /\ consumers' = consumers \cup {tag} /\ cancelled' = cancelled
      /\ toClient' = toClient /\ brokerState' = brokerState /\ brokerConsumers' = brokerConsumers
      BY DEF BasicConsume, Call, brokerVars
<1>4. f.life = life'[tag] /\ f.m = "Basic.Consume" /\ f.tag = tag
      BY Fields
<1> HIDE DEF f
<1>5. Serving' = Serving
      BY <1>3 DEF Serving
<1>6. ASSUME NEW t \in Tags
      PROVE  Lane(t)'
  <2>1. Lane(t)
        BY <1>1, <1>3 DEF Lanes
  <2>2. CASE t = tag
    <3>1. /\ Lane(tag) /\ life[tag] \in Nat /\ tag \in consumers' /\ tag \notin cancelled'
          /\ brokerConsumers'[tag] = brokerConsumers[tag]
          BY <1>2, <1>3, <2>1, <2>2
    <3>2. Lane(tag)'
          BY <1>1, <1>2, <1>3, <1>4, <1>5, <3>1, ConsumeLane
    <3> QED BY <2>2, <3>2
  <2>3. CASE t # tag
    <3>1. f \notin OutOf(t)
          BY <1>2, <1>4, <2>3, OutOfTag
    <3>2. Alike(Out', Out, OutOf(t))
          BY <1>1, <1>2, <3>1, OutAppended
    <3>3. Alike(toClient', toClient, InOf(t))
          BY <1>3 DEF Alike
    <3>4. /\ t \in consumers' <=> t \in consumers
          /\ t \in cancelled' <=> t \in cancelled
          /\ life'[t] = life[t] /\ brokerConsumers'[t] = brokerConsumers[t]
          BY <1>2, <1>3, <2>3
    <3> QED BY <1>5, <2>1, <3>2, <3>3, <3>4, LaneKept
  <2> QED BY <2>2, <2>3
<1> QED BY <1>6 DEF Lanes

\* basic_cancel moves its tag on, whether or not it waits for a reply.
LEMMA BasicCancelLanes ==
    ASSUME ChannelInv, NEW tag \in Tags, NEW nowait \in BOOLEAN, BasicCancel(tag, nowait)
    PROVE  Lanes'
<1> DEFINE f == Cancel(tag, nowait)
<1>1. /\ Asks /\ Lanes /\ Out \in Seq(BrokerFrames)
      BY Typed DEF ChannelInv, Asks
<1>2. f \in Cancels(tag) /\ f \in BrokerFrames /\ Out' = Append(Out, f)
      BY <1>1, BasicCancelAsks
<1>3. /\ state = "OPEN" /\ state' = state /\ tag \notin cancelled /\ tag \in consumers
      /\ consumers' = (IF nowait THEN consumers \ {tag} ELSE consumers)
      /\ cancelled' = cancelled \cup {tag} /\ life' = life
      /\ toClient' = toClient /\ brokerState' = brokerState /\ brokerConsumers' = brokerConsumers
      BY DEF BasicCancel, Call, brokerVars
<1>4. f.m = "Basic.Cancel" /\ f.tag = tag
      BY Fields
<1>5. Serving' = Serving
      BY <1>3 DEF Serving
<1>6. ASSUME NEW t \in Tags
      PROVE  Lane(t)'
  <2>1. Lane(t)
        BY <1>1, <1>3 DEF Lanes
  <2>2. CASE t = tag
    <3>1. /\ Lane(tag) /\ tag \in cancelled' /\ life'[tag] = life[tag]
          /\ brokerConsumers'[tag] = brokerConsumers[tag]
          BY <1>3, <2>1, <2>2
    <3>2. tag \in consumers' <=> nowait = FALSE
          BY <1>3
    <3>3. f = Cancel(tag, nowait)
          OBVIOUS
    <3> HIDE DEF f
    <3>4. Lane(tag)'
          BY <1>1, <1>2, <1>3, <1>5, <3>1, <3>2, <3>3, CancelLane
    <3> QED BY <2>2, <3>4
  <2>3. CASE t # tag
    <3> HIDE DEF f
    <3>1. f \notin OutOf(t)
          BY <1>2, <1>4, <2>3, OutOfTag
    <3>2. Alike(Out', Out, OutOf(t))
          BY <1>1, <1>2, <3>1, OutAppended
    <3>3. Alike(toClient', toClient, InOf(t))
          BY <1>3 DEF Alike
    <3>4. /\ t \in consumers' <=> t \in consumers
          /\ t \in cancelled' <=> t \in cancelled
          /\ life'[t] = life[t] /\ brokerConsumers'[t] = brokerConsumers[t]
          BY <1>3, <2>3
    <3> QED BY <1>5, <2>1, <3>2, <3>3, <3>4, LaneKept
  <2> QED BY <2>2, <2>3
<1> QED BY <1>6 DEF Lanes

\* The methods that are requests only are about no tag.
LEMMA RpcOnlyLanes ==
    ASSUME ChannelInv, NEW family \in Families, NEW nowait \in BOOLEAN,
           RpcOnly(Other(family, nowait))
    PROVE  Lanes'
<1> DEFINE f == Other(family, nowait)
<1>1. /\ Asks /\ Lanes /\ Out \in Seq(BrokerFrames)
      BY Typed DEF ChannelInv, Asks
<1>2. f \in BrokerFrames /\ f.m \in Families /\ Out' = Append(Out, f)
      BY <1>1, RpcOnlyAsks
<1>3. /\ state = "OPEN" /\ state' = state /\ consumers' = consumers /\ cancelled' = cancelled
      /\ life' = life /\ toClient' = toClient
      /\ brokerState' = brokerState /\ brokerConsumers' = brokerConsumers
      BY DEF RpcOnly, Call, brokerVars, consumerVars
<1> HIDE DEF f
<1>4. Serving' = Serving
      BY <1>3 DEF Serving
<1>5. ASSUME NEW t \in Tags
      PROVE  Lane(t)'
  <2>1. Lane(t)
        BY <1>1, <1>3 DEF Lanes
  <2>2. f \notin OutOf(t)
        BY <1>2, OutOfTag DEF Families
  <2>3. Alike(Out', Out, OutOf(t))
        BY <1>1, <1>2, <2>2, OutAppended
  <2>4. Alike(toClient', toClient, InOf(t))
        BY <1>3 DEF Alike
  <2> QED BY <1>3, <1>4, <2>1, <2>3, <2>4, LaneKept
<1> QED BY <1>5 DEF Lanes

\* A reply or another frame that is about no consumer.
LEMMA OtherReplyLanes ==
    ASSUME ChannelInv, NEW m \in {"Channel.OpenOk", "Basic.ConsumeOk", "Ok"}, Receive(m),
           Out' = Out, UNCHANGED <<consumers, cancelled>>,
           state' \in {"OPENING", "OPEN"} => state \in {"OPENING", "OPEN"}
    PROVE  Lanes'
<1>1. /\ toClient # <<>> /\ toClient \in Seq(ClientFrames) /\ toClient' = Tail(toClient)
      /\ Head(toClient) \in ClientFrames /\ Head(toClient).m = m
      /\ UNCHANGED <<brokerState, brokerConsumers, life>>
      BY Received, Typed DEF ChannelInv, Asks
<1>2. Serving' = Serving
      BY <1>1 DEF Serving
<1>3. ASSUME NEW t \in Tags, state' \in {"OPENING", "OPEN"}
      PROVE  Lane(t)'
  <2>1. Lane(t)
        BY <1>3 DEF ChannelInv, Lanes
  <2>2. Head(toClient) \notin InOf(t)
        BY <1>1, InOfTag
  <2>3. Alike(toClient', toClient, InOf(t))
        BY <1>1, <2>2, InTaken
  <2>4. Alike(Out', Out, OutOf(t))
        BY DEF Alike
  <2> QED BY <1>1, <1>2, <2>1, <2>3, <2>4, LaneKept
<1> QED BY <1>3 DEF Lanes

\* With CancelOk nothing of its tag is on the way in either direction.
LEMMA OnCancelOkLanes ==
    ASSUME ChannelInv, OnCancelOk
    PROVE  Lanes'
<1>1. /\ Asks /\ Lanes /\ toClient \in Seq(ClientFrames)
      BY Typed DEF ChannelInv, Asks
<1>2. Out' = Out
      BY <1>1, OnCancelOkAsks
<1>3. PICK tag \in Tags : tag = Head(toClient).tag /\ Head(toClient) = CancelOk(tag)
      BY <1>1, OnCancelOkAsks
<1>4. /\ Receive("Basic.CancelOk") /\ state' = state
      /\ consumers' = consumers \ {tag} /\ cancelled' = cancelled \ {tag}
      BY <1>3 DEF OnCancelOk, CleanupConsumerRef
<1>5. /\ toClient # <<>> /\ toClient' = Tail(toClient)
      /\ Head(toClient) \in ClientFrames /\ Head(toClient).m = "Basic.CancelOk"
      /\ UNCHANGED <<brokerState, brokerConsumers, life>>
      BY <1>1, <1>4, Received
<1>6. Serving' = Serving
      BY <1>5 DEF Serving
<1>7. ASSUME NEW t \in Tags, state' \in {"OPENING", "OPEN"}
      PROVE  Lane(t)'
  <2>1. Lane(t)
        BY <1>1, <1>4, <1>7 DEF Lanes
  <2>2. CASE t = tag
    <3>1. /\ Lane(tag) /\ tag \notin consumers' \cup cancelled' /\ life'[tag] = life[tag]
          /\ brokerConsumers'[tag] = brokerConsumers[tag]
          BY <1>4, <1>5, <2>1, <2>2
    <3>2. Lane(tag)'
          BY <1>1, <1>2, <1>5, <1>3, <1>6, <3>1, CancelOkLane
    <3> QED BY <2>2, <3>2
  <2>3. CASE t # tag
    <3>1. Head(toClient) \notin InOf(t)
          BY <1>5, <1>3, <2>3, InOfTag
    <3>2. Alike(toClient', toClient, InOf(t))
          BY <1>1, <1>5, <3>1, InTaken
    <3>3. Alike(Out', Out, OutOf(t))
          BY <1>2 DEF Alike
    <3>4. /\ t \in consumers' <=> t \in consumers
          /\ t \in cancelled' <=> t \in cancelled
          /\ life'[t] = life[t] /\ brokerConsumers'[t] = brokerConsumers[t]
          BY <1>4, <1>5, <2>3
    <3> QED BY <1>6, <2>1, <3>2, <3>3, <3>4, LaneKept
  <2> QED BY <2>2, <2>3
<1> QED BY <1>7 DEF Lanes

\* After the broker's cancellation no delivery comes for its tag.
LEMMA OnCancelLanes ==
    ASSUME ChannelInv, OnCancel
    PROVE  Lanes'
<1>1. /\ Asks /\ Lanes /\ toClient \in Seq(ClientFrames)
      BY Typed DEF ChannelInv, Asks
<1>2. Out' = Out
      BY <1>1, OnCancelAsks
<1>3. PICK tag \in Tags : tag = Head(toClient).tag /\ Head(toClient) = BrokerCancel(tag)
      BY <1>1, OnCancelAsks
<1>4. /\ Receive("Basic.Cancel") /\ state' = state
      /\ IF tag \in cancelled THEN consumers' = consumers /\ cancelled' = cancelled
         ELSE consumers' = consumers \ {tag} /\ cancelled' = cancelled \ {tag}
      BY <1>3 DEF OnCancel, CleanupConsumerRef
<1>5. /\ toClient # <<>> /\ toClient' = Tail(toClient)
      /\ Head(toClient) \in ClientFrames /\ Head(toClient).m = "Basic.Cancel"
      /\ UNCHANGED <<brokerState, brokerConsumers, life>>
      BY <1>1, <1>4, Received
<1>6. Serving' = Serving
      BY <1>5 DEF Serving
<1>7. ASSUME NEW t \in Tags, state' \in {"OPENING", "OPEN"}
      PROVE  Lane(t)'
  <2>1. Lane(t)
        BY <1>1, <1>4, <1>7 DEF Lanes
  <2>2. CASE t = tag
    <3>1. /\ Lane(tag) /\ life'[tag] = life[tag]
          /\ IF tag \in cancelled THEN (tag \in consumers' <=> tag \in consumers) /\ tag \in cancelled'
             ELSE tag \notin consumers' \cup cancelled'
          /\ brokerConsumers'[tag] = brokerConsumers[tag]
          BY <1>4, <1>5, <2>1, <2>2
    <3>2. Lane(tag)'
          BY <1>1, <1>2, <1>5, <1>3, <1>6, <3>1, BrokerCancelLane
    <3> QED BY <2>2, <3>2
  <2>3. CASE t # tag
    <3>1. Head(toClient) \notin InOf(t)
          BY <1>5, <1>3, <2>3, InOfTag
    <3>2. Alike(toClient', toClient, InOf(t))
          BY <1>1, <1>5, <3>1, InTaken
    <3>3. Alike(Out', Out, OutOf(t))
          BY <1>2 DEF Alike
    <3>4. /\ t \in consumers' <=> t \in consumers
          /\ t \in cancelled' <=> t \in cancelled
          /\ life'[t] = life[t] /\ brokerConsumers'[t] = brokerConsumers[t]
          BY <1>4, <1>5, <2>3
    <3> QED BY <1>6, <2>1, <3>2, <3>3, <3>4, LaneKept
  <2> QED BY <2>2, <2>3
<1> QED BY <1>7 DEF Lanes

\* A delivery is taken; a reject for its tag changes nothing of the lane.
LEMMA OnDeliverLanes ==
    ASSUME ChannelInv, OnDeliver
    PROVE  Lanes'
<1>1. /\ Asks /\ Lanes /\ toClient \in Seq(ClientFrames)
      BY Typed DEF ChannelInv, Asks
<1>2. PICK tag \in Tags : tag = Head(toClient).tag /\ Head(toClient) \in Delivers(tag)
      BY <1>1, OnDeliverAsks
<1>3. \A t \in Tags : Alike(Out', Out, Consumes(t) \cup Cancels(t))
      BY <1>1, OnDeliverAsks
<1>4. Receive("Basic.Deliver") /\ UNCHANGED <<state, consumers, cancelled>>
      BY DEF OnDeliver
<1>5. /\ toClient # <<>> /\ toClient' = Tail(toClient)
      /\ Head(toClient) \in ClientFrames /\ Head(toClient).m = "Basic.Deliver"
      /\ UNCHANGED <<brokerState, brokerConsumers, life>>
      BY <1>1, <1>4, Received
<1>6. Serving' = Serving
      BY <1>5 DEF Serving
<1>7. ASSUME NEW t \in Tags, state' \in {"OPENING", "OPEN"}
      PROVE  Lane(t)'
  <2>1. Lane(t)
        BY <1>1, <1>4, <1>7 DEF Lanes
  <2>2. Alike(Out', Out, OutOf(t))
        BY <1>3 DEF OutOf
  <2>3. CASE t = tag
    <3>1. Head(toClient) \in Delivers(t)
          BY <1>2, <2>3
    <3> QED BY <1>1, <1>4, <1>5, <1>6, <2>1, <2>2, <3>1, DeliverLane
  <2>4. CASE t # tag
    <3>1. Head(toClient) \notin InOf(t)
          BY <1>5, <1>2, <2>4, InOfTag
    <3>2. Alike(toClient', toClient, InOf(t))
          BY <1>1, <1>5, <3>1, InTaken
    <3> QED BY <1>4, <1>5, <1>6, <2>1, <2>2, <3>2, LaneKept
  <2> QED BY <2>3, <2>4
<1> QED BY <1>7 DEF Lanes

\* What the broker reads, for one tag.
LEMMA BrokerReadsLane ==
    ASSUME ChannelInv, BrokerReads, state \in {"OPENING", "OPEN"}, NEW t \in Tags
    PROVE  Lane(t)'
<1>1. PICK f \in BrokerFrames : f = Head(toBroker)
      BY BrokerReadsFrame DEF ChannelInv, Asks
<1>2. /\ Out # <<>> /\ Head(Out) = f /\ Out' = Tail(Out) /\ BrokerRead(f)
      /\ UNCHANGED <<state, consumers, cancelled, life>>
      BY <1>1, BrokerReadsFrame DEF ChannelInv, Asks, consumerVars
<1>3. /\ Asks /\ Lane(t) /\ Out \in Seq(BrokerFrames) /\ toClient \in Seq(ClientFrames)
      BY Typed DEF ChannelInv, Asks, Lanes
<1>4. /\ t \in consumers' <=> t \in consumers
      /\ t \in cancelled' <=> t \in cancelled
      /\ life'[t] = life[t] /\ life[t] \in Nat
      /\ brokerConsumers \in [Tags -> Nat]
  <2>1. life[t] \in 0..MaxCalls /\ brokerConsumers \in [Tags -> 0..MaxCalls] /\ MaxCalls \in Nat
        BY <1>3, BoundsAssumption DEF Asks, ChannelTypes, TypeOK
  <2> QED BY <1>2, <2>1
<1>5. Alike(toClient, toClient, InOf(t))
      BY DEF Alike
<1>6. f \in Asking => Reply(f) \in ClientFrames
      BY Replies
<1>7. f \in Asking /\ f \notin Cancels(t) => Reply(f) \notin InOf(t)
  <2>1. f \in Asking => Reply(f) \in Answers
        BY Replies
  <2>2. f \in Asking /\ Reply(f) \in InOf(t) => Reply(f).m = "Basic.CancelOk" /\ Reply(f).tag = t
        BY <1>6, <2>1, InOfTag, ClientFrameKinds
  <2>3. f \in Asking /\ Reply(f).m = "Basic.CancelOk" /\ Reply(f).tag = t => f = Cancel(t, FALSE)
        BY Replies
  <2>4. Cancel(t, FALSE) \in Cancels(t)
        BY DEF Cancels
  <2> QED BY <2>2, <2>3, <2>4
<1>8. f \in Asking /\ f \notin Cancels(t) /\ toClient' = Append(toClient, Reply(f)) =>
          Alike(toClient', toClient, InOf(t))
      BY <1>3, <1>6, <1>7, InAppended
<1>9. f \notin OutOf(t) => Alike(Out', Out, OutOf(t))
      BY <1>2, <1>3, AlikeTail
<1>10. Open \in Asking /\ ChannelClose \in Asking
       BY AskingKinds
<1>11. /\ f \in OutOf(t) <=> f.m \in {"Basic.Consume", "Basic.Cancel"} /\ f.tag = t
       /\ f \in Consumes(t) <=> f.m = "Basic.Consume" /\ f.tag = t
       /\ f \in Cancels(t) <=> f.m = "Basic.Cancel" /\ f.tag = t
       BY OutOfTag, BrokerFrameKinds
<1>12. f = Open \/ f = ChannelClose => f \notin OutOf(t) /\ f \notin Cancels(t)
       BY <1>11, Fields
<1>13. CASE brokerState = "none" /\ brokerState' = "open" /\ f = Open
  <2>1. toClient' = Append(toClient, Reply(f)) /\ brokerConsumers' = brokerConsumers
        BY <1>2, <1>13 DEF BrokerRead
  <2>2. Alike(toClient', toClient, InOf(t)) /\ Alike(Out', Out, OutOf(t))
        BY <1>8, <1>9, <1>10, <1>12, <1>13, <2>1
  <2>3. Serving /\ Serving'
        BY <1>13 DEF Serving
  <2> QED BY <1>3, <1>4, <2>1, <2>2, <2>3, LaneKept
<1>14. CASE brokerState = "open" /\ brokerState' = "closed" /\ f = ChannelClose
  <2>1. toClient' = Append(toClient, Reply(f)) /\ brokerConsumers' = [u \in Tags |-> 0]
        BY <1>2, <1>14 DEF BrokerRead
  <2>2. Alike(toClient', toClient, InOf(t)) /\ Alike(Out', Out, OutOf(t))
        BY <1>8, <1>9, <1>10, <1>12, <1>14, <2>1
  <2>3. Serving /\ ~Serving'
        BY <1>14 DEF Serving
  <2>4. brokerConsumers'[t] = 0
        BY <2>1
  <2> QED BY <1>3, <1>4, <2>2, <2>3, <2>4, LaneKept
<1>15. CASE brokerState = "open" /\ brokerState' = "open" /\ f.m # "Channel.Close"
  <2>1. /\ IF f \in Asking THEN toClient' = Append(toClient, Reply(f)) ELSE toClient' = toClient
        /\ brokerConsumers' = CASE f.m = "Basic.Consume" -> [brokerConsumers EXCEPT ![f.tag] = f.life]
                                [] f.m = "Basic.Cancel" -> [brokerConsumers EXCEPT ![f.tag] = 0]
                                [] OTHER -> brokerConsumers
        BY <1>2, <1>15, Fields DEF BrokerRead
  <2>2. Serving /\ Serving' /\ Serving' = Serving
        BY <1>15 DEF Serving
  <2>3. CASE f \in Consumes(t)
    <3>1. f.m = "Basic.Consume" /\ f.tag = t /\ f \notin Cancels(t) /\ f.life \in 1..MaxCalls
          BY <2>3, ConsumeFrame, BrokerFrameKinds
    <3>2. Alike(toClient', toClient, InOf(t))
          BY <1>5, <1>8, <2>1, <3>1
    <3>3. brokerConsumers'[t] = f.life /\ f.life # 0
          BY <1>4, <2>1, <3>1
    <3> QED BY <1>2, <1>3, <1>4, <2>2, <2>3, <3>2, <3>3, ServeLane
  <2>4. CASE f \in Cancels(t)
    <3>1. f.m = "Basic.Cancel" /\ f.tag = t
          BY <2>4, CancelFrame
    <3>2. f \in Asking => Reply(f) = CancelOk(t)
          BY <3>1, Replies
    <3>3. CancelOk(t) \in ClientFrames
          BY DEF ClientFrames, Answers
    <3>4. brokerConsumers'[t] = 0
          BY <1>4, <2>1, <3>1
    <3>5. IF f \in Asking THEN toClient' = Append(toClient, CancelOk(t)) ELSE toClient' = toClient
          BY <2>1, <3>2
    <3> QED BY <1>2, <1>3, <1>4, <2>2, <2>4, <3>3, <3>4, <3>5, UnserveLane
  <2>5. CASE f \notin Consumes(t) /\ f \notin Cancels(t)
    <3>1. Alike(toClient', toClient, InOf(t))
          BY <1>5, <1>8, <2>1, <2>5
    <3>2. Alike(Out', Out, OutOf(t))
          BY <1>9, <2>5 DEF OutOf
    <3>3. brokerConsumers'[t] = brokerConsumers[t]
      <4>1. CASE f.m = "Basic.Consume"
            BY <1>4, <1>11, <2>1, <2>5, <4>1
      <4>2. CASE f.m = "Basic.Cancel"
            BY <1>4, <1>11, <2>1, <2>5, <4>2
      <4>3. CASE f.m # "Basic.Consume" /\ f.m # "Basic.Cancel"
            BY <2>1, <4>3
      <4> QED BY <4>1, <4>2, <4>3
    <3> QED BY <1>3, <1>4, <2>2, <3>1, <3>2, <3>3, LaneKept
  <2> QED BY <2>3, <2>4, <2>5
<1>16. CASE brokerState \in {"closing", "closed"} /\ brokerState' \in {"closing", "closed"}
  <2>1. /\ IF f = ChannelClose THEN toClient' = Append(toClient, Reply(f)) ELSE toClient' = toClient
        /\ brokerConsumers' = brokerConsumers
        BY <1>2, <1>16 DEF BrokerRead
  <2>2. Alike(toClient', toClient, InOf(t))
        BY <1>5, <1>8, <1>10, <1>12, <2>1
  <2>3. ~Serving /\ ~Serving'
        BY <1>16 DEF Serving
  <2> QED BY <1>2, <1>3, <1>4, <2>1, <2>2, <2>3, DropLane
<1> QED BY <1>2, <1>13, <1>14, <1>15, <1>16 DEF BrokerRead

\* What the broker reads is of one tag's lane, or of none.
LEMMA BrokerReadsLanes ==
    ASSUME ChannelInv, BrokerReads
    PROVE  Lanes'
<1>1. state' = state
      BY DEF BrokerReads
<1> QED BY <1>1, BrokerReadsLane DEF Lanes

\* A delivery is of the life that both ends know.
LEMMA BrokerDeliversLanes ==
    ASSUME ChannelInv, NEW tag \in Tags, BrokerDelivers(tag)
    PROVE  Lanes'
<1>1. /\ Asks /\ Lanes /\ toClient \in Seq(ClientFrames)
      BY Typed DEF ChannelInv, Asks
<1>2. PICK g \in ClientFrames : g = Deliver(tag, brokerConsumers[tag])
      BY <1>1, BrokerDeliversAsks
<1>3. Out' = Out /\ toClient' = Append(toClient, g) /\ g \in Delivers(tag)
      BY <1>1, <1>2, BrokerDeliversAsks
<1>4. /\ brokerConsumers[tag] # 0
      /\ UNCHANGED <<state, consumers, cancelled, life, brokerState, brokerConsumers>>
      BY DEF BrokerDelivers, consumerVars
<1>5. g.m = "Basic.Deliver" /\ g.tag = tag /\ g.life = brokerConsumers[tag]
      BY <1>2, Fields
<1>6. Serving' = Serving
      BY <1>4 DEF Serving
<1>7. ASSUME NEW t \in Tags, state' \in {"OPENING", "OPEN"}
      PROVE  Lane(t)'
  <2>1. Lane(t)
        BY <1>1, <1>4, <1>7 DEF Lanes
  <2>2. CASE t = tag
    <3>1. g \in Delivers(t) /\ brokerConsumers[t] # 0 /\ g.life = brokerConsumers[t]
          BY <1>3, <1>4, <1>5, <2>2
    <3> QED BY <1>1, <1>3, <1>4, <1>6, <2>1, <3>1, DeliveringLane
  <2>3. CASE t # tag
    <3>1. g \notin InOf(t)
          BY <1>5, <2>3, InOfTag
    <3>2. Alike(toClient', toClient, InOf(t))
          BY <1>1, <1>3, <3>1, InAppended
    <3>3. Alike(Out', Out, OutOf(t))
          BY <1>3 DEF Alike
    <3> QED BY <1>4, <1>6, <2>1, <3>2, <3>3, LaneKept
  <2> QED BY <2>2, <2>3
<1> QED BY <1>7 DEF Lanes

\* A cancellation by the broker comes after the deliveries of that life.
LEMMA BrokerCancelsLanes ==
    ASSUME ChannelInv, NEW tag \in Tags, BrokerCancels(tag)
    PROVE  Lanes'
<1>1. /\ Asks /\ Lanes /\ toClient \in Seq(ClientFrames)
      BY Typed DEF ChannelInv, Asks
<1>2. /\ Out' = Out /\ toClient' = Append(toClient, BrokerCancel(tag))
      /\ BrokerCancel(tag) \in ClientFrames
      BY <1>1, BrokerCancelsAsks
<1>3. /\ brokerConsumers[tag] # 0 /\ brokerConsumers' = [brokerConsumers EXCEPT ![tag] = 0]
      /\ UNCHANGED <<state, consumers, cancelled, life, brokerState>>
      BY DEF BrokerCancels, consumerVars
<1>4. BrokerCancel(tag).m = "Basic.Cancel" /\ BrokerCancel(tag).tag = tag
      BY Fields DEF BrokerCancel
<1>5. Serving' = Serving
      BY <1>3 DEF Serving
<1>6. brokerConsumers \in [Tags -> 0..MaxCalls]
      BY <1>1 DEF Asks, ChannelTypes, TypeOK
<1>7. ASSUME NEW t \in Tags, state' \in {"OPENING", "OPEN"}
      PROVE  Lane(t)'
  <2>1. Lane(t)
        BY <1>1, <1>3, <1>7 DEF Lanes
  <2>2. CASE t = tag
    <3>1. /\ brokerConsumers[t] # 0 /\ brokerConsumers'[t] = 0
          /\ toClient' = Append(toClient, BrokerCancel(t)) /\ BrokerCancel(t) \in ClientFrames
          BY <1>2, <1>3, <1>6, <2>2
    <3> QED BY <1>1, <1>2, <1>3, <1>5, <2>1, <3>1, CancellingLane
  <2>3. CASE t # tag
    <3>1. BrokerCancel(tag) \notin InOf(t)
          BY <1>2, <1>4, <2>3, InOfTag
    <3>2. Alike(toClient', toClient, InOf(t))
          BY <1>1, <1>2, <3>1, InAppended
    <3>3. Alike(Out', Out, OutOf(t))
          BY <1>2 DEF Alike
    <3>4. brokerConsumers'[t] = brokerConsumers[t]
          BY <1>3, <1>6, <2>3
    <3> QED BY <1>3, <1>5, <2>1, <3>2, <3>3, <3>4, LaneKept
  <2> QED BY <2>2, <2>3
<1> QED BY <1>7 DEF Lanes

\* A closed channel has no consumers at the broker.
LEMMA BrokerClosesLanes ==
    ASSUME ChannelInv, BrokerCloses
    PROVE  Lanes'
<1>1. /\ Asks /\ Lanes /\ toClient \in Seq(ClientFrames)
      BY Typed DEF ChannelInv, Asks
<1>2. Out' = Out /\ toClient' = Append(toClient, ChannelClose)
      BY <1>1, BrokerClosesAsks
<1>3. /\ brokerState = "open" /\ brokerState' = "closing" /\ brokerConsumers' = [t \in Tags |-> 0]
      /\ UNCHANGED <<state, consumers, cancelled, life>>
      BY DEF BrokerCloses, consumerVars
<1>4. Serving /\ ~Serving'
      BY <1>3 DEF Serving
<1>5. ASSUME NEW t \in Tags, state' \in {"OPENING", "OPEN"}
      PROVE  Lane(t)'
  <2>1. Lane(t)
        BY <1>1, <1>3, <1>5 DEF Lanes
  <2>2. ChannelClose \in ClientFrames /\ ChannelClose \notin InOf(t)
        BY Fields, ClosingFrames, InOfTag
  <2>3. Alike(toClient', toClient, InOf(t))
        BY <1>1, <1>2, <2>2, InAppended
  <2>4. Alike(Out', Out, OutOf(t))
        BY <1>2 DEF Alike
  <2>5. brokerConsumers'[t] = 0
        BY <1>3
  <2> QED BY <1>3, <1>4, <2>1, <2>3, <2>4, <2>5, LaneKept
<1> QED BY <1>5 DEF Lanes

-----------------------------------------------------------------------------
(* The theorems.                                                           *)

\* A channel that waits for its OpenOk has one request and no consumer.
LEMMA ChannelStart == Init => ChannelInv
<1> SUFFICES ASSUME Init
             PROVE  ChannelInv
    OBVIOUS
<1>1. Open \in Requests /\ Open \in Asking /\ Open \in BrokerFrames
      BY AskingKinds DEF Requests, BrokerFrames
<1>2. /\ state = "OPENING" /\ blocking = Open /\ blocked = <<>>
      /\ consumers = {} /\ cancelled = {} /\ life = [t \in Tags |-> 0]
      /\ toBroker = <<Open>> /\ toClient = <<>>
      /\ brokerState = "none" /\ brokerConsumers = [t \in Tags |-> 0]
      /\ calls = 0
      BY DEF Init
<1>3. TypeOK
  <2>1. <<Open>> \in Seq(BrokerFrames) /\ <<>> \in Seq(Requests)
        BY <1>1, OneFrame
  <2> QED BY <1>1, <2>1, BoundsAssumption DEF Init, TypeOK, BrokerFrames
<1>4. ChannelTypes
      BY <1>2, <1>3, EmptySeq, FS_EmptySet DEF ChannelTypes
<1>5. Beginning
      BY <1>2 DEF Beginning
<1>6. \A S, T : /\ Free(<<Open>>, S) <=> Open \notin S
                /\ NoneAfter(<<Open>>, S, T) /\ Free(<<>>, S) /\ NoneAfter(<<>>, S, T)
      BY <1>1, OneFrame
<1>7. OneAsked
  <2>1. OnlyAsked(Open, <<Open>>, <<>>, brokerState)
        BY <1>1, <1>6 DEF OnlyAsked
  <2> QED BY <1>2, <2>1 DEF OneAsked
<1>8. ASSUME NEW t \in Tags
      PROVE  Lane(t)
  <2>1. Out = <<Open>>
        BY <1>1, <1>2, OneFrame, StreamTypes DEF Out
  <2>2. Open \notin OutOf(t)
        BY <1>1, Fields, OutOfTag
  <2>3. /\ Open \notin Consumes(t) /\ Open \notin Cancels(t)
        /\ Open \notin {Cancel(t, TRUE)} /\ Open \notin {Cancel(t, FALSE)}
        /\ \A n : Open \notin Old(Consumes(t), n)
        BY <2>2, LaneSets
  <2>4. InOrder(t)
        BY <1>2, <1>6, <2>1, <2>3 DEF InOrder
  <2>5. ClientSide(t)
        BY <1>2, <1>6, <2>1, <2>3 DEF ClientSide
  <2>6. BrokerSide(t)
        BY <1>2, <1>6, <2>1, <2>3 DEF BrokerSide
  <2> QED BY <2>4, <2>5, <2>6 DEF Lane
<1> QED BY <1>4, <1>5, <1>7, <1>8 DEF ChannelInv, Lanes

\* A step of the application, of the client or of the broker.
LEMMA ChannelStep == ChannelInv /\ [Next]_vars => ChannelInv'
<1> SUFFICES ASSUME ChannelInv, [Next]_vars
             PROVE  ChannelInv'
    OBVIOUS
<1>1. Asks
      BY DEF ChannelInv, Asks
<1>2. (Asks' /\ Lanes') => ChannelInv'
      BY DEF ChannelInv, Asks
<1>3. ASSUME NEW f \in Families, NEW w \in BOOLEAN, RpcOnly(Other(f, w))
      PROVE  ChannelInv'
      BY <1>1, <1>2, <1>3, RpcOnlyAsks, RpcOnlyLanes
<1>4. CASE QueueUnbind \/ TxMethod \/ BasicQos \/ BasicRecover \/ Flow
  <2>1. RpcOnly(Other("Declaring", FALSE)) \/ RpcOnly(Other("Waiting", FALSE))
        BY <1>4 DEF QueueUnbind, TxMethod, BasicQos, BasicRecover, Flow
  <2>2. "Declaring" \in Families /\ "Waiting" \in Families /\ FALSE \in BOOLEAN
        BY DEF Families
  <2> QED BY <1>3, <2>1, <2>2
<1>5. ASSUME NEW w \in BOOLEAN, ExchangeMethod(w) \/ QueueMethod(w) \/ ConfirmDelivery(w)
      PROVE  ChannelInv'
  <2>1. RpcOnly(Other("Declaring", w)) /\ "Declaring" \in Families
        BY <1>5 DEF ExchangeMethod, QueueMethod, ConfirmDelivery, Families
  <2> QED BY <1>3, <2>1
<1>6. ASSUME NEW tag \in Tags, NEW b \in BOOLEAN, BasicConsume(tag, b) \/ BasicCancel(tag, b)
      PROVE  ChannelInv'
  <2>1. CASE BasicConsume(tag, b)
        BY <1>1, <1>2, <2>1, BasicConsumeAsks, BasicConsumeLanes
  <2>2. CASE BasicCancel(tag, b)
        BY <1>1, <1>2, <2>2, BasicCancelAsks, BasicCancelLanes
  <2> QED BY <1>6, <2>1, <2>2
<1>7. CASE Close
      BY <1>1, <1>2, <1>7, CloseAsks DEF Lanes
<1>8. CASE OnOpenOk
  <2>1. Asks' /\ Out' = Out
        BY <1>1, <1>8, OnOpenOkAsks
  <2>2. /\ Receive("Channel.OpenOk") /\ UNCHANGED <<consumers, cancelled>>
        /\ state' = IF state = "CLOSING" THEN state ELSE "OPEN"
        BY <1>8 DEF OnOpenOk
  <2>3. state' \in {"OPENING", "OPEN"} => state \in {"OPENING", "OPEN"}
    <3>1. state # "CLOSED" /\ state \in {"OPENING", "OPEN", "CLOSING", "CLOSED"}
          BY <1>1, <2>2 DEF Receive, Asks, ChannelTypes, TypeOK
    <3> QED BY <2>2, <3>1
  <2>4. Lanes'
        BY <2>1, <2>2, <2>3, OtherReplyLanes
  <2> QED BY <1>2, <2>1, <2>4
<1>9. CASE OnOk
  <2>1. Asks' /\ Out' = Out
        BY <1>1, <1>9, OnOkAsks
  <2>2. /\ Receive("Basic.ConsumeOk") \/ Receive("Ok")
        /\ UNCHANGED <<state, consumers, cancelled>>
        BY <1>9 DEF OnOk
  <2>3. Lanes'
        BY <2>1, <2>2, OtherReplyLanes
  <2> QED BY <1>2, <2>1, <2>3
<1>10. CASE OnCancelOk
       BY <1>1, <1>2, <1>10, OnCancelOkAsks, OnCancelOkLanes
<1>11. CASE OnCancel
       BY <1>1, <1>2, <1>11, OnCancelAsks, OnCancelLanes
<1>12. CASE OnDeliver
       BY <1>1, <1>2, <1>12, OnDeliverAsks, OnDeliverLanes
<1>13. CASE OnCloseFromBroker
       BY <1>1, <1>2, <1>13, OnCloseFromBrokerAsks DEF Lanes
<1>14. CASE OnCloseOk
       BY <1>1, <1>2, <1>14, OnCloseOkAsks DEF Lanes
<1>15. CASE OnCloseMeta
       BY <1>1, <1>2, <1>15, OnCloseMetaAsks DEF Lanes
<1>16. CASE BrokerReads
       BY <1>1, <1>2, <1>16, BrokerReadsAsks, BrokerReadsLanes
<1>17. ASSUME NEW tag \in Tags, BrokerDelivers(tag) \/ BrokerCancels(tag)
       PROVE  ChannelInv'
  <2>1. CASE BrokerDelivers(tag)
        BY <1>1, <1>2, <2>1, BrokerDeliversAsks, BrokerDeliversLanes
  <2>2. CASE BrokerCancels(tag)
        BY <1>1, <1>2, <2>2, BrokerCancelsAsks, BrokerCancelsLanes
  <2> QED BY <1>17, <2>1, <2>2
<1>18. CASE BrokerCloses
       BY <1>1, <1>2, <1>18, BrokerClosesAsks, BrokerClosesLanes
<1>19. CASE UNCHANGED vars
  <2>1. UNCHANGED <<state, blocking, blocked, toBroker, consumers, consumersWithNoack, cancelled,
                    cancelCallbacks, life, toClient, brokerState, brokerConsumers, deliveries,
                    calls>>
        BY <1>19 DEF vars, rpcVars, consumerVars, brokerVars
  <2>2. ChannelTypes' /\ Beginning' /\ OneAsked'
        BY <1>1, <2>1 DEF Asks, ChannelTypes, TypeOK, Beginning, OneAsked
  <2>3. Out' = Out /\ Serving' = Serving
        BY <2>1 DEF Out, Serving
  <2>4. \A t \in Tags : Lane(t) => Lane(t)'
        BY <2>1, <2>3 DEF Lane, InOrder, ClientSide, BrokerSide
  <2>5. Lanes'
        BY <2>1, <2>4 DEF ChannelInv, Lanes
  <2> QED BY <1>2, <2>2, <2>5 DEF Asks
<1> QED BY <1>4, <1>5, <1>6, <1>7, <1>8, <1>9, <1>10, <1>11, <1>12, <1>13, <1>14, <1>15,
           <1>16, <1>17, <1>18, <1>19 DEF Next, ClientReads

\* The inductive invariant: the types, one request in flight, and for every tag a
\* lane on which the frames of a consumer's life follow in order and both ends'
\* views of it fit what is on the way between them.
THEOREM ChannelInvariant == Spec => []ChannelInv
<1>1. Init => ChannelInv
      BY ChannelStart
<1>2. ChannelInv /\ [Next]_vars => ChannelInv'
      BY ChannelStep
<1> QED BY <1>1, <1>2, PTL DEF Spec

\* Every variable keeps its type; what is blocked waits for a request, and the
\* counters stay within their bounds.
THEOREM ChannelTypeCorrect == Spec => []TypeOK
<1>1. ChannelInv => TypeOK
      BY DEF ChannelInv, ChannelTypes
<1> QED BY <1>1, ChannelInvariant, PTL

\* A set with one element at most, and none exactly when empty.
SoleOrNone(S, empty) ==
    /\ Cardinality(S) \in {0, 1} /\ (S = {} => Cardinality(S) = 0)
    /\ (S = {}) <=> empty

\* The places of a set of which none comes after another are at most one.
LEMMA AtMostOnePlace ==
    ASSUME NEW U, NEW q \in Seq(U), NEW S, NoneAfter(q, S, S)
    PROVE  SoleOrNone({i \in DOMAIN q : q[i] \in S}, Free(q, S))
<1> DEFINE places == {i \in DOMAIN q : q[i] \in S}
<1>1. DOMAIN q \subseteq Nat
      BY LenProperties
<1>2. \A i, j \in places : ~(i < j)
      BY DEF NoneAfter
<1>3. \A i, j \in places : i = j
  <2>1. \A i, j \in places : i \in Nat /\ j \in Nat /\ ~(i < j) /\ ~(j < i)
        BY <1>1, <1>2
  <2> QED BY <2>1
<1>4. places = {} <=> Free(q, S)
      BY DEF Free
<1> HIDE DEF places
<1>5. places = {} \/ \E i \in places : places = {i}
      BY <1>3
<1>6. places = {} => Cardinality(places) = 0
      BY FS_EmptySet
<1>7. \A i : Cardinality({i}) = 1
      BY FS_Singleton
<1>8. Cardinality(places) \in {0, 1}
      BY <1>5, <1>6, <1>7
<1>9. SoleOrNone(places, Free(q, S))
      BY <1>4, <1>6, <1>8 DEF SoleOrNone
<1> QED BY <1>9 DEF places

\* Channel._rpc and _on_synchronous_complete never have two methods under way, so
\* that a reply is always for the method that waits for it.
THEOREM OneRpcInFlight == Spec => []RpcInFlight
<1>1. ASSUME ChannelInv, state # "CLOSED"
      PROVE  RpcInFlight
  <2>1. /\ toBroker \in Seq(BrokerFrames) /\ toClient \in Seq(ClientFrames)
        /\ OnlyAsked(blocking, toBroker, toClient, brokerState)
        BY <1>1, Typed DEF ChannelInv, OneAsked
  <2> DEFINE asked == {i \in DOMAIN toBroker : Awaits(toBroker[i])}
             replied == {i \in DOMAIN toClient :
                           toClient[i].m \notin {"Basic.Deliver", "Basic.Cancel", "Channel.Close"}}
  <2>2. asked = {i \in DOMAIN toBroker : toBroker[i] \in Asking}
    <3>1. \A i \in DOMAIN toBroker : toBroker[i] \in BrokerFrames
          BY <2>1, LenProperties, ElementOfSeq
    <3>2. \A i \in DOMAIN toBroker : toBroker[i] \in Asking <=> Awaits(toBroker[i])
          BY <3>1, BrokerFrameKinds
    <3> QED BY <3>2
  <2>3. replied = {i \in DOMAIN toClient : toClient[i] \in Answers}
    <3>1. \A i \in DOMAIN toClient : toClient[i] \in ClientFrames
          BY <2>1, LenProperties, ElementOfSeq
    <3>2. \A i \in DOMAIN toClient :
              toClient[i] \in Answers <=>
                  toClient[i].m \notin {"Basic.Deliver", "Basic.Cancel", "Channel.Close"}
          BY <3>1, ClientFrameKinds
    <3> QED BY <3>2
  <2> HIDE DEF asked, replied
  <2>4. \A i \in asked : toBroker[i] = blocking
        BY <2>1, <2>2 DEF OnlyAsked, Free
  <2>5. \A i \in replied : blocking # None /\ toClient[i] = Reply(blocking)
    <3>1. Free(toClient, Answers \ Expected(blocking))
          BY <2>1 DEF OnlyAsked
    <3>2. \A i \in replied : toClient[i] \in Expected(blocking)
          BY <2>3, <3>1 DEF Free
    <3> QED BY <3>2 DEF Expected
  <2>6. /\ Cardinality(asked) \in {0, 1} /\ (asked = {} => Cardinality(asked) = 0)
        /\ asked = {} <=> Free(toBroker, Asking)
    <3>1. NoneAfter(toBroker, Asking, Asking)
          BY <2>1 DEF OnlyAsked
    <3>2. SoleOrNone({i \in DOMAIN toBroker : toBroker[i] \in Asking}, Free(toBroker, Asking))
          BY <2>1, <3>1, AtMostOnePlace
    <3>3. SoleOrNone(asked, Free(toBroker, Asking))
          BY <2>2, <3>2
    <3> QED BY <3>3 DEF SoleOrNone
  <2>7. /\ Cardinality(replied) \in {0, 1} /\ (replied = {} => Cardinality(replied) = 0)
        /\ replied = {} <=> Free(toClient, Answers)
    <3>1. NoneAfter(toClient, Answers, Answers)
          BY <2>1 DEF OnlyAsked
    <3>2. SoleOrNone({i \in DOMAIN toClient : toClient[i] \in Answers}, Free(toClient, Answers))
          BY <2>1, <3>1, AtMostOnePlace
    <3>3. SoleOrNone(replied, Free(toClient, Answers))
          BY <2>3, <3>2
    <3> QED BY <3>3 DEF SoleOrNone
  <2>8. asked = {} \/ replied = {}
        BY <2>1, <2>6, <2>7 DEF OnlyAsked
  <2>9. Cardinality(asked) + Cardinality(replied) <= 1
        BY <2>6, <2>7, <2>8
  <2>10. blocking = None \/ asked # {} \/ replied # {} \/ brokerState \in {"closing", "closed"}
         BY <2>1, <2>6, <2>7 DEF OnlyAsked
  <2> QED BY <2>4, <2>5, <2>9, <2>10 DEF RpcInFlight, asked, replied
<1>2. ChannelInv => RpcInFlight
      BY <1>1 DEF RpcInFlight
<1> QED BY <1>2, ChannelInvariant, PTL

\* However the cancellations of the two sides cross: a delivery on an open channel
\* finds the consumer it was sent to, and with nothing on the way both ends know the
\* same consumers.
THEOREM ConsumersAlwaysAgree == Spec => []ConsumersAgree
<1>1. ASSUME ChannelInv
      PROVE  DeliveryFindsConsumer
  <2> SUFFICES ASSUME toClient # <<>>, Head(toClient).m = "Basic.Deliver", state = "OPEN"
               PROVE  /\ Head(toClient).tag \in consumers \cup cancelled
                      /\ Head(toClient).life = life[Head(toClient).tag]
      BY DEF DeliveryFindsConsumer
  <2>1. toClient \in Seq(ClientFrames) /\ Head(toClient) \in ClientFrames
        BY <1>1, Typed, StreamTypes DEF ChannelInv
  <2>2. PICK t \in Tags : t = Head(toClient).tag
        BY <2>1, ClientFrameKinds
  <2>3. Head(toClient) \in Delivers(t)
        BY <2>1, <2>2, ClientFrameKinds
  <2>4. \A S : Free(toClient, S) => Head(toClient) \notin S
        BY <2>1, HeadFrame
  <2>5. Lane(t)
        BY <1>1 DEF ChannelInv, Lanes
  <2>6. t \in consumers \cup cancelled
        BY <2>3, <2>4, <2>5 DEF Lane, ClientSide
  <2>7. Head(toClient).life = life[t]
        BY <2>3, <2>4, <2>5 DEF Lane, InOrder, Old
  <2> QED BY <2>2, <2>6, <2>7
<1>2. ASSUME ChannelInv, state = "OPEN", brokerState = "open", toBroker = <<>>, toClient = <<>>,
             NEW t \in Tags
      PROVE  brokerConsumers[t] = IF t \in consumers THEN life[t] ELSE 0
  <2>1. \A S : Free(<<>>, S)
        BY DEF Free
  <2>2. blocking = None
    <3>1. OnlyAsked(blocking, toBroker, toClient, brokerState)
          BY <1>2 DEF ChannelInv, OneAsked
    <3> QED BY <1>2, <2>1, <3>1 DEF OnlyAsked
  <2>3. Out = <<>>
    <3>1. blocked = <<>>
          BY <1>2, <2>2 DEF ChannelInv, ChannelTypes, TypeOK
    <3> QED BY <1>2, <3>1 DEF Out
  <2>4. Lane(t) /\ Serving
        BY <1>2 DEF ChannelInv, Lanes, Serving
  <2>5. CASE t \in consumers
    <3>1. t \notin cancelled
          BY <1>2, <2>1, <2>3, <2>4, <2>5 DEF Lane, ClientSide
    <3>2. brokerConsumers[t] # 0
          BY <1>2, <2>1, <2>3, <2>4, <2>5, <3>1 DEF Lane, BrokerSide
    <3> QED BY <2>4, <2>5, <3>2 DEF Lane, BrokerSide
  <2>6. CASE t \notin consumers
    <3>1. brokerConsumers[t] = 0
          BY <2>1, <2>3, <2>4, <2>6 DEF Lane, BrokerSide
    <3> QED BY <2>6, <3>1
  <2> QED BY <2>5, <2>6
<1>3. ChannelInv => ConsumersAgree
      BY <1>1, <1>2 DEF ConsumersAgree, QuietAgreement
<1> QED BY <1>3, ChannelInvariant, PTL

=============================================================================
