------------------------ MODULE PikaConnectionProofs ------------------------
(***************************************************************************)
(* Proofs about PikaConnection: one end that all parts agree on, no failed *)
(* assertion on the way down, Connection.Close as the last frame, and the  *)
(* frames of each channel, on their way either way, fit what its two ends  *)
(* think of it, so that no frame reaches the next user of its number; for  *)
(* any number of channels, contents and blocks.                            *)
(***************************************************************************)
EXTENDS PikaConnection, SequenceTheorems, FiniteSetTheorems, TLAPS

-----------------------------------------------------------------------------
(* Frames of a kind in a stream.                                           *)

Free(q, S) == \A i \in DOMAIN q : q[i] \notin S
AtMostOne(q, S) == \A i, j \in DOMAIN q : q[i] \in S /\ q[j] \in S => i = j

\* The steps of the opening handshake.
Openings == {Frame(t) : t \in {"Header", "Start", "StartOk", "Tune", "TuneOk+Open", "OpenOk"}}
CloseFrame == {Frame("Close")}
CloseOkFrame == {Frame("CloseOk")}

-----------------------------------------------------------------------------
(* The inductive invariant.                                                *)

ConnectionTypes ==
    /\ state \in {"PROTOCOL", "START", "TUNE", "OPEN", "CLOSING", "CLOSED"}
    /\ opened \in BOOLEAN /\ error \in Reasons
    /\ heartbeat \in BOOLEAN /\ blockedTimer \in BOOLEAN
    /\ transport \in {"ACTIVE", "ABORTED", "FAILED", "COMPLETED"}
    /\ gotEof \in BOOLEAN /\ failed \in BOOLEAN /\ reading \in BOOLEAN

ChannelTypes ==
    /\ channels \in [Numbers -> [state: ChannelStates, life: 0..MaxLives]]
    /\ \A c \in Used : channels[c].life # 0
    /\ lives \in 0..MaxLives

WireTypes ==
    /\ buffer \in Seq(ClientFrames)
    /\ toBroker \in Seq(BrokerFrames) /\ toClient \in Seq(ClientFrames)
    /\ broker \in {"handshake", "up", "closing", "gone"}
    /\ brokerChannels \in [Numbers -> [state: {"none", "open", "closing"}, life: 0..MaxLives]]
    /\ \A c \in Numbers : brokerChannels[c].state # "none" => brokerChannels[c].life # 0
    /\ contents \in 0..MaxContents /\ blocks \in 0..MaxBlocks

\* One step of the handshake is under way, until the connection is open.
OneOpening ==
    /\ AtMostOne(toBroker, Openings) /\ AtMostOne(toClient, Openings)
    /\ AtMostOne(buffer, Openings)
    /\ Free(toBroker, Openings) \/ (Free(toClient, Openings) /\ Free(buffer, Openings))
    /\ Free(toClient, Openings) \/ Free(buffer, Openings)
    /\ opened => Free(toBroker, Openings) /\ Free(toClient, Openings) /\ Free(buffer, Openings)

\* What is queued for the loop, and what was read, in each state of the transport.
TransportShape ==
    /\ transport \in {"ACTIVE", "COMPLETED"} => notifies = <<>>
    /\ transport = "FAILED" => notifies = <<"error">>
    /\ transport = "ABORTED" => notifies \in {<<"none">>, <<"error", "none">>}
    /\ transport = "COMPLETED" <=> state = "CLOSED"
    /\ reading => transport \in {"ACTIVE", "ABORTED"}
    /\ ~reading => buffer = <<>>

\* The reason of the end is known before the end.
ReasonKnown ==
    /\ transport = "ABORTED" => gotEof \/ error # "none"
    /\ error = "none" => /\ Free(toBroker, CloseFrame)
                         /\ Free(toClient, CloseOkFrame) /\ Free(buffer, CloseOkFrame)
    /\ (state = "CLOSING" /\ opened /\ (transport = "ACTIVE" \/ reading)) => HasReplyCode

\* Channels and timers that are there.
Life ==
    /\ state = "OPEN" => opened
    /\ Used # {} => opened
    /\ CallbackRuns => reading
    /\ state = "CLOSED" => ~heartbeat /\ ~blockedTimer /\ Used = {}

\* Connection.Close is sent once, when there is no channel left.
CloseIsLast ==
    /\ NothingAfterClose
    /\ ~Free(toBroker, CloseFrame) => state = "CLOSING" /\ opened /\ Used = {}

\* What the application was told so far.
Told ==
    LET open == IF opened THEN <<[call |-> "open", error |-> "none"]>> ELSE <<>> IN
    IF state = "CLOSED"
    THEN \E reason \in Reasons \ {"none"} : outcome = Append(open, Outcome(reason))
    ELSE outcome = open

ConnectionInv ==
    /\ ~failed
    /\ ConnectionTypes /\ ChannelTypes /\ WireTypes
    /\ OneOpening /\ TransportShape /\ ReasonKnown /\ Life /\ CloseIsLast /\ Told

-----------------------------------------------------------------------------
(* Streams and frames of a kind.                                           *)

\* Nothing is in an empty stream.
LEMMA EmptyStream ==
    ASSUME NEW S
    PROVE  Free(<<>>, S) /\ AtMostOne(<<>>, S)
BY DEF Free, AtMostOne

\* A single frame.
LEMMA SingleFrame ==
    ASSUME NEW T, NEW f \in T, NEW S
    PROVE  /\ <<f>> \in Seq(T) /\ AtMostOne(<<f>>, S)
           /\ f \notin S => Free(<<f>>, S)
           /\ \A i \in DOMAIN <<f>> : <<f>>[i] = f /\ i = 1
BY DEF Free, AtMostOne

\* What is in two streams one after the other.
LEMMA JoinedStreams ==
    ASSUME NEW T, NEW q \in Seq(T), NEW r \in Seq(T), NEW S
    PROVE  /\ q \o r \in Seq(T)
           /\ Free(q \o r, S) <=> Free(q, S) /\ Free(r, S)
           /\ AtMostOne(q, S) /\ Free(r, S) => AtMostOne(q \o r, S)
           /\ Free(q, S) /\ AtMostOne(r, S) => AtMostOne(q \o r, S)
<1> DEFINE j == q \o r
<1>1. /\ j \in Seq(T) /\ Len(j) = Len(q) + Len(r)
      /\ \A i \in 1..Len(q) + Len(r) : j[i] = IF i <= Len(q) THEN q[i] ELSE r[i - Len(q)]
      BY ConcatProperties
<1>2. /\ Len(q) \in Nat /\ DOMAIN q = 1..Len(q)
      /\ Len(r) \in Nat /\ DOMAIN r = 1..Len(r)
      BY LenProperties
<1>3. DOMAIN j = 1..Len(q) + Len(r)
      BY <1>1, LenProperties
<1> HIDE DEF j
<1>4. ASSUME Free(j, S)
      PROVE  Free(q, S) /\ Free(r, S)
  <2>1. \A i \in DOMAIN q : q[i] \notin S
        BY <1>1, <1>2, <1>3, <1>4 DEF Free
  <2>2. ASSUME NEW i \in DOMAIN r
        PROVE  r[i] \notin S
    <3> DEFINE n == Len(q) + i
    <3>1. n \in 1..Len(q) + Len(r) /\ ~(n <= Len(q)) /\ n - Len(q) = i
          BY <1>2
    <3>2. j[n] = r[i]
          BY <1>1, <3>1
    <3> QED BY <1>3, <1>4, <3>1, <3>2 DEF Free
  <2> QED BY <2>1, <2>2 DEF Free
<1>5. ASSUME NEW i \in DOMAIN j
      PROVE  \/ i \in DOMAIN q /\ j[i] = q[i]
             \/ ~(i <= Len(q)) /\ i - Len(q) \in DOMAIN r /\ j[i] = r[i - Len(q)]
  <2>1. CASE i <= Len(q)
        BY <1>1, <1>2, <1>3, <2>1
  <2>2. CASE ~(i <= Len(q))
        BY <1>1, <1>2, <1>3, <2>2
  <2> QED BY <2>1, <2>2
<1>6. Free(q, S) /\ Free(r, S) => Free(j, S)
      BY <1>5 DEF Free
<1>7. AtMostOne(q, S) /\ Free(r, S) => AtMostOne(j, S)
      BY <1>5 DEF Free, AtMostOne
<1>8. ASSUME Free(q, S), AtMostOne(r, S)
      PROVE  AtMostOne(j, S)
  <2>1. ASSUME NEW i \in DOMAIN j, NEW k \in DOMAIN j, j[i] \in S, j[k] \in S
        PROVE  i = k
    <3>1. ~(i <= Len(q)) /\ ~(k <= Len(q))
          BY <1>1, <1>2, <1>3, <1>8, <2>1 DEF Free
    <3> DEFINE m == i - Len(q)
               n == k - Len(q)
    <3>2. m \in DOMAIN r /\ n \in DOMAIN r
          BY <1>2, <1>3, <3>1
    <3>3. r[m] \in S /\ r[n] \in S
          BY <1>1, <1>3, <2>1, <3>1
    <3>4. m = n
          BY <1>8, <3>2, <3>3 DEF AtMostOne
    <3> QED BY <1>2, <1>3, <3>4
  <2> QED BY <2>1 DEF AtMostOne
<1> QED BY <1>1, <1>4, <1>6, <1>7, <1>8 DEF j

\* What is left when the first frame is taken.
LEMMA RestOfStream ==
    ASSUME NEW T, NEW q \in Seq(T), q # <<>>, NEW S
    PROVE  /\ Head(q) \in T /\ Tail(q) \in Seq(T)
           /\ Free(q, S) => Head(q) \notin S /\ Free(Tail(q), S)
           /\ AtMostOne(q, S) => AtMostOne(Tail(q), S)
           /\ AtMostOne(q, S) /\ Head(q) \in S => Free(Tail(q), S)
<1> DEFINE t == Tail(q)
<1>1. /\ Head(q) \in T /\ t \in Seq(T) /\ Len(t) = Len(q) - 1
      /\ \A i \in 1..Len(t) : t[i] = q[i + 1]
      BY HeadTailProperties
<1>2. Len(q) \in Nat /\ DOMAIN q = 1..Len(q) /\ DOMAIN t = 1..Len(t) /\ Len(q) # 0
      BY <1>1, LenProperties, EmptySeq
<1>3. Head(q) = q[1]
      BY <1>2
<1> HIDE DEF t
<1>4. \A i \in DOMAIN t : i + 1 \in DOMAIN q /\ i + 1 # 1 /\ t[i] = q[i + 1]
      BY <1>1, <1>2
<1>5. 1 \in DOMAIN q
      BY <1>2
<1>6. Free(q, S) => Head(q) \notin S /\ Free(t, S)
      BY <1>3, <1>4, <1>5 DEF Free
<1>7. ASSUME AtMostOne(q, S)
      PROVE  AtMostOne(t, S)
  <2>1. ASSUME NEW i \in DOMAIN t, NEW k \in DOMAIN t, t[i] \in S, t[k] \in S
        PROVE  i = k
    <3>1. i + 1 = k + 1
          BY <1>4, <1>7, <2>1 DEF AtMostOne
    <3> QED BY <1>1, <1>2, <3>1
  <2> QED BY <2>1 DEF AtMostOne
<1>8. AtMostOne(q, S) /\ Head(q) \in S => Free(t, S)
      BY <1>3, <1>4, <1>5 DEF Free, AtMostOne
<1> QED BY <1>1, <1>6, <1>7, <1>8 DEF t

\* The two parts of a stream that is cut.
LEMMA CutStream ==
    ASSUME NEW T, NEW q \in Seq(T), NEW n \in 1..Len(q), NEW S
    PROVE  /\ SubSeq(q, 1, n) \in Seq(T) /\ SubSeq(q, n + 1, Len(q)) \in Seq(T)
           /\ Free(q, S) => /\ Free(SubSeq(q, 1, n), S)
                            /\ Free(SubSeq(q, n + 1, Len(q)), S)
           /\ AtMostOne(q, S) => /\ AtMostOne(SubSeq(q, 1, n), S)
                                 /\ AtMostOne(SubSeq(q, n + 1, Len(q)), S)
                                 /\ \/ Free(SubSeq(q, 1, n), S)
                                    \/ Free(SubSeq(q, n + 1, Len(q)), S)
<1> DEFINE a == SubSeq(q, 1, n)
           b == SubSeq(q, n + 1, Len(q))
<1>1. Len(q) \in Nat /\ DOMAIN q = 1..Len(q) /\ \A i \in 1..Len(q) : q[i] \in T
      BY LenProperties, ElementOfSeq
<1>2. a \in Seq(T) /\ Len(a) = n /\ \A i \in 1..n : a[i] = q[i]
  <2>1. 1 \in Int /\ n \in Int /\ 1 <= n /\ n - 1 + 1 = n /\ \A i \in 1..n : q[i] \in T
        BY <1>1
  <2>2. /\ a \in Seq(T) /\ Len(a) = n - 1 + 1
        /\ \A i \in 1..n - 1 + 1 : a[i] = q[1 + i - 1]
        BY <2>1, SubSeqProperties
  <2> HIDE DEF a
  <2> QED BY <2>1, <2>2
<1>3. /\ b \in Seq(T) /\ Len(b) \in Nat /\ Len(b) = Len(q) - n
      /\ \A i \in 1..Len(b) : b[i] = q[n + i]
  <2>1. /\ n + 1 \in Int /\ Len(q) \in Int
        /\ \A i \in n + 1..Len(q) : q[i] \in T
        BY <1>1
  <2>2. /\ b \in Seq(T)
        /\ Len(b) = IF n + 1 <= Len(q) THEN Len(q) - (n + 1) + 1 ELSE 0
        /\ \A i \in 1..Len(q) - (n + 1) + 1 : b[i] = q[n + 1 + i - 1]
        BY <2>1, SubSeqProperties
  <2> HIDE DEF b
  <2> DEFINE m == Len(q)
  <2>3. m \in Nat /\ n \in 1..m
        BY <1>1
  <2>4. /\ Len(b) = IF n + 1 <= m THEN m - (n + 1) + 1 ELSE 0
        /\ \A i \in 1..m - (n + 1) + 1 : b[i] = q[n + 1 + i - 1]
        BY <2>2
  <2> HIDE DEF m
  <2>5. Len(b) = m - n
        BY <2>3, <2>4
  <2>6. \A i \in 1..m - n : n + 1 + i - 1 = n + i
        BY <2>3
  <2>7. m - (n + 1) + 1 = m - n
        BY <2>3
  <2>8. \A i \in 1..Len(b) : b[i] = q[n + i]
        BY <2>4, <2>5, <2>6, <2>7
  <2>9. Len(b) \in Nat
        BY <2>3, <2>5
  <2> QED BY <2>2, <2>5, <2>8, <2>9 DEF m
<1>4. DOMAIN a = 1..Len(a) /\ DOMAIN b = 1..Len(b)
      BY <1>2, <1>3, LenProperties
<1> HIDE DEF a, b
<1>5. \A i \in DOMAIN a : i \in DOMAIN q /\ i <= n /\ a[i] = q[i]
      BY <1>1, <1>2, <1>4
<1>6. \A i \in DOMAIN b : n + i \in DOMAIN q /\ n + i > n /\ b[i] = q[n + i]
      BY <1>1, <1>3, <1>4
<1>7. Free(q, S) => Free(a, S) /\ Free(b, S)
      BY <1>5, <1>6 DEF Free
<1>8. ASSUME AtMostOne(q, S)
      PROVE  /\ AtMostOne(a, S) /\ AtMostOne(b, S)
             /\ Free(a, S) \/ Free(b, S)
  <2>1. AtMostOne(a, S)
        BY <1>5, <1>8 DEF AtMostOne
  <2>2. ASSUME NEW i \in DOMAIN b, NEW k \in DOMAIN b, b[i] \in S, b[k] \in S
        PROVE  i = k
    <3>1. n + i = n + k
          BY <1>6, <1>8, <2>2 DEF AtMostOne
    <3> QED BY <1>3, <1>4, <3>1
  <2>3. ASSUME NEW i \in DOMAIN a, NEW k \in DOMAIN b, a[i] \in S, b[k] \in S
        PROVE  FALSE
    <3>1. i = n + k
          BY <1>5, <1>6, <1>8, <2>3 DEF AtMostOne
    <3> QED BY <1>5, <1>6, <3>1, <1>2, <1>4
  <2> QED BY <2>1, <2>2, <2>3 DEF AtMostOne, Free
<1> QED BY <1>2, <1>3, <1>7, <1>8 DEF a, b

-----------------------------------------------------------------------------
(* Frames and what is sent.                                                *)

\* The frames of the connection and of its channels, in both directions.
LEMMA FramesTyped ==
    /\ \A t \in {"Header", "StartOk", "TuneOk+Open", "Close"} : Frame(t) \in BrokerFrames
    /\ \A t \in {"Start", "Tune", "OpenOk", "Close", "CloseOk", "Blocked", "Unblocked"} :
          Frame(t) \in ClientFrames
    /\ \A t \in {"Open", "Close", "CloseOk"}, c \in Numbers, l \in 1..MaxLives :
          ChannelFrame(t, c, l) \in BrokerFrames
    /\ \A t \in {"OpenOk", "Close", "CloseOk", "Content"}, c \in Numbers, l \in 1..MaxLives :
          ChannelFrame(t, c, l) \in ClientFrames
<1>1. \A t \in {"Header", "StartOk", "TuneOk+Open", "Close"} : Frame(t) \in BrokerFrames
      BY DEF Frames, BrokerFrames
<1>2. \A t \in {"Start", "Tune", "OpenOk", "Close", "CloseOk", "Blocked", "Unblocked"} :
          Frame(t) \in ClientFrames
      BY DEF Frames, ClientFrames
<1>3. \A t \in {"Open", "Close", "CloseOk"}, c \in Numbers, l \in 1..MaxLives :
          ChannelFrame(t, c, l) \in BrokerFrames
      BY DEF Frames, BrokerFrames
<1>4. \A t \in {"OpenOk", "Close", "CloseOk", "Content"}, c \in Numbers, l \in 1..MaxLives :
          ChannelFrame(t, c, l) \in ClientFrames
      BY DEF Frames, ClientFrames
<1> QED BY <1>1, <1>2, <1>3, <1>4

\* A channel's frame neither opens nor closes the connection.
LEMMA ChannelFramesApart ==
    ASSUME NEW t, NEW c \in Numbers, NEW l
    PROVE  ChannelFrame(t, c, l) \notin Openings \cup CloseFrame \cup CloseOkFrame
BY BoundsAssumption
   DEF ChannelFrame, Frame, Openings, CloseFrame, CloseOkFrame, Numbers

\* Writing keeps what is on its way, and adds nothing to it after the abort.
LEMMA SendKeeps ==
    ASSUME WireTypes, NEW frames \in Seq(BrokerFrames), Send(frames), NEW S
    PROVE  /\ toBroker' \in Seq(BrokerFrames)
           /\ Free(frames, S) => /\ Free(toBroker', S) <=> Free(toBroker, S)
                                 /\ AtMostOne(toBroker, S) => AtMostOne(toBroker', S)
           /\ Free(toBroker, S) /\ AtMostOne(frames, S) => AtMostOne(toBroker', S)
<1>1. toBroker \in Seq(BrokerFrames)
      BY DEF WireTypes
<1>2. CASE transport = "ACTIVE"
      BY <1>1, <1>2, JoinedStreams DEF Send
<1>3. CASE transport # "ACTIVE"
      BY <1>1, <1>3 DEF Send, Free, AtMostOne
<1> QED BY <1>2, <1>3

\* The same of the broker.
LEMMA BrokerSendsKeeps ==
    ASSUME WireTypes, NEW frames \in Seq(ClientFrames), BrokerSends(frames), NEW S
    PROVE  /\ toClient' \in Seq(ClientFrames)
           /\ Free(frames, S) => /\ Free(toClient', S) <=> Free(toClient, S)
                                 /\ AtMostOne(toClient, S) => AtMostOne(toClient', S)
           /\ Free(toClient, S) /\ AtMostOne(frames, S) => AtMostOne(toClient', S)
<1>1. toClient \in Seq(ClientFrames)
      BY DEF WireTypes
<1> QED BY <1>1, JoinedStreams DEF BrokerSends

\* The handshake goes on where it was when no step of it is added or taken.
LEMMA OpeningKept ==
    ASSUME OneOpening, opened' = opened,
           /\ Free(toBroker, Openings) => Free(toBroker', Openings)
           /\ Free(toClient, Openings) => Free(toClient', Openings)
           /\ Free(buffer, Openings) => Free(buffer', Openings)
           /\ AtMostOne(toBroker', Openings) /\ AtMostOne(toClient', Openings)
           /\ AtMostOne(buffer', Openings)
    PROVE  OneOpening'
BY DEF OneOpening

\* Connection.Close stays the last frame when no other is sent after it.
LEMMA FreeIsLast ==
    ASSUME NEW q, Free(q, CloseFrame)
    PROVE  \A i \in DOMAIN q : q[i] = Frame("Close") => i = Len(q)
BY DEF Free, CloseFrame

\* A frame that arrives is taken from the buffer, which keeps the rest.
LEMMA ArrivesTakes ==
    ASSUME WireTypes, NEW type, NEW c, Arrives(type, c), NEW S
    PROVE  /\ Head(buffer) \in ClientFrames /\ buffer' \in Seq(ClientFrames)
           /\ Free(buffer, S) => Head(buffer) \notin S /\ Free(buffer', S)
           /\ AtMostOne(buffer, S) => AtMostOne(buffer', S)
           /\ AtMostOne(buffer, S) /\ Head(buffer) \in S => Free(buffer', S)
<1>1. buffer \in Seq(ClientFrames) /\ buffer # <<>> /\ buffer' = Tail(buffer)
      BY DEF WireTypes, Arrives
<1> QED BY <1>1, RestOfStream

\* A frame of the client is one of the connection, or one of a channel.
LEMMA BrokerFrameKinds ==
    ASSUME NEW f \in BrokerFrames
    PROVE  \/ \E t \in {"Header", "StartOk", "TuneOk+Open", "Close"} : f = Frame(t)
           \/ \E t \in {"Open", "Close", "CloseOk"}, c \in Numbers, l \in 1..MaxLives :
                 f = ChannelFrame(t, c, l)
BY DEF BrokerFrames, Frames

\* What the broker answers: the next step of the handshake to a step of it, and
\* Connection.CloseOk to Connection.Close only.
LEMMA AnswersTyped ==
    ASSUME NEW f \in BrokerFrames
    PROVE  /\ Answers(f) \in Seq(ClientFrames) /\ AtMostOne(Answers(f), Openings)
           /\ f \notin Openings => Free(Answers(f), Openings)
           /\ f # Frame("Close") => Free(Answers(f), CloseOkFrame)
<1>1. ASSUME NEW t \in {"Header", "StartOk", "TuneOk+Open", "Close"}, f = Frame(t)
      PROVE  \E u \in {"Start", "Tune", "OpenOk", "CloseOk"} :
                /\ Answers(f) = <<Frame(u)>>
                /\ u = "CloseOk" <=> t = "Close"
      BY <1>1 DEF Answers, Frame
<1>2. ASSUME NEW t \in {"Header", "StartOk", "TuneOk+Open", "Close"}, f = Frame(t)
      PROVE  /\ Answers(f) \in Seq(ClientFrames) /\ AtMostOne(Answers(f), Openings)
             /\ f \notin Openings => Free(Answers(f), Openings)
             /\ f # Frame("Close") => Free(Answers(f), CloseOkFrame)
  <2>1. PICK u \in {"Start", "Tune", "OpenOk", "CloseOk"} :
            Answers(f) = <<Frame(u)>> /\ (u = "CloseOk" <=> t = "Close")
        BY <1>1, <1>2
  <2>2. Frame(u) \in ClientFrames
        BY FramesTyped
  <2>3. f \notin Openings => t = "Close"
        BY <1>2 DEF Openings
  <2>4. t = "Close" => Frame(u) \notin Openings
        BY <2>1 DEF Openings, Frame
  <2>5. f # Frame("Close") => Frame(u) \notin CloseOkFrame
        BY <1>2, <2>1 DEF CloseOkFrame, Frame
  <2> QED BY <2>1, <2>2, <2>3, <2>4, <2>5, SingleFrame
<1>3. ASSUME NEW t \in {"Open", "Close", "CloseOk"}, NEW c \in Numbers,
             NEW l \in 1..MaxLives, f = ChannelFrame(t, c, l)
      PROVE  \/ \E u \in {"OpenOk", "CloseOk"} : Answers(f) = <<ChannelFrame(u, c, l)>>
             \/ Answers(f) = <<>>
      BY <1>3 DEF Answers, ChannelFrame
<1>4. ASSUME NEW t \in {"Open", "Close", "CloseOk"}, NEW c \in Numbers,
             NEW l \in 1..MaxLives, f = ChannelFrame(t, c, l)
      PROVE  /\ Answers(f) \in Seq(ClientFrames) /\ AtMostOne(Answers(f), Openings)
             /\ Free(Answers(f), Openings) /\ Free(Answers(f), CloseOkFrame)
  <2>1. CASE Answers(f) = <<>>
        BY <2>1, EmptyStream, EmptySeq
  <2>2. ASSUME NEW u \in {"OpenOk", "CloseOk"}, Answers(f) = <<ChannelFrame(u, c, l)>>
        PROVE  /\ Answers(f) \in Seq(ClientFrames) /\ AtMostOne(Answers(f), Openings)
               /\ Free(Answers(f), Openings) /\ Free(Answers(f), CloseOkFrame)
    <3>1. ChannelFrame(u, c, l) \in ClientFrames
          BY FramesTyped
    <3>2. ChannelFrame(u, c, l) \notin Openings \cup CloseOkFrame
          BY ChannelFramesApart
    <3> QED BY <2>2, <3>1, <3>2, SingleFrame
  <2> QED BY <1>3, <1>4, <2>1, <2>2
<1> QED BY <1>2, <1>4, BrokerFrameKinds

\* A channel's frames leave the handshakes alone.
LEMMA ChannelFrameSent ==
    ASSUME NEW t \in {"Open", "Close", "CloseOk"}, NEW c \in Numbers, NEW l \in 1..MaxLives
    PROVE  /\ <<ChannelFrame(t, c, l)>> \in Seq(BrokerFrames)
           /\ Free(<<ChannelFrame(t, c, l)>>, Openings)
           /\ Free(<<ChannelFrame(t, c, l)>>, CloseFrame)
<1>1. ChannelFrame(t, c, l) \in BrokerFrames
      BY FramesTyped
<1>2. ChannelFrame(t, c, l) \notin Openings \cup CloseFrame
      BY ChannelFramesApart
<1> QED BY <1>1, <1>2, SingleFrame

\* The lowest of a set of numbers.
LEMMA LowestNumber ==
    ASSUME NEW S \in SUBSET Numbers, S # {}
    PROVE  \E n \in S : \A m \in 1..n - 1 : m \notin S
<1> DEFINE T == {1..n : n \in S}
           R == StrictSubsetOrdering(Numbers)
<1>1. \A n \in Numbers : 1..n \subseteq Numbers
      BY BoundsAssumption DEF Numbers
<1>2. IsFiniteSet(Numbers)
      BY BoundsAssumption, FS_Interval DEF Numbers
<1>3. IsWellFoundedOn(R, SUBSET Numbers)
      BY <1>2, FS_StrictSubsetOrderingWellFounded, FS_FiniteSubsetsOfFinite
<1>4. T \subseteq SUBSET Numbers /\ T # {}
      BY <1>1
<1>5. PICK x \in T : \A y \in T : <<y, x>> \notin R
      BY <1>3, <1>4, WFMin
<1>6. PICK n \in S : x = 1..n
      BY <1>5
<1>7. ASSUME NEW m \in 1..n - 1, m \in S
      PROVE  FALSE
  <2>1. 1..m \subseteq 1..n /\ 1..m # 1..n
        BY BoundsAssumption, <1>7 DEF Numbers
  <2>2. 1..m \in T /\ 1..m \in SUBSET Numbers /\ 1..n \in SUBSET Numbers
        BY <1>1, <1>7
  <2>3. <<1..m, 1..n>> \in R
        BY <2>1, <2>2 DEF StrictSubsetOrdering
  <2> QED BY <1>5, <1>6, <2>2, <2>3
<1> QED BY <1>6, <1>7

\* A set of channel numbers as a sequence.
LEMMA NumbersInOrder ==
    ASSUME NEW S \in SUBSET Numbers
    PROVE  SetToSeq(S) \in Seq(S)
<1>1. IsFiniteSet(S)
  <2>1. IsFiniteSet(Numbers)
        BY BoundsAssumption, FS_Interval DEF Numbers
  <2> QED BY <2>1, FS_Subset
<1>2. Cardinality(S) \in Nat /\ ExistsBijection(1..Cardinality(S), S)
      BY <1>1, FS_CardinalityType
<1>3. \E f \in [1..Cardinality(S) -> S] : IsInjective(f)
      BY <1>2 DEF ExistsBijection, Bijection, Injection
<1>4. SetToSeq(S) \in [1..Cardinality(S) -> S]
      BY <1>3 DEF SetToSeq
<1> QED BY <1>2, <1>4, SeqDef

\* A frame of the connection for the client is told by its type.
LEMMA ConnectionFrame ==
    ASSUME NEW f \in ClientFrames, f.channel = 0
    PROVE  f = Frame(f.type)
<1>1. CASE \E t \in {"Start", "Tune", "OpenOk", "Close", "CloseOk", "Blocked", "Unblocked"} :
               f = Frame(t)
      BY <1>1 DEF Frame
<1>2. CASE \E t \in {"OpenOk", "Close", "CloseOk", "Content"}, c \in Numbers,
              l \in 1..MaxLives : f = ChannelFrame(t, c, l)
      BY BoundsAssumption, <1>2 DEF ChannelFrame, Numbers
<1> QED BY <1>1, <1>2 DEF ClientFrames, Frames

-----------------------------------------------------------------------------
(* Frames that arrive.                                                     *)

\* Frames are processed while data_received is under way, with the stream up or
\* aborted by the connection itself.
LEMMA ArrivesWhileReading ==
    ASSUME ConnectionInv, NEW type, NEW c, Arrives(type, c)
    PROVE  /\ reading /\ reading' = reading /\ transport \in {"ACTIVE", "ABORTED"}
           /\ state # "CLOSED" /\ ~CallbackRuns
           /\ UNCHANGED <<lives, toClient, broker, brokerChannels, contents, blocks>>
BY DEF ConnectionInv, TransportShape, Arrives, brokerVars

\* The other streams while a frame of channel 0 or of a channel is taken.
LEMMA ArrivesWires ==
    ASSUME ConnectionInv, NEW type, NEW c, Arrives(type, c),
           toBroker' \in Seq(BrokerFrames)
    PROVE  WireTypes'
<1>1. buffer' \in Seq(ClientFrames)
      BY ArrivesTakes DEF ConnectionInv
<1> QED BY <1>1, ArrivesWhileReading DEF ConnectionInv, WireTypes

\* A step of the handshake arrives before the connection is open, with no other
\* step under way.
LEMMA OpeningTaken ==
    ASSUME ConnectionInv, NEW type \in {"Start", "Tune", "OpenOk"}, Arrives(type, 0)
    PROVE  /\ ~opened /\ Used = {} /\ outcome = <<>>
           /\ Free(toBroker, Openings) /\ Free(toClient, Openings)
           /\ Free(buffer', Openings) /\ Free(toBroker, CloseFrame)
<1>1. Head(buffer) \in Openings
  <2>1. Head(buffer) \in ClientFrames
        BY ArrivesTakes DEF ConnectionInv
  <2> QED BY <2>1, ConnectionFrame DEF Arrives, Openings
<1>2. ~Free(buffer, Openings) /\ Free(buffer', Openings)
      BY <1>1, ArrivesTakes DEF ConnectionInv, OneOpening
<1>3. ~opened
      BY <1>2 DEF ConnectionInv, OneOpening
<1>4. outcome = <<>>
      BY <1>3, ArrivesWhileReading DEF ConnectionInv, Told
<1> QED BY <1>2, <1>3, <1>4 DEF ConnectionInv, OneOpening, Life, CloseIsLast

\* When nothing is sent, the handshake goes on and the frames in place are kept.
LEMMA ArrivesOpening ==
    ASSUME ConnectionInv, NEW type, NEW c, Arrives(type, c), opened' = opened,
           Free(toBroker, Openings) => Free(toBroker', Openings),
           AtMostOne(toBroker', Openings)
    PROVE  OneOpening'
<1>1. /\ Free(buffer, Openings) => Free(buffer', Openings)
      /\ AtMostOne(buffer', Openings)
      BY ArrivesTakes DEF ConnectionInv, OneOpening
<1>2. toClient' = toClient
      BY ArrivesWhileReading
<1> QED BY <1>1, <1>2, OpeningKept DEF ConnectionInv, OneOpening

\* The abort with a reason: it is known, and its report is queued once.
LEMMA TerminateAborts ==
    ASSUME ConnectionInv, NEW reason \in Reasons, TerminateStream(reason),
           transport # "COMPLETED", reason # "none" \/ error # "none",
           state' # "CLOSED", reading' = reading, ~reading => buffer' = <<>>
    PROVE  /\ failed' = FALSE /\ error' \in Reasons \ {"none"} /\ heartbeat' = FALSE
           /\ gotEof' = gotEof /\ transport' = "ABORTED" /\ TransportShape'
           /\ error' = IF reason = "none" THEN error ELSE reason
<1>1. /\ error' \in Reasons \ {"none"} /\ heartbeat' = FALSE /\ gotEof' = gotEof
      /\ error' = IF reason = "none" THEN error ELSE reason
      BY DEF TerminateStream, ConnectionInv, ConnectionTypes
<1>2. failed' = FALSE
      BY <1>1 DEF TerminateStream, InitiateAbort, ConnectionInv
<1>3. CASE transport = "ABORTED"
      BY <1>1, <1>2, <1>3
         DEF TerminateStream, InitiateAbort, ConnectionInv, ConnectionTypes, TransportShape
<1>4. CASE transport = "ACTIVE"
  <2>1. transport' = "ABORTED" /\ notifies' = <<"none">>
        BY <1>4 DEF TerminateStream, InitiateAbort, ConnectionInv, TransportShape
  <2> QED BY <1>1, <1>2, <1>4, <2>1 DEF ConnectionInv, ConnectionTypes, TransportShape
<1>5. CASE transport = "FAILED"
  <2>1. notifies = <<"error">>
        BY <1>5 DEF ConnectionInv, TransportShape
  <2>2. transport' = "ABORTED" /\ notifies' = Append(notifies, "none")
        BY <1>5 DEF TerminateStream, InitiateAbort
  <2>3. Append(<<"error">>, "none") = <<"error", "none">>
    <3> DEFINE s == <<"error">>
               t == <<"error", "none">>
    <3>1. /\ s \in Seq({"none", "error"}) /\ Len(s) = 1 /\ s[1] = "error"
          /\ t \in Seq({"none", "error"}) /\ Len(t) = 2 /\ t[1] = "error" /\ t[2] = "none"
          OBVIOUS
    <3> HIDE DEF s, t
    <3> DEFINE r == Append(s, "none")
    <3>2. /\ r \in Seq({"none", "error"}) /\ Len(r) = Len(s) + 1
          /\ \A i \in 1..Len(s) : r[i] = s[i]
          /\ r[Len(s) + 1] = "none"
      <4> DEFINE T == {"none", "error"}
      <4>1. "none" \in T /\ s \in Seq(T)
            BY <3>1
      <4> HIDE DEF T
      <4>2. /\ r \in Seq(T) /\ Len(r) = Len(s) + 1
            /\ \A i \in 1..Len(s) : r[i] = s[i]
            /\ r[Len(s) + 1] = "none"
            BY <4>1, AppendProperties
      <4> QED BY <4>2 DEF T
    <3> HIDE DEF r
    <3>3. Len(r) = 2 /\ r[1] = "error" /\ r[2] = "none"
          BY <3>1, <3>2
    <3>4. \A i \in 1..Len(r) : r[i] = t[i]
          BY <3>1, <3>3
    <3>5. r = t
          BY <3>1, <3>2, <3>3, <3>4, SeqEqual
    <3> QED BY <3>5 DEF r, s, t
  <2> QED BY <1>1, <1>2, <1>5, <2>1, <2>2, <2>3
          DEF ConnectionInv, ConnectionTypes, TransportShape
<1> QED BY <1>3, <1>4, <1>5 DEF ConnectionInv, ConnectionTypes

-----------------------------------------------------------------------------
(* The actions on frames of the connection.                                *)

\* Connection.Start is answered, or the handshake given up.
LEMMA StartKeeps ==
    ASSUME ConnectionInv, OnStart
    PROVE  ConnectionInv'
<1>1. Arrives("Start", 0) /\ state' = "START"
      /\ UNCHANGED <<opened, blockedTimer, channels, outcome>>
      BY DEF OnStart
<1>2. /\ reading /\ reading' = reading /\ transport \in {"ACTIVE", "ABORTED"}
      /\ state # "CLOSED" /\ ~CallbackRuns
      /\ UNCHANGED <<lives, toClient, broker, brokerChannels, contents, blocks>>
      BY <1>1, ArrivesWhileReading
<1>3. /\ ~opened /\ Used = {} /\ outcome = <<>>
      /\ Free(toBroker, Openings) /\ Free(toClient, Openings)
      /\ Free(buffer', Openings) /\ Free(toBroker, CloseFrame)
      BY <1>1, OpeningTaken
<1>4. /\ Free(buffer, CloseOkFrame) => Free(buffer', CloseOkFrame)
      /\ AtMostOne(buffer', Openings)
      BY <1>1, ArrivesTakes DEF ConnectionInv, OneOpening
<1>5. ChannelTypes' /\ Used' = Used /\ CallbackRuns' = CallbackRuns
      BY <1>1, <1>2 DEF ConnectionInv, ChannelTypes, Used, CallbackRuns
<1>6. CASE Send(<<Frame("StartOk")>>) /\ UNCHANGED <<error, heartbeat, transportVars>>
  <2>1. /\ <<Frame("StartOk")>> \in Seq(BrokerFrames)
        /\ AtMostOne(<<Frame("StartOk")>>, Openings)
        /\ Free(<<Frame("StartOk")>>, CloseFrame)
    <3>1. Frame("StartOk") \in BrokerFrames /\ Frame("StartOk") \notin CloseFrame
          BY FramesTyped DEF CloseFrame, Frame
    <3> QED BY <3>1, SingleFrame
  <2>2. /\ toBroker' \in Seq(BrokerFrames) /\ AtMostOne(toBroker', Openings)
        /\ Free(toBroker', CloseFrame)
        BY <1>3, <1>6, <2>1, SendKeeps DEF ConnectionInv
  <2>3. ConnectionTypes' /\ ~failed'
        BY <1>1, <1>2, <1>6 DEF ConnectionInv, ConnectionTypes, transportVars
  <2>4. WireTypes'
        BY <1>1, <2>2, ArrivesWires
  <2>5. OneOpening'
        BY <1>1, <1>2, <1>3, <1>4, <2>2 DEF ConnectionInv, OneOpening
  <2>6. TransportShape'
        BY <1>1, <1>2, <1>6 DEF ConnectionInv, TransportShape, transportVars
  <2>7. ReasonKnown'
        BY <1>1, <1>2, <1>3, <1>4, <1>6, <2>2 DEF ConnectionInv, ReasonKnown, transportVars
  <2>8. Life' /\ Told'
        BY <1>1, <1>2, <1>3, <1>5, <1>6 DEF Life, Told
  <2>9. CloseIsLast'
        BY <2>2, FreeIsLast DEF CloseIsLast, NothingAfterClose
  <2> QED BY <1>5, <2>3, <2>4, <2>5, <2>6, <2>7, <2>8, <2>9 DEF ConnectionInv
<1>7. CASE TerminateStream("handshake") /\ UNCHANGED toBroker
  <2>1. /\ failed' = FALSE /\ error' = "handshake" /\ heartbeat' = FALSE
        /\ gotEof' = gotEof /\ transport' = "ABORTED" /\ TransportShape'
        BY <1>1, <1>2, <1>7, TerminateAborts DEF Reasons
  <2>2. ConnectionTypes'
        BY <1>1, <1>2, <2>1 DEF ConnectionInv, ConnectionTypes, Reasons
  <2>3. WireTypes'
        BY <1>1, <1>7, ArrivesWires DEF ConnectionInv, WireTypes
  <2>4. OneOpening'
        BY <1>1, <1>2, <1>3, <1>4, <1>7 DEF ConnectionInv, OneOpening
  <2>5. ReasonKnown'
        BY <1>1, <2>1 DEF ReasonKnown
  <2>6. Life' /\ Told'
        BY <1>1, <1>2, <1>3, <1>5 DEF Life, Told
  <2>7. CloseIsLast'
        BY <1>3, <1>7, FreeIsLast DEF CloseIsLast, NothingAfterClose
  <2> QED BY <1>5, <2>1, <2>2, <2>3, <2>4, <2>5, <2>6, <2>7 DEF ConnectionInv
<1> QED BY <1>6, <1>7 DEF OnStart

\* Connection.Tune comes in the handshake.
LEMMA TuneKeeps ==
    ASSUME ConnectionInv, OnTune
    PROVE  ConnectionInv'
<1>1. /\ Arrives("Tune", 0) /\ state' = "TUNE" /\ heartbeat' = TRUE
      /\ Send(<<Frame("TuneOk+Open")>>)
      /\ UNCHANGED <<opened, error, blockedTimer, channels, transportVars, outcome>>
      BY DEF OnTune
<1>2. /\ reading /\ reading' = reading /\ transport \in {"ACTIVE", "ABORTED"}
      /\ state # "CLOSED" /\ ~CallbackRuns
      /\ UNCHANGED <<lives, toClient, broker, brokerChannels, contents, blocks>>
      BY <1>1, ArrivesWhileReading
<1>3. /\ ~opened /\ Used = {} /\ outcome = <<>>
      /\ Free(toBroker, Openings) /\ Free(toClient, Openings)
      /\ Free(buffer', Openings) /\ Free(toBroker, CloseFrame)
      BY <1>1, OpeningTaken
<1>4. /\ Free(buffer, CloseOkFrame) => Free(buffer', CloseOkFrame)
      /\ AtMostOne(buffer', Openings)
      BY <1>1, ArrivesTakes DEF ConnectionInv, OneOpening
<1>5. ChannelTypes' /\ Used' = Used /\ CallbackRuns' = CallbackRuns
      BY <1>1, <1>2 DEF ConnectionInv, ChannelTypes, Used, CallbackRuns
<1>6. /\ <<Frame("TuneOk+Open")>> \in Seq(BrokerFrames)
      /\ AtMostOne(<<Frame("TuneOk+Open")>>, Openings)
      /\ Free(<<Frame("TuneOk+Open")>>, CloseFrame)
  <2>1. Frame("TuneOk+Open") \in BrokerFrames /\ Frame("TuneOk+Open") \notin CloseFrame
        BY FramesTyped DEF CloseFrame, Frame
  <2> QED BY <2>1, SingleFrame
<1>7. /\ toBroker' \in Seq(BrokerFrames) /\ AtMostOne(toBroker', Openings)
      /\ Free(toBroker', CloseFrame)
      BY <1>1, <1>3, <1>6, SendKeeps DEF ConnectionInv
<1>8. ConnectionTypes' /\ ~failed'
      BY <1>1, <1>2 DEF ConnectionInv, ConnectionTypes, transportVars
<1>9. WireTypes'
      BY <1>1, <1>7, ArrivesWires
<1>10. OneOpening'
      BY <1>1, <1>2, <1>3, <1>4, <1>7 DEF ConnectionInv, OneOpening
<1>11. TransportShape'
      BY <1>1, <1>2 DEF ConnectionInv, TransportShape, transportVars
<1>12. ReasonKnown'
      BY <1>1, <1>2, <1>4, <1>7 DEF ConnectionInv, ReasonKnown, transportVars
<1>13. Life' /\ Told'
      BY <1>1, <1>2, <1>3, <1>5 DEF Life, Told
<1>14. CloseIsLast'
      BY <1>7, FreeIsLast DEF CloseIsLast, NothingAfterClose
<1> QED BY <1>5, <1>8, <1>9, <1>10, <1>11, <1>12, <1>13, <1>14 DEF ConnectionInv

\* Connection.OpenOk opens the connection, once.
LEMMA OpenOkKeeps ==
    ASSUME ConnectionInv, OnOpenOk
    PROVE  ConnectionInv'
<1>1. /\ Arrives("OpenOk", 0) /\ state' = "OPEN" /\ opened' = TRUE
      /\ outcome' = Append(outcome, [call |-> "open", error |-> "none"])
      /\ UNCHANGED <<error, heartbeat, blockedTimer, channels, transportVars, toBroker>>
      BY DEF OnOpenOk
<1>2. /\ reading /\ reading' = reading /\ transport \in {"ACTIVE", "ABORTED"}
      /\ state # "CLOSED" /\ ~CallbackRuns
      /\ UNCHANGED <<lives, toClient, broker, brokerChannels, contents, blocks>>
      BY <1>1, ArrivesWhileReading
<1>3. /\ ~opened /\ Used = {} /\ outcome = <<>>
      /\ Free(toBroker, Openings) /\ Free(toClient, Openings)
      /\ Free(buffer', Openings) /\ Free(toBroker, CloseFrame)
      BY <1>1, OpeningTaken
<1>4. /\ Free(buffer, CloseOkFrame) => Free(buffer', CloseOkFrame)
      /\ AtMostOne(buffer', Openings)
      BY <1>1, ArrivesTakes DEF ConnectionInv, OneOpening
<1>5. ChannelTypes' /\ Used' = Used /\ CallbackRuns' = CallbackRuns
      BY <1>1, <1>2 DEF ConnectionInv, ChannelTypes, Used, CallbackRuns
<1>6. ConnectionTypes' /\ ~failed'
      BY <1>1, <1>2 DEF ConnectionInv, ConnectionTypes, transportVars
<1>7. WireTypes'
      BY <1>1, ArrivesWires DEF ConnectionInv, WireTypes
<1>8. OneOpening'
      BY <1>1, <1>2, <1>3, <1>4 DEF ConnectionInv, OneOpening
<1>9. TransportShape'
      BY <1>1, <1>2 DEF ConnectionInv, TransportShape, transportVars
<1>10. ReasonKnown'
      BY <1>1, <1>2, <1>3, <1>4 DEF ConnectionInv, ReasonKnown, transportVars
<1>11. Life'
      BY <1>1, <1>2, <1>3, <1>5 DEF Life
<1>12. Told'
      BY <1>1, <1>3 DEF Told
<1>13. CloseIsLast'
      BY <1>1, <1>3, FreeIsLast DEF CloseIsLast, NothingAfterClose
<1> QED BY <1>5, <1>6, <1>7, <1>8, <1>9, <1>10, <1>11, <1>12, <1>13 DEF ConnectionInv

\* What ends the stream, between reads or in one: the reason is known, and an
\* answer to what the connection sent last keeps the reply code.
LEMMA TerminateKeeps ==
    ASSUME ConnectionInv, NEW reason \in Reasons, TerminateStream(reason),
           UNCHANGED <<state, opened, channels, lives, outcome, toBroker, reading>>,
           state # "CLOSED", reason # "none" \/ error # "none",
           ~reading => buffer' = <<>>, reading => reason \in {"none", "broker"},
           blockedTimer' \in BOOLEAN, WireTypes', OneOpening'
    PROVE  ConnectionInv'
<1>1. transport # "COMPLETED"
      BY DEF ConnectionInv, TransportShape
<1>2. /\ failed' = FALSE /\ error' \in Reasons \ {"none"} /\ heartbeat' = FALSE
      /\ gotEof' = gotEof /\ transport' = "ABORTED" /\ TransportShape'
      /\ error' = IF reason = "none" THEN error ELSE reason
      BY <1>1, TerminateAborts
<1>3. ConnectionTypes'
      BY <1>2 DEF ConnectionInv, ConnectionTypes
<1>4. ChannelTypes' /\ Used' = Used /\ CallbackRuns' = CallbackRuns
      BY DEF ConnectionInv, ChannelTypes, Used, CallbackRuns
<1>5. ReasonKnown'
      BY <1>2 DEF ConnectionInv, ReasonKnown, HasReplyCode
<1>6. Life'
      BY <1>2, <1>4 DEF ConnectionInv, Life
<1>7. CloseIsLast'
      BY <1>4 DEF ConnectionInv, CloseIsLast, NothingAfterClose
<1>8. Told'
      BY DEF ConnectionInv, Told
<1> QED BY <1>2, <1>3, <1>4, <1>5, <1>6, <1>7, <1>8 DEF ConnectionInv

\* Connection.Close of the broker ends the stream with its reason.
LEMMA CloseFromBrokerKeeps ==
    ASSUME ConnectionInv, OnCloseFromBroker
    PROVE  ConnectionInv'
<1>1. /\ Arrives("Close", 0) /\ TerminateStream("broker")
      /\ UNCHANGED <<state, opened, blockedTimer, channels, outcome, toBroker>>
      BY DEF OnCloseFromBroker
<1>2. reading /\ reading' = reading /\ state # "CLOSED" /\ UNCHANGED lives
      BY <1>1, ArrivesWhileReading
<1>3. WireTypes' /\ OneOpening' /\ blockedTimer' \in BOOLEAN
      BY <1>1, ArrivesWires, ArrivesOpening
         DEF ConnectionInv, WireTypes, OneOpening, ConnectionTypes
<1> QED BY <1>1, <1>2, <1>3, TerminateKeeps DEF Reasons

\* Connection.CloseOk answers a Connection.Close, whose reason is there.
LEMMA CloseOkKeeps ==
    ASSUME ConnectionInv, OnCloseOk
    PROVE  ConnectionInv'
<1>1. /\ Arrives("CloseOk", 0) /\ TerminateStream("none")
      /\ UNCHANGED <<state, opened, blockedTimer, channels, outcome, toBroker>>
      BY DEF OnCloseOk
<1>2. reading /\ reading' = reading /\ state # "CLOSED" /\ UNCHANGED lives
      BY <1>1, ArrivesWhileReading
<1>3. WireTypes' /\ OneOpening' /\ blockedTimer' \in BOOLEAN
      BY <1>1, ArrivesWires, ArrivesOpening
         DEF ConnectionInv, WireTypes, OneOpening, ConnectionTypes
<1>4. Head(buffer) \in CloseOkFrame
  <2>1. Head(buffer) \in ClientFrames
        BY <1>1, ArrivesTakes DEF ConnectionInv
  <2> QED BY <1>1, <2>1, ConnectionFrame DEF Arrives, CloseOkFrame
<1>5. error # "none"
  <2>1. ~Free(buffer, CloseOkFrame)
        BY <1>1, <1>4, ArrivesTakes DEF ConnectionInv
  <2> QED BY <2>1 DEF ConnectionInv, ReasonKnown
<1> QED BY <1>1, <1>2, <1>3, <1>5, TerminateKeeps DEF Reasons

\* Connection.Blocked and Connection.Unblocked set and drop the timer of a
\* connection that has not ended.
LEMMA BlockedKeeps ==
    ASSUME ConnectionInv, OnBlocked
    PROVE  ConnectionInv'
<1>1. PICK type \in {"Blocked", "Unblocked"} : Arrives(type, 0) /\ blockedTimer' \in BOOLEAN
      BY DEF OnBlocked
<1>2. UNCHANGED <<state, opened, error, heartbeat, channels, transportVars, outcome, toBroker>>
      BY DEF OnBlocked
<1>3. /\ reading /\ reading' = reading /\ state # "CLOSED"
      /\ UNCHANGED <<lives, toClient>>
      BY <1>1, ArrivesWhileReading
<1>4. WireTypes' /\ OneOpening'
      BY <1>1, <1>2, ArrivesWires, ArrivesOpening DEF ConnectionInv, WireTypes, OneOpening
<1>5. Free(buffer, CloseOkFrame) => Free(buffer', CloseOkFrame)
      BY <1>1, ArrivesTakes DEF ConnectionInv
<1>6. ChannelTypes' /\ Used' = Used /\ CallbackRuns' = CallbackRuns
      BY <1>2, <1>3 DEF ConnectionInv, ChannelTypes, Used, CallbackRuns
<1>7. ConnectionTypes' /\ ~failed'
      BY <1>1, <1>2, <1>3 DEF ConnectionInv, ConnectionTypes, transportVars
<1>8. TransportShape'
      BY <1>2, <1>3 DEF ConnectionInv, TransportShape, transportVars
<1>9. ReasonKnown'
      BY <1>2, <1>3, <1>5 DEF ConnectionInv, ReasonKnown, HasReplyCode, transportVars
<1>10. Life'
      BY <1>2, <1>3, <1>6 DEF ConnectionInv, Life
<1>11. CloseIsLast'
      BY <1>2, <1>6 DEF ConnectionInv, CloseIsLast, NothingAfterClose
<1>12. Told'
      BY <1>2 DEF ConnectionInv, Told, Outcome
<1> QED BY <1>4, <1>6, <1>7, <1>8, <1>9, <1>10, <1>11, <1>12 DEF ConnectionInv

-----------------------------------------------------------------------------
(* The actions on frames of a channel.                                     *)

\* A channel changes its state and keeps its number.
LEMMA BecomesKeeps ==
    ASSUME ChannelTypes, NEW c \in Used, NEW status \in ChannelStates \ {"none"},
           Becomes(c, status), lives' = lives
    PROVE  ChannelTypes' /\ Used' = Used
<1>1. /\ channels' \in [Numbers -> [state: ChannelStates, life: 0..MaxLives]]
      /\ \A n \in Numbers : /\ channels'[n].life = channels[n].life
                            /\ n # c => channels'[n] = channels[n]
      /\ c \in Numbers /\ channels'[c].state = status /\ channels[c].state # "none"
      BY DEF ChannelTypes, Becomes, Used
<1>2. Used' = Used
      BY <1>1 DEF Used
<1> QED BY <1>1, <1>2 DEF ChannelTypes, Used

\* A channel that is there writes a frame of its own: no Connection.Close was sent.
LEMMA ChannelWrites ==
    ASSUME ConnectionInv, NEW t \in {"Open", "Close", "CloseOk"}, NEW c \in Numbers,
           NEW l \in 1..MaxLives, Send(<<ChannelFrame(t, c, l)>>)
    PROVE  /\ toBroker' \in Seq(BrokerFrames)
           /\ Free(toBroker, Openings) => Free(toBroker', Openings)
           /\ AtMostOne(toBroker', Openings)
           /\ Free(toBroker', CloseFrame) <=> Free(toBroker, CloseFrame)
<1>1. /\ <<ChannelFrame(t, c, l)>> \in Seq(BrokerFrames)
      /\ Free(<<ChannelFrame(t, c, l)>>, Openings)
      /\ Free(<<ChannelFrame(t, c, l)>>, CloseFrame)
      BY ChannelFrameSent
<1> QED BY <1>1, SendKeeps DEF ConnectionInv, OneOpening

\* A frame of a channel concerns that channel only.
LEMMA ChannelFrameKeeps ==
    ASSUME ConnectionInv, NEW type, NEW c, Arrives(type, c),
           UNCHANGED <<connVars, transportVars, outcome>>,
           ChannelTypes', Used' = Used, toBroker' \in Seq(BrokerFrames),
           Free(toBroker, Openings) => Free(toBroker', Openings),
           AtMostOne(toBroker', Openings),
           toBroker' = toBroker \/ (Used # {} /\ Free(toBroker', CloseFrame))
    PROVE  ConnectionInv'
<1>1. /\ reading /\ reading' = reading /\ state # "CLOSED"
      /\ UNCHANGED <<lives, toClient>>
      BY ArrivesWhileReading
<1>2. WireTypes' /\ OneOpening'
      BY ArrivesWires, ArrivesOpening DEF connVars
<1>3. Free(buffer, CloseOkFrame) => Free(buffer', CloseOkFrame)
      BY ArrivesTakes DEF ConnectionInv
<1>4. ConnectionTypes' /\ ~failed'
      BY <1>1 DEF ConnectionInv, ConnectionTypes, transportVars, connVars
<1>5. TransportShape'
      BY <1>1 DEF ConnectionInv, TransportShape, transportVars, connVars
<1>6. Free(toBroker, CloseFrame) => Free(toBroker', CloseFrame)
      OBVIOUS
<1>7. ReasonKnown'
      BY <1>1, <1>3, <1>6
         DEF ConnectionInv, ReasonKnown, HasReplyCode, transportVars, connVars
<1>8. Life'
      BY <1>1 DEF ConnectionInv, Life, connVars
<1>9. CloseIsLast'
  <2>1. CASE toBroker' = toBroker
        BY <2>1 DEF ConnectionInv, CloseIsLast, NothingAfterClose, connVars
  <2>2. CASE Free(toBroker', CloseFrame)
        BY <2>2, FreeIsLast DEF CloseIsLast, NothingAfterClose
  <2> QED BY <2>1, <2>2
<1>10. Told'
      BY DEF ConnectionInv, Told, Outcome, connVars
<1> QED BY <1>2, <1>4, <1>5, <1>7, <1>8, <1>9, <1>10 DEF ConnectionInv

\* The frames that open and close a channel that is there.
LEMMA ChannelAnswerKeeps ==
    ASSUME ConnectionInv, NEW c \in Numbers, NEW type, Arrives(type, c),
           channels[c].state # "none", UNCHANGED <<connVars, transportVars, outcome>>,
           \/ channels' = channels
           \/ \E status \in ChannelStates \ {"none"} : Becomes(c, status),
           \/ toBroker' = toBroker
           \/ \E t \in {"Close", "CloseOk"} : Send(<<ChannelFrame(t, c, channels[c].life)>>)
    PROVE  ConnectionInv'
<1>1. c \in Used /\ Used # {} /\ channels[c].life \in 1..MaxLives /\ lives' = lives
      BY ArrivesWhileReading DEF ConnectionInv, ChannelTypes, Used
<1>2. ChannelTypes' /\ Used' = Used
  <2>1. CASE channels' = channels
        BY <1>1, <2>1 DEF ConnectionInv, ChannelTypes, Used
  <2>2. ASSUME NEW status \in ChannelStates \ {"none"}, Becomes(c, status)
        PROVE  ChannelTypes' /\ Used' = Used
        BY <1>1, <2>2, BecomesKeeps DEF ConnectionInv
  <2> QED BY <2>1, <2>2
<1>3. Free(toBroker, CloseFrame)
      BY <1>1 DEF ConnectionInv, CloseIsLast
<1>4. /\ toBroker' \in Seq(BrokerFrames)
      /\ Free(toBroker, Openings) => Free(toBroker', Openings)
      /\ AtMostOne(toBroker', Openings) /\ Free(toBroker', CloseFrame)
  <2>1. CASE toBroker' = toBroker
        BY <1>3, <2>1 DEF ConnectionInv, WireTypes, OneOpening
  <2>2. ASSUME NEW t \in {"Close", "CloseOk"}, Send(<<ChannelFrame(t, c, channels[c].life)>>)
        PROVE  /\ toBroker' \in Seq(BrokerFrames)
               /\ Free(toBroker, Openings) => Free(toBroker', Openings)
               /\ AtMostOne(toBroker', Openings) /\ Free(toBroker', CloseFrame)
        BY <1>1, <1>3, <2>2, ChannelWrites
  <2> QED BY <2>1, <2>2
<1> QED BY <1>1, <1>2, <1>4, ChannelFrameKeeps

\* Channel.OpenOk, which sends the Close that waited for it.
LEMMA ChannelOpenOkKeeps ==
    ASSUME ConnectionInv, NEW c \in Numbers, OnChannelOpenOk(c)
    PROVE  ConnectionInv'
<1>1. Arrives("OpenOk", c) /\ channels[c].state # "none"
      BY DEF OnChannelOpenOk, ChannelArrives
<1>2. UNCHANGED <<connVars, transportVars, outcome>>
      BY DEF OnChannelOpenOk
<1>3. \E status \in ChannelStates \ {"none"} : Becomes(c, status)
      BY DEF OnChannelOpenOk, ChannelStates
<1>4. \/ toBroker' = toBroker
      \/ \E t \in {"Close", "CloseOk"} : Send(<<ChannelFrame(t, c, channels[c].life)>>)
      BY DEF OnChannelOpenOk
<1> QED BY <1>1, <1>2, <1>3, <1>4, ChannelAnswerKeeps

\* Channel.Close, which is answered.
LEMMA ChannelCloseKeeps ==
    ASSUME ConnectionInv, NEW c \in Numbers, OnChannelClose(c)
    PROVE  ConnectionInv'
<1>1. Arrives("Close", c) /\ channels[c].state # "none"
      BY DEF OnChannelClose, ChannelArrives
<1>2. UNCHANGED <<connVars, transportVars, outcome>>
      BY DEF OnChannelClose
<1>3. \/ channels' = channels
      \/ \E status \in ChannelStates \ {"none"} : Becomes(c, status)
      BY DEF OnChannelClose, ChannelStates
<1>4. \E t \in {"Close", "CloseOk"} : Send(<<ChannelFrame(t, c, channels[c].life)>>)
      BY DEF OnChannelClose
<1> QED BY <1>1, <1>2, <1>3, <1>4, ChannelAnswerKeeps

\* Channel.CloseOk.
LEMMA ChannelCloseOkKeeps ==
    ASSUME ConnectionInv, NEW c \in Numbers, OnChannelCloseOk(c)
    PROVE  ConnectionInv'
<1>1. Arrives("CloseOk", c) /\ channels[c].state # "none"
      BY DEF OnChannelCloseOk, ChannelArrives
<1>2. UNCHANGED <<connVars, transportVars, outcome, toBroker>>
      BY DEF OnChannelCloseOk
<1>3. \E status \in ChannelStates \ {"none"} : Becomes(c, status)
      BY DEF OnChannelCloseOk, ChannelStates
<1> QED BY <1>1, <1>2, <1>3, ChannelAnswerKeeps

\* A content, and a frame for a channel that is gone.
LEMMA OtherFrameKeeps ==
    ASSUME ConnectionInv, NEW c \in Numbers, OnOtherFrame(c)
    PROVE  ConnectionInv'
<1>1. PICK type : Arrives(type, c)
      BY DEF OnOtherFrame, ChannelArrives
<1>2. UNCHANGED <<connVars, channels, transportVars, outcome, toBroker>>
      BY DEF OnOtherFrame
<1>3. ChannelTypes' /\ Used' = Used
      BY <1>1, <1>2, ArrivesWhileReading DEF ConnectionInv, ChannelTypes, Used
<1>4. /\ toBroker' \in Seq(BrokerFrames) /\ AtMostOne(toBroker', Openings)
      /\ Free(toBroker, Openings) => Free(toBroker', Openings)
      BY <1>2 DEF ConnectionInv, WireTypes, OneOpening
<1> QED BY <1>1, <1>2, <1>3, <1>4, ChannelFrameKeeps

-----------------------------------------------------------------------------
(* What the connection and the application write.                          *)

\* Connection.Close is the last frame when it is the first of its kind.
LEMMA CloseIsSent ==
    ASSUME ConnectionInv, Free(toBroker, CloseFrame), Send(<<Frame("Close")>>)
    PROVE  /\ toBroker' \in Seq(BrokerFrames) /\ NothingAfterClose'
           /\ Free(toBroker, Openings) => Free(toBroker', Openings)
           /\ AtMostOne(toBroker', Openings)
<1> DEFINE f == Frame("Close")
           q == toBroker
<1>1. f \in BrokerFrames /\ f \notin Openings
      BY FramesTyped DEF Openings, Frame
<1>2. <<f>> \in Seq(BrokerFrames) /\ Free(<<f>>, Openings)
      BY <1>1, SingleFrame
<1>3. /\ toBroker' \in Seq(BrokerFrames)
      /\ Free(toBroker, Openings) => Free(toBroker', Openings)
      /\ AtMostOne(toBroker', Openings)
      BY <1>2, SendKeeps DEF ConnectionInv, OneOpening
<1>4. CASE transport = "ACTIVE"
  <2>1. q \in Seq(BrokerFrames) /\ Len(q) \in Nat /\ DOMAIN q = 1..Len(q)
        BY LenProperties DEF ConnectionInv, WireTypes
  <2>2. Len(<<f>>) = 1
        OBVIOUS
  <2> DEFINE j == q \o <<f>>
  <2>3. /\ j \in Seq(BrokerFrames) /\ Len(j) = Len(q) + Len(<<f>>)
        /\ \A i \in 1..Len(q) + Len(<<f>>) :
              j[i] = IF i <= Len(q) THEN q[i] ELSE <<f>>[i - Len(q)]
        BY <1>2, <2>1, ConcatProperties
  <2>4. DOMAIN j = 1..Len(j)
        BY <2>3, LenProperties
  <2>5. toBroker' = j
        BY <1>4 DEF Send
  <2> HIDE DEF j, f
  <2>6. ASSUME NEW i \in DOMAIN j, j[i] = Frame("Close")
        PROVE  i = Len(j)
    <3>1. CASE i <= Len(q)
      <4>1. i \in DOMAIN q /\ q[i] = Frame("Close")
            BY <2>1, <2>2, <2>3, <2>4, <2>6, <3>1
      <4> QED BY <4>1 DEF Free, CloseFrame
    <3>2. CASE ~(i <= Len(q))
          BY <2>1, <2>2, <2>3, <2>4, <3>2
    <3> QED BY <3>1, <3>2
  <2> QED BY <1>3, <2>5, <2>6 DEF NothingAfterClose
<1>5. CASE transport # "ACTIVE"
  <2>1. toBroker' = toBroker
        BY <1>5 DEF Send
  <2> QED BY <1>3, <2>1, FreeIsLast DEF NothingAfterClose
<1> QED BY <1>4, <1>5

\* What a call writes and changes of the channels, when the rest stays.
LEMMA ChannelCallKeeps ==
    ASSUME ConnectionInv, UNCHANGED <<connVars, transportVars, readVars, outcome, brokerVars>>,
           opened, state # "CLOSED", ChannelTypes', CallbackRuns' = CallbackRuns,
           Free(toBroker, CloseFrame), toBroker' \in Seq(BrokerFrames),
           Free(toBroker, Openings) => Free(toBroker', Openings),
           AtMostOne(toBroker', Openings), Free(toBroker', CloseFrame)
    PROVE  ConnectionInv'
<1>1. ConnectionTypes' /\ ~failed'
      BY DEF ConnectionInv, ConnectionTypes, connVars, transportVars, readVars
<1>2. WireTypes'
      BY DEF ConnectionInv, WireTypes, readVars, brokerVars
<1>3. OneOpening'
      BY DEF ConnectionInv, OneOpening, connVars, readVars, brokerVars
<1>4. TransportShape'
      BY DEF ConnectionInv, TransportShape, connVars, transportVars, readVars
<1>5. ReasonKnown'
      BY DEF ConnectionInv, ReasonKnown, HasReplyCode, connVars, transportVars, readVars,
             brokerVars
<1>6. Life'
      BY DEF ConnectionInv, Life, connVars, readVars
<1>7. CloseIsLast'
      BY FreeIsLast DEF CloseIsLast, NothingAfterClose
<1>8. Told'
      BY DEF ConnectionInv, Told, Outcome, connVars
<1> QED BY <1>1, <1>2, <1>3, <1>4, <1>5, <1>6, <1>7, <1>8 DEF ConnectionInv

\* The number channel() takes is free.
LEMMA FreeNumber ==
    ASSUME Used # Numbers
    PROVE  (CHOOSE n \in Numbers \ Used : \A m \in 1..n - 1 : m \in Used) \in Numbers \ Used
<1>1. Numbers \ Used # {} /\ Numbers \ Used \in SUBSET Numbers
      BY DEF Used
<1>2. \E n \in Numbers \ Used : \A m \in 1..n - 1 : m \notin Numbers \ Used
      BY <1>1, LowestNumber
<1>3. \A n \in Numbers : \A m \in 1..n - 1 : m \in Numbers
      BY BoundsAssumption DEF Numbers
<1>4. \E n \in Numbers \ Used : \A m \in 1..n - 1 : m \in Used
      BY <1>2, <1>3
<1> QED BY <1>4

\* channel() takes a free number on an open connection.
LEMMA OpenChannelKeeps ==
    ASSUME ConnectionInv, OpenChannel
    PROVE  ConnectionInv'
<1> DEFINE c == CHOOSE n \in Numbers \ Used : \A m \in 1..n - 1 : m \in Used
           l == lives + 1
<1>1. /\ state = "OPEN" /\ lives < MaxLives /\ Used # Numbers /\ lives' = l
      /\ channels' = [channels EXCEPT ![c] = [state |-> "OPENING", life |-> l]]
      /\ Send(<<ChannelFrame("Open", c, l)>>)
      /\ UNCHANGED <<connVars, transportVars, readVars, outcome, brokerVars>>
      BY DEF OpenChannel
<1>2. c \in Numbers \ Used
      BY <1>1, FreeNumber
<1>3. l \in 1..MaxLives /\ l \in 0..MaxLives /\ l # 0
      BY <1>1, BoundsAssumption DEF ConnectionInv, ChannelTypes
<1> HIDE DEF c, l
<1>4. /\ channels' \in [Numbers -> [state: ChannelStates, life: 0..MaxLives]]
      /\ \A n \in Numbers \ {c} : channels'[n] = channels[n]
      /\ channels'[c] = [state |-> "OPENING", life |-> l]
      BY <1>1, <1>2, <1>3 DEF ConnectionInv, ChannelTypes, ChannelStates
<1>5. ChannelTypes'
      BY <1>1, <1>3, <1>4 DEF ConnectionInv, ChannelTypes, Used
<1>6. CallbackRuns' = CallbackRuns
  <2>1. channels[c].state = "none"
        BY <1>2 DEF Used
  <2> QED BY <1>2, <1>4, <2>1 DEF CallbackRuns
<1>7. opened /\ Free(toBroker, CloseFrame)
      BY <1>1 DEF ConnectionInv, Life, CloseIsLast
<1>8. /\ toBroker' \in Seq(BrokerFrames) /\ AtMostOne(toBroker', Openings)
      /\ Free(toBroker, Openings) => Free(toBroker', Openings)
      /\ Free(toBroker', CloseFrame)
      BY <1>1, <1>2, <1>3, <1>7, ChannelWrites
<1> QED BY <1>1, <1>5, <1>6, <1>7, <1>8, ChannelCallKeeps

\* Channel.close() of a channel that is there.
LEMMA CloseChannelKeeps ==
    ASSUME ConnectionInv, NEW c \in Numbers, CloseChannel(c)
    PROVE  ConnectionInv'
<1>1. /\ channels[c].state \in {"OPENING", "OPEN"} /\ lives' = lives
      /\ Becomes(c, Closing(channels[c].state))
      /\ Send(IF c \in OpenOnes THEN <<ChannelFrame("Close", c, channels[c].life)>> ELSE <<>>)
      /\ UNCHANGED <<connVars, transportVars, readVars, outcome, brokerVars>>
      BY DEF CloseChannel
<1>2. c \in Used /\ channels[c].life \in 1..MaxLives
      BY <1>1 DEF ConnectionInv, ChannelTypes, Used
<1>3. Closing(channels[c].state) \in {"BLOCKED", "CLOSING"}
      BY <1>1 DEF Closing
<1>4. ChannelTypes' /\ Used' = Used
  <2>1. {"BLOCKED", "CLOSING"} \subseteq ChannelStates \ {"none"}
        BY DEF ChannelStates
  <2> QED BY <1>1, <1>2, <1>3, <2>1, BecomesKeeps DEF ConnectionInv
<1>5. CallbackRuns' = CallbackRuns
  <2>1. /\ \A n \in Numbers \ {c} : channels'[n] = channels[n]
        /\ channels'[c].state \in {"BLOCKED", "CLOSING"}
        BY <1>1, <1>3 DEF Becomes, ConnectionInv, ChannelTypes
  <2> QED BY <1>1, <2>1 DEF CallbackRuns
<1>6. /\ opened /\ state # "CLOSED" /\ Free(toBroker, CloseFrame)
      BY <1>2 DEF ConnectionInv, Life, CloseIsLast
<1>7. /\ toBroker' \in Seq(BrokerFrames) /\ AtMostOne(toBroker', Openings)
      /\ Free(toBroker, Openings) => Free(toBroker', Openings)
      /\ Free(toBroker', CloseFrame)
  <2>1. CASE c \in OpenOnes
        BY <1>1, <1>2, <1>6, <2>1, ChannelWrites
  <2>2. CASE c \notin OpenOnes
    <3>1. <<>> \in Seq(BrokerFrames) /\ Free(<<>>, Openings) /\ Free(<<>>, CloseFrame)
          BY EmptySeq, EmptyStream
    <3> QED BY <1>1, <1>6, <2>2, <3>1, SendKeeps DEF ConnectionInv, OneOpening
  <2> QED BY <2>1, <2>2
<1> QED BY <1>1, <1>4, <1>5, <1>6, <1>7, ChannelCallKeeps

\* The close callback of a channel has returned: a connection that is closing
\* goes on with Connection.Close after the last one, and has its reply code.
LEMMA ChannelCleanupKeeps ==
    ASSUME ConnectionInv, NEW c \in Numbers, OnChannelCleanup(c)
    PROVE  ConnectionInv'
<1>1. /\ channels[c].state = "CLOSED" /\ channels' = [channels EXCEPT ![c] = NoChannel]
      /\ UNCHANGED <<connVars, lives, transport, notifies, gotEof, readVars, outcome,
                     brokerVars>>
      BY DEF OnChannelCleanup
<1>2. c \in Used /\ CallbackRuns
      BY <1>1 DEF Used, CallbackRuns
<1>3. opened /\ reading /\ Free(toBroker, CloseFrame) /\ state # "CLOSED"
      BY <1>2 DEF ConnectionInv, Life, CloseIsLast
<1>4. /\ channels' \in [Numbers -> [state: ChannelStates, life: 0..MaxLives]]
      /\ \A n \in Numbers \ {c} : channels'[n] = channels[n]
      /\ channels'[c].state = "none"
      BY <1>1, BoundsAssumption DEF ConnectionInv, ChannelTypes, NoChannel, ChannelStates
<1>5. Used' = Used \ {c}
      BY <1>4 DEF Used
<1>6. ChannelTypes'
      BY <1>1, <1>4, <1>5 DEF ConnectionInv, ChannelTypes
<1>7. /\ ~failed' /\ failed' \in BOOLEAN
      /\ toBroker' \in Seq(BrokerFrames) /\ AtMostOne(toBroker', Openings)
      /\ Free(toBroker, Openings) => Free(toBroker', Openings)
      /\ CloseIsLast'
      /\ Free(toBroker', CloseFrame) \/ error # "none"
  <2>1. CASE state = "CLOSING" /\ Used = {c}
    <3>1. HasReplyCode
          BY <1>3, <2>1 DEF ConnectionInv, ReasonKnown
    <3>2. failed' = FALSE /\ Send(<<Frame("Close")>>)
          BY <2>1, <3>1 DEF OnChannelCleanup, ConnectionInv
    <3>3. Used' = {} /\ state' = "CLOSING" /\ opened'
          BY <1>1, <1>3, <1>5, <2>1 DEF connVars
    <3>4. error # "none"
          BY <3>1 DEF HasReplyCode
    <3> QED BY <1>3, <3>2, <3>3, <3>4, CloseIsSent DEF CloseIsLast
  <2>2. CASE ~(state = "CLOSING" /\ Used = {c})
    <3>1. failed' = failed /\ toBroker' = toBroker
          BY <2>2 DEF OnChannelCleanup
    <3> QED BY <1>3, <3>1, FreeIsLast
            DEF ConnectionInv, ConnectionTypes, WireTypes, OneOpening, CloseIsLast,
                NothingAfterClose
  <2> QED BY <2>1, <2>2
<1>8. ConnectionTypes'
      BY <1>1, <1>7 DEF ConnectionInv, ConnectionTypes, connVars, readVars
<1>9. WireTypes'
      BY <1>1, <1>7 DEF ConnectionInv, WireTypes, readVars, brokerVars
<1>10. OneOpening'
      BY <1>1, <1>7 DEF ConnectionInv, OneOpening, connVars, readVars, brokerVars
<1>11. TransportShape'
      BY <1>1 DEF ConnectionInv, TransportShape, connVars, readVars
<1>12. ReasonKnown'
      BY <1>1, <1>7
         DEF ConnectionInv, ReasonKnown, HasReplyCode, connVars, readVars, brokerVars
<1>13. Life'
      BY <1>1, <1>3 DEF ConnectionInv, Life, connVars, readVars
<1>14. Told'
      BY <1>1 DEF ConnectionInv, Told, Outcome, connVars
<1> QED BY <1>6, <1>7, <1>8, <1>9, <1>10, <1>11, <1>12, <1>13, <1>14 DEF ConnectionInv

\* close() of an open connection: the Close of each open channel, or of the
\* connection when it has none.
LEMMA CloseWrites ==
    ASSUME ConnectionInv, Free(toBroker, CloseFrame),
           LET open == SetToSeq(OpenOnes)
           IN Send(IF Used = {} THEN <<Frame("Close")>>
                   ELSE [i \in DOMAIN open |->
                            ChannelFrame("Close", open[i], channels[open[i]].life)])
    PROVE  /\ toBroker' \in Seq(BrokerFrames) /\ NothingAfterClose'
           /\ Free(toBroker, Openings) => Free(toBroker', Openings)
           /\ AtMostOne(toBroker', Openings)
           /\ Used # {} => Free(toBroker', CloseFrame)
<1>1. CASE Used = {}
      BY <1>1, CloseIsSent
<1>2. CASE Used # {}
  <2> DEFINE open == SetToSeq(OpenOnes)
             frames == [i \in DOMAIN open |->
                           ChannelFrame("Close", open[i], channels[open[i]].life)]
  <2>1. OpenOnes \in SUBSET Numbers /\ OpenOnes \subseteq Used
        BY DEF OpenOnes, Used
  <2>2. open \in Seq(OpenOnes)
        BY <2>1, NumbersInOrder
  <2>3. Len(open) \in Nat /\ DOMAIN open = 1..Len(open) /\ open \in [1..Len(open) -> OpenOnes]
        BY <2>2, LenProperties
  <2> HIDE DEF open
  <2>4. \A i \in DOMAIN open : /\ open[i] \in Numbers
                               /\ channels[open[i]].life \in 1..MaxLives
        BY <2>1, <2>3, BoundsAssumption DEF ConnectionInv, ChannelTypes, Used
  <2>5. \A i \in DOMAIN open :
           /\ ChannelFrame("Close", open[i], channels[open[i]].life) \in BrokerFrames
           /\ ChannelFrame("Close", open[i], channels[open[i]].life)
                 \notin Openings \cup CloseFrame
        BY <2>4, FramesTyped, ChannelFramesApart
  <2>6. frames \in [1..Len(open) -> BrokerFrames]
        BY <2>3, <2>5
  <2>7. frames \in Seq(BrokerFrames)
        BY <2>3, <2>6, SeqDef
  <2>8. Free(frames, Openings) /\ Free(frames, CloseFrame)
        BY <2>5 DEF Free
  <2>9. Send(frames)
        BY <1>2 DEF open
  <2> HIDE DEF frames
  <2>10. /\ toBroker' \in Seq(BrokerFrames) /\ Free(toBroker', CloseFrame)
         /\ Free(toBroker, Openings) => Free(toBroker', Openings)
         /\ AtMostOne(toBroker', Openings)
         BY <2>7, <2>8, <2>9, SendKeeps DEF ConnectionInv, OneOpening
  <2> QED BY <1>2, <2>10, FreeIsLast DEF NothingAfterClose
<1> QED BY <1>1, <1>2

\* close() asks every channel to close.
LEMMA CloseChannels ==
    ASSUME ChannelTypes, lives' = lives,
           channels' = [c \in Numbers |-> [channels[c] EXCEPT !.state = Closing(@)]]
    PROVE  ChannelTypes' /\ Used' = Used /\ CallbackRuns' = CallbackRuns
<1>1. \A s \in ChannelStates :
         /\ Closing(s) \in ChannelStates /\ (Closing(s) = "none" <=> s = "none")
         /\ Closing(s) = "CLOSED" <=> s = "CLOSED"
      BY DEF Closing, ChannelStates
<1>2. \A c \in Numbers : /\ channels[c] \in [state: ChannelStates, life: 0..MaxLives]
                         /\ channels'[c] = [channels[c] EXCEPT !.state = Closing(@)]
      BY DEF ChannelTypes
<1>3. \A c \in Numbers : /\ channels'[c] \in [state: ChannelStates, life: 0..MaxLives]
                         /\ channels'[c].state = Closing(channels[c].state)
                         /\ channels'[c].life = channels[c].life
      BY <1>1, <1>2
<1>4. channels' \in [Numbers -> [state: ChannelStates, life: 0..MaxLives]]
      BY <1>3
<1>5. \A c \in Numbers : channels[c].state \in ChannelStates
      BY <1>2
<1>6. Used' = Used
      BY <1>1, <1>3, <1>5 DEF Used
<1>7. CallbackRuns' = CallbackRuns
  <2>1. \A c \in Numbers : channels'[c].state = "CLOSED" <=> channels[c].state = "CLOSED"
        BY <1>1, <1>3, <1>5
  <2> QED BY <2>1 DEF CallbackRuns
<1> QED BY <1>3, <1>4, <1>6, <1>7 DEF ChannelTypes, Used

\* close() at any time before the end.
LEMMA CloseKeeps ==
    ASSUME ConnectionInv, Close
    PROVE  ConnectionInv'
<1>1. /\ Calling /\ state \notin {"CLOSING", "CLOSED"} /\ state' = "CLOSING" /\ lives' = lives
      /\ channels' = [c \in Numbers |-> [channels[c] EXCEPT !.state = Closing(@)]]
      /\ UNCHANGED <<opened, blockedTimer, lives, readVars, outcome, brokerVars>>
      BY DEF Close
<1>2. ChannelTypes' /\ Used' = Used /\ CallbackRuns' = CallbackRuns
      BY <1>1, CloseChannels DEF ConnectionInv
<1>3. Free(toBroker, CloseFrame) /\ transport # "COMPLETED"
      BY <1>1 DEF ConnectionInv, CloseIsLast, TransportShape
<1>4. Life'
      BY <1>1, <1>2 DEF ConnectionInv, Life, readVars
<1>5. Told'
      BY <1>1 DEF ConnectionInv, Told
<1>6. CASE ~opened /\ TerminateStream("aborted") /\ UNCHANGED toBroker
  <2>1. ~reading /\ (~reading => buffer' = <<>>) /\ reading' = reading
        BY <1>1, <1>6 DEF Calling, ConnectionInv, TransportShape, readVars
  <2>2. /\ failed' = FALSE /\ error' = "aborted" /\ heartbeat' = FALSE
        /\ gotEof' = gotEof /\ transport' = "ABORTED" /\ TransportShape'
        BY <1>1, <1>3, <1>6, <2>1, TerminateAborts DEF Reasons
  <2>3. ConnectionTypes'
        BY <1>1, <2>1, <2>2 DEF ConnectionInv, ConnectionTypes, Reasons
  <2>4. WireTypes'
        BY <1>1, <1>6 DEF ConnectionInv, WireTypes, readVars, brokerVars
  <2>5. OneOpening'
        BY <1>1, <1>6 DEF ConnectionInv, OneOpening, readVars, brokerVars
  <2>6. ReasonKnown'
        BY <1>1, <1>6, <2>2 DEF ReasonKnown
  <2>7. CloseIsLast'
        BY <1>3, <1>6, FreeIsLast DEF CloseIsLast, NothingAfterClose
  <2> QED BY <1>2, <1>4, <1>5, <2>2, <2>3, <2>4, <2>5, <2>6, <2>7 DEF ConnectionInv
<1>7. CASE /\ opened /\ error' = "client"
           /\ LET open == SetToSeq(OpenOnes)
              IN Send(IF Used = {} THEN <<Frame("Close")>>
                      ELSE [i \in DOMAIN open |->
                               ChannelFrame("Close", open[i], channels[open[i]].life)])
           /\ UNCHANGED <<heartbeat, transportVars>>
  <2>1. /\ toBroker' \in Seq(BrokerFrames) /\ NothingAfterClose'
        /\ Free(toBroker, Openings) => Free(toBroker', Openings)
        /\ AtMostOne(toBroker', Openings)
        /\ Used # {} => Free(toBroker', CloseFrame)
        BY <1>3, <1>7, CloseWrites
  <2>2. ConnectionTypes' /\ ~failed'
        BY <1>1, <1>7
           DEF ConnectionInv, ConnectionTypes, Reasons, transportVars, readVars
  <2>3. WireTypes'
        BY <1>1, <2>1 DEF ConnectionInv, WireTypes, readVars, brokerVars
  <2>4. OneOpening'
        BY <1>1, <2>1 DEF ConnectionInv, OneOpening, readVars, brokerVars
  <2>5. TransportShape'
        BY <1>1, <1>7 DEF ConnectionInv, TransportShape, transportVars, readVars
  <2>6. ReasonKnown'
        BY <1>1, <1>7 DEF ConnectionInv, ReasonKnown, HasReplyCode, transportVars
  <2>7. CloseIsLast'
        BY <1>1, <1>2, <1>7, <2>1 DEF CloseIsLast
  <2> QED BY <1>2, <1>4, <1>5, <2>2, <2>3, <2>4, <2>5, <2>6, <2>7 DEF ConnectionInv
<1> QED BY <1>6, <1>7 DEF Close

\* The timers of a connection that has not ended.
LEMMA TimerKeeps ==
    ASSUME ConnectionInv, BlockedTimeout \/ HeartbeatTimeout
    PROVE  ConnectionInv'
<1>1. PICK reason \in {"blocked", "heartbeat"} : TerminateStream(reason)
      BY DEF BlockedTimeout, HeartbeatTimeout
<1>2. /\ blockedTimer \/ heartbeat
      /\ ~reading
      /\ blockedTimer' = FALSE \/ blockedTimer' = blockedTimer
      /\ UNCHANGED <<state, opened, channelVars, readVars, outcome, toBroker, brokerVars>>
      BY DEF BlockedTimeout, HeartbeatTimeout
<1>3. state # "CLOSED" /\ blockedTimer' \in BOOLEAN
      BY <1>2 DEF ConnectionInv, Life, ConnectionTypes
<1>4. /\ ~reading /\ UNCHANGED <<channels, lives, reading>>
      /\ ~reading => buffer' = <<>>
      BY <1>2 DEF BlockedTimeout, HeartbeatTimeout, ConnectionInv, TransportShape,
                  channelVars, readVars
<1>5. WireTypes' /\ OneOpening'
      BY <1>2 DEF ConnectionInv, WireTypes, OneOpening, readVars, brokerVars
<1> QED BY <1>1, <1>2, <1>3, <1>4, <1>5, TerminateKeeps DEF Reasons

-----------------------------------------------------------------------------
(* The stream.                                                             *)

\* One recv() moves what has arrived into the buffer.
LEMMA ReceiveKeeps ==
    ASSUME ConnectionInv, Receive
    PROVE  ConnectionInv'
<1>1. PICK n \in 1..Len(toClient) :
         buffer' = SubSeq(toClient, 1, n) /\ toClient' = SubSeq(toClient, n + 1, Len(toClient))
      BY DEF Receive
<1>2. /\ transport = "ACTIVE" /\ ~reading /\ reading' = TRUE
      /\ UNCHANGED <<connVars, channelVars, transportVars, outcome, toBroker, broker,
                     brokerChannels, contents, blocks>>
      BY DEF Receive
<1>3. buffer = <<>> /\ toClient \in Seq(ClientFrames) /\ state # "CLOSED"
      BY <1>2 DEF ConnectionInv, TransportShape, WireTypes
<1>4. \A S : /\ buffer' \in Seq(ClientFrames) /\ toClient' \in Seq(ClientFrames)
             /\ Free(toClient, S) => Free(buffer', S) /\ Free(toClient', S)
             /\ AtMostOne(toClient, S) => /\ AtMostOne(buffer', S) /\ AtMostOne(toClient', S)
                                          /\ Free(buffer', S) \/ Free(toClient', S)
      BY <1>1, <1>3, CutStream
<1>5. Free(buffer, Openings) /\ Free(buffer, CloseOkFrame)
      BY <1>3, EmptyStream
<1>6. ConnectionTypes' /\ ~failed'
      BY <1>2 DEF ConnectionInv, ConnectionTypes, connVars, transportVars
<1>7. ChannelTypes' /\ Used' = Used
      BY <1>2 DEF ConnectionInv, ChannelTypes, Used, channelVars
<1>8. WireTypes'
      BY <1>2, <1>4 DEF ConnectionInv, WireTypes
<1>9. OneOpening'
  <2>1. /\ Free(toClient, Openings) => Free(buffer', Openings) /\ Free(toClient', Openings)
        /\ AtMostOne(buffer', Openings) /\ AtMostOne(toClient', Openings)
        /\ Free(buffer', Openings) \/ Free(toClient', Openings)
        BY <1>4 DEF ConnectionInv, OneOpening
  <2> QED BY <1>2, <2>1 DEF ConnectionInv, OneOpening, connVars
<1>10. TransportShape'
      BY <1>2 DEF ConnectionInv, TransportShape, connVars, transportVars
<1>11. ReasonKnown'
  <2>1. Free(toClient, CloseOkFrame) => /\ Free(buffer', CloseOkFrame)
                                        /\ Free(toClient', CloseOkFrame)
        BY <1>4
  <2> QED BY <1>2, <2>1 DEF ConnectionInv, ReasonKnown, HasReplyCode, connVars, transportVars
<1>12. Life'
      BY <1>2, <1>3, <1>7 DEF ConnectionInv, Life, connVars
<1>13. CloseIsLast'
      BY <1>2, <1>7 DEF ConnectionInv, CloseIsLast, NothingAfterClose, connVars
<1>14. Told'
      BY <1>2 DEF ConnectionInv, Told, Outcome, connVars
<1> QED BY <1>6, <1>7, <1>8, <1>9, <1>10, <1>11, <1>12, <1>13, <1>14 DEF ConnectionInv

\* data_received returns.
LEMMA EndOfDataKeeps ==
    ASSUME ConnectionInv, EndOfData
    PROVE  ConnectionInv'
<1>1. /\ reading /\ buffer = <<>> /\ ~CallbackRuns /\ reading' = FALSE
      /\ UNCHANGED <<connVars, channelVars, transportVars, buffer, outcome, toBroker, brokerVars>>
      BY DEF EndOfData
<1>2. ConnectionTypes' /\ ~failed'
      BY <1>1 DEF ConnectionInv, ConnectionTypes, connVars, transportVars
<1>3. ChannelTypes' /\ Used' = Used /\ CallbackRuns' = CallbackRuns
      BY <1>1 DEF ConnectionInv, ChannelTypes, Used, CallbackRuns, channelVars
<1>4. WireTypes'
      BY <1>1 DEF ConnectionInv, WireTypes, brokerVars
<1>5. OneOpening'
      BY <1>1 DEF ConnectionInv, OneOpening, connVars, brokerVars
<1>6. TransportShape'
      BY <1>1 DEF ConnectionInv, TransportShape, connVars, transportVars
<1>7. ReasonKnown'
      BY <1>1 DEF ConnectionInv, ReasonKnown, HasReplyCode, connVars, transportVars, brokerVars
<1>8. Life'
      BY <1>1, <1>3 DEF ConnectionInv, Life, connVars
<1>9. CloseIsLast'
      BY <1>1, <1>3 DEF ConnectionInv, CloseIsLast, NothingAfterClose, connVars
<1>10. Told'
      BY <1>1 DEF ConnectionInv, Told, Outcome, connVars
<1> QED BY <1>2, <1>3, <1>4, <1>5, <1>6, <1>7, <1>8, <1>9, <1>10 DEF ConnectionInv

\* An error or the end of the stream aborts it, when it is not on its way down.
LEMMA StreamEndKeeps ==
    ASSUME ConnectionInv, NEW cause \in {"none", "error"}, InitiateAbort(cause, TRUE),
           UNCHANGED <<connVars, channelVars, outcome, toBroker, brokerVars>>,
           transport \in {"ACTIVE", "ABORTED"}, ~reading', buffer' = <<>>,
           ~CallbackRuns, reading' \in BOOLEAN,
           IF cause = "none" THEN transport = "ACTIVE" /\ gotEof' = TRUE ELSE gotEof' = gotEof
    PROVE  ConnectionInv'
<1>1. failed' = FALSE
      BY DEF InitiateAbort, ConnectionInv
<1>2. /\ transport = "ACTIVE" => /\ notifies' = <<cause>>
                                 /\ transport' = IF cause = "none" THEN "ABORTED" ELSE "FAILED"
      /\ transport = "ABORTED" => UNCHANGED <<transport, notifies>>
  <2>1. transport = "ACTIVE" => notifies = <<>>
        BY DEF ConnectionInv, TransportShape
  <2>2. Append(<<>>, cause) = <<cause>>
        OBVIOUS
  <2> QED BY <2>1, <2>2 DEF InitiateAbort
<1>3. ConnectionTypes'
      BY <1>1, <1>2 DEF ConnectionInv, ConnectionTypes, connVars
<1>4. ChannelTypes' /\ Used' = Used /\ CallbackRuns' = CallbackRuns
      BY DEF ConnectionInv, ChannelTypes, Used, CallbackRuns, channelVars
<1>5. Free(buffer', Openings) /\ Free(buffer', CloseOkFrame) /\ AtMostOne(buffer', Openings)
      /\ buffer' \in Seq(ClientFrames)
      BY EmptyStream, EmptySeq
<1>6. WireTypes'
      BY <1>5 DEF ConnectionInv, WireTypes, brokerVars
<1>7. OneOpening'
      BY <1>5 DEF ConnectionInv, OneOpening, connVars, brokerVars
<1>8. TransportShape'
      BY <1>2 DEF ConnectionInv, TransportShape, connVars
<1>9. ReasonKnown'
      BY <1>2, <1>5 DEF ConnectionInv, ReasonKnown, connVars, brokerVars
<1>10. Life'
      BY <1>4 DEF ConnectionInv, Life, connVars
<1>11. CloseIsLast'
      BY <1>4 DEF ConnectionInv, CloseIsLast, NothingAfterClose, connVars
<1>12. Told'
      BY DEF ConnectionInv, Told, Outcome, connVars
<1> QED BY <1>1, <1>3, <1>4, <1>6, <1>7, <1>8, <1>9, <1>10, <1>11, <1>12 DEF ConnectionInv

\* An exception out of data_received, the end of the data, and a socket error.
LEMMA FailureKeeps ==
    ASSUME ConnectionInv, DataRaises \/ Eof \/ SocketError
    PROVE  ConnectionInv'
<1>1. ~reading => buffer = <<>> /\ ~CallbackRuns
      BY DEF ConnectionInv, TransportShape, Life
<1>2. CASE DataRaises
  <2>1. /\ InitiateAbort("error", TRUE) /\ reading' = FALSE /\ buffer' = <<>>
        /\ UNCHANGED <<connVars, channelVars, gotEof, outcome, toBroker, brokerVars>>
        /\ ~CallbackRuns /\ reading
        BY <1>2 DEF DataRaises
  <2>2. transport \in {"ACTIVE", "ABORTED"}
        BY <2>1 DEF ConnectionInv, TransportShape
  <2> QED BY <2>1, <2>2, StreamEndKeeps
<1>3. CASE Eof
  <2>1. /\ InitiateAbort("none", TRUE) /\ gotEof' = TRUE /\ ~reading /\ transport = "ACTIVE"
        /\ UNCHANGED <<connVars, channelVars, outcome, toBroker, brokerVars>>
        /\ reading' = reading /\ buffer' = buffer
        BY <1>3 DEF Eof, readVars
  <2>2. ~reading' /\ reading' \in BOOLEAN
        BY <2>1 DEF ConnectionInv, ConnectionTypes
  <2> QED BY <1>1, <2>1, <2>2, StreamEndKeeps
<1>4. CASE SocketError
  <2>1. /\ InitiateAbort("error", TRUE) /\ gotEof' = gotEof /\ ~reading
        /\ transport = "ACTIVE"
        /\ UNCHANGED <<connVars, channelVars, outcome, toBroker, brokerVars>>
        /\ reading' = reading /\ buffer' = buffer
        BY <1>4 DEF SocketError, readVars
  <2>2. ~reading' /\ reading' \in BOOLEAN
        BY <2>1 DEF ConnectionInv, ConnectionTypes
  <2> QED BY <1>1, <2>1, <2>2, StreamEndKeeps
<1> QED BY <1>2, <1>3, <1>4

\* The report of the loss ends the connection, once and with its reason; what was
\* on the stream is lost.
LEMMA NotifyKeeps ==
    ASSUME ConnectionInv, Notify
    PROVE  ConnectionInv'
<1> DEFINE cause == Head(notifies)
           reason == IF cause = "error" \/ gotEof THEN "lost" ELSE error
<1>1. /\ notifies # <<>> /\ ~reading /\ notifies' = Tail(notifies) /\ CloseSocket
      /\ UNCHANGED <<lives, gotEof, readVars, contents, blocks>>
      BY DEF Notify
<1>2. transport \in {"ABORTED", "FAILED"} /\ state # "CLOSED" /\ buffer = <<>>
      BY <1>1 DEF ConnectionInv, ConnectionTypes, TransportShape
<1>3. /\ toBroker' = <<>> /\ toClient' = <<>> /\ broker' = "gone"
      /\ brokerChannels' = [c \in Numbers |-> NoChannel]
      /\ reading' = reading /\ buffer' = <<>>
      BY <1>1, <1>2 DEF CloseSocket, readVars
<1>4. WireTypes'
  <2>1. <<>> \in Seq(BrokerFrames) /\ <<>> \in Seq(ClientFrames)
        BY EmptySeq
  <2>2. brokerChannels' \in [Numbers -> [state: {"none", "open", "closing"}, life: 0..MaxLives]]
        BY <1>3, BoundsAssumption DEF NoChannel
  <2>3. \A c \in Numbers : brokerChannels'[c].state = "none"
        BY <1>3 DEF NoChannel
  <2> QED BY <1>1, <1>3, <2>1, <2>2, <2>3 DEF ConnectionInv, WireTypes
<1>5. /\ Free(toBroker', Openings) /\ AtMostOne(toBroker', Openings)
      /\ Free(toClient', Openings) /\ AtMostOne(toClient', Openings)
      /\ Free(buffer', Openings) /\ AtMostOne(buffer', Openings)
      /\ Free(toBroker', CloseFrame)
      /\ Free(toClient', CloseOkFrame) /\ Free(buffer', CloseOkFrame)
      BY <1>3, EmptyStream
<1>6. OneOpening'
      BY <1>5 DEF OneOpening
<1>7. CloseIsLast'
      BY <1>5, FreeIsLast DEF CloseIsLast, NothingAfterClose
<1>8. CASE Dropped(cause)
  <2>1. UNCHANGED <<connVars, channels, transport, failed, outcome>>
        BY <1>8 DEF Notify
  <2>2. /\ transport = "ABORTED" /\ notifies = <<"error", "none">>
    <3>1. cause = "error" /\ transport # "FAILED"
          BY <1>2, <1>8 DEF Dropped
    <3>2. notifies \in {<<"none">>, <<"error", "none">>}
          BY <1>2, <3>1 DEF ConnectionInv, TransportShape
    <3> QED BY <1>2, <3>1, <3>2
  <2>3. notifies' = <<"none">>
        BY <1>1, <2>2
  <2>4. ConnectionTypes' /\ ~failed'
        BY <1>1, <1>3, <2>1 DEF ConnectionInv, ConnectionTypes, connVars
  <2>5. ChannelTypes' /\ Used' = Used /\ CallbackRuns' = CallbackRuns
        BY <1>1, <2>1 DEF ConnectionInv, ChannelTypes, Used, CallbackRuns
  <2>6. TransportShape'
        BY <1>3, <2>1, <2>2, <2>3 DEF ConnectionInv, TransportShape, connVars
  <2>7. ReasonKnown'
        BY <1>1, <1>3, <1>5, <2>1, <2>2 DEF ConnectionInv, ReasonKnown, connVars
  <2>8. Life'
        BY <1>3, <2>1, <2>5 DEF ConnectionInv, Life, connVars
  <2>9. Told'
        BY <2>1 DEF ConnectionInv, Told, Outcome, connVars
  <2> QED BY <1>4, <1>6, <1>7, <2>4, <2>5, <2>6, <2>7, <2>8, <2>9 DEF ConnectionInv
<1>9. CASE ~Dropped(cause)
  <2>1. /\ OnStreamTerminated(cause) /\ UNCHANGED opened /\ transport' = "COMPLETED"
        BY <1>9 DEF Notify
  <2>2. /\ failed' = (failed \/ reason = "none")
        /\ state' = "CLOSED" /\ heartbeat' = FALSE /\ blockedTimer' = FALSE
        /\ channels' = [c \in Numbers |-> NoChannel]
        /\ outcome' = Append(outcome, Outcome(reason)) /\ error' = "none"
        BY <2>1 DEF OnStreamTerminated
  <2>3. /\ transport = "FAILED" => notifies = <<"error">>
        /\ transport = "ABORTED" => notifies = <<"none">>
    <3>1. cause = "error" => transport = "FAILED"
          BY <1>9 DEF Dropped
    <3>2. transport = "ABORTED" => notifies \in {<<"none">>, <<"error", "none">>}
          BY DEF ConnectionInv, TransportShape
    <3>3. transport = "FAILED" => notifies = <<"error">>
          BY DEF ConnectionInv, TransportShape
    <3> QED BY <3>1, <3>2, <3>3
  <2>4. notifies' = <<>>
        BY <1>1, <1>2, <2>3
  <2>5. reason \in Reasons \ {"none"}
        BY <1>2, <2>3 DEF ConnectionInv, ConnectionTypes, ReasonKnown, Reasons
  <2> HIDE DEF cause, reason
  <2>6. failed' = FALSE
        BY <2>2, <2>5 DEF ConnectionInv
  <2>7. ConnectionTypes'
        BY <1>1, <1>3, <2>1, <2>2, <2>6 DEF ConnectionInv, ConnectionTypes, Reasons
  <2>8. /\ channels' \in [Numbers -> [state: ChannelStates, life: 0..MaxLives]]
        /\ Used' = {} /\ ~CallbackRuns'
        BY <2>2, BoundsAssumption DEF NoChannel, ChannelStates, Used, CallbackRuns
  <2>9. ChannelTypes'
        BY <1>1, <2>8 DEF ConnectionInv, ChannelTypes
  <2>10. TransportShape'
        BY <1>1, <1>3, <2>1, <2>2, <2>4 DEF TransportShape
  <2>11. ReasonKnown'
        BY <1>5, <2>1, <2>2 DEF ReasonKnown
  <2>12. Life'
        BY <2>2, <2>8 DEF Life
  <2>13. Told'
        BY <1>2, <2>1, <2>2, <2>5 DEF ConnectionInv, Told, Outcome
  <2> QED BY <1>4, <1>6, <1>7, <2>6, <2>7, <2>9, <2>10, <2>11, <2>12, <2>13
          DEF ConnectionInv
<1> QED BY <1>8, <1>9

-----------------------------------------------------------------------------
(* The broker.                                                             *)

\* What the broker does leaves the connection alone.
LEMMA BrokerStepKeeps ==
    ASSUME ConnectionInv,
           UNCHANGED <<connVars, channelVars, transportVars, readVars, outcome>>,
           transport = "ACTIVE", WireTypes', OneOpening', CloseIsLast',
           Free(toBroker, CloseFrame) => Free(toBroker', CloseFrame),
           error = "none" => Free(toClient', CloseOkFrame)
    PROVE  ConnectionInv'
<1>1. ConnectionTypes' /\ ~failed'
      BY DEF ConnectionInv, ConnectionTypes, connVars, transportVars, readVars
<1>2. ChannelTypes' /\ Used' = Used /\ CallbackRuns' = CallbackRuns
      BY DEF ConnectionInv, ChannelTypes, Used, CallbackRuns, channelVars
<1>3. TransportShape'
      BY DEF ConnectionInv, TransportShape, connVars, transportVars, readVars
<1>4. ReasonKnown'
      BY DEF ConnectionInv, ReasonKnown, HasReplyCode, connVars, transportVars, readVars
<1>5. Life'
      BY <1>2 DEF ConnectionInv, Life, connVars, readVars
<1>6. Told'
      BY DEF ConnectionInv, Told, Outcome, connVars
<1> QED BY <1>1, <1>2, <1>3, <1>4, <1>5, <1>6 DEF ConnectionInv

\* The broker reads a frame and answers it.
LEMMA BrokerReadsKeeps ==
    ASSUME ConnectionInv, BrokerReads
    PROVE  ConnectionInv'
<1> DEFINE f == Head(toBroker)
<1>1. /\ transport = "ACTIVE" /\ toBroker # <<>> /\ toBroker' = Tail(toBroker)
      /\ UNCHANGED <<connVars, channelVars, transportVars, readVars, outcome, contents, blocks>>
      BY DEF BrokerReads
<1>2. /\ f \in BrokerFrames /\ toBroker' \in Seq(BrokerFrames)
      /\ \A S : /\ Free(toBroker, S) => f \notin S /\ Free(toBroker', S)
                /\ AtMostOne(toBroker, S) => AtMostOne(toBroker', S)
                /\ AtMostOne(toBroker, S) /\ f \in S => Free(toBroker', S)
      BY <1>1, RestOfStream DEF ConnectionInv, WireTypes
<1>3. NothingAfterClose'
  <2> DEFINE q == toBroker
             t == Tail(q)
  <2>1. /\ t \in Seq(BrokerFrames) /\ Len(t) = Len(q) - 1
        /\ \A i \in 1..Len(t) : t[i] = q[i + 1]
        BY <1>1, HeadTailProperties DEF ConnectionInv, WireTypes
  <2>2. /\ Len(q) \in Nat /\ DOMAIN q = 1..Len(q) /\ DOMAIN t = 1..Len(t)
        BY <2>1, LenProperties DEF ConnectionInv, WireTypes
  <2> HIDE DEF t
  <2>3. ASSUME NEW i \in DOMAIN t, t[i] = Frame("Close")
        PROVE  i = Len(t)
    <3>1. i + 1 \in DOMAIN q /\ q[i + 1] = Frame("Close")
          BY <2>1, <2>2, <2>3
    <3>2. i + 1 = Len(q)
          BY <3>1 DEF ConnectionInv, CloseIsLast, NothingAfterClose
    <3> QED BY <2>1, <2>2, <3>2
  <2>4. toBroker' = t
        BY <1>1 DEF t
  <2> QED BY <2>3, <2>4 DEF NothingAfterClose
<1>4. CloseIsLast'
  <2>1. Used' = Used /\ state' = state /\ opened' = opened
        BY <1>1 DEF Used, channelVars, connVars
  <2> QED BY <1>2, <1>3, <2>1 DEF ConnectionInv, CloseIsLast
<1> HIDE DEF f
<1>5. CASE broker = "closing"
  <2>1. UNCHANGED <<toClient, broker, brokerChannels>>
        BY <1>5 DEF BrokerReads
  <2>2. WireTypes'
        BY <1>1, <1>2, <2>1 DEF ConnectionInv, WireTypes, readVars
  <2>3. OneOpening'
        BY <1>1, <1>2, <2>1 DEF ConnectionInv, OneOpening, connVars, readVars
  <2>4. error = "none" => Free(toClient', CloseOkFrame)
        BY <2>1 DEF ConnectionInv, ReasonKnown
  <2> QED BY <1>1, <1>2, <1>4, <2>2, <2>3, <2>4, BrokerStepKeeps
<1>6. CASE broker # "closing"
  <2>1. /\ BrokerSends(Answers(f))
        /\ broker' \in {"up", "gone", broker}
        /\ brokerChannels' = IF f.channel = 0 THEN brokerChannels
                             ELSE [brokerChannels EXCEPT ![f.channel] = BrokerChannel(f)]
        BY <1>6 DEF BrokerReads, f
  <2>2. /\ Answers(f) \in Seq(ClientFrames) /\ AtMostOne(Answers(f), Openings)
        /\ f \notin Openings => Free(Answers(f), Openings)
        /\ f # Frame("Close") => Free(Answers(f), CloseOkFrame)
        BY <1>2, AnswersTyped
  <2>3. /\ toClient' \in Seq(ClientFrames)
        /\ \A S : /\ Free(Answers(f), S) =>
                        /\ Free(toClient', S) <=> Free(toClient, S)
                        /\ AtMostOne(toClient, S) => AtMostOne(toClient', S)
                  /\ Free(toClient, S) /\ AtMostOne(Answers(f), S) => AtMostOne(toClient', S)
        BY <2>1, <2>2, BrokerSendsKeeps DEF ConnectionInv
  <2>4. /\ brokerChannels' \in
              [Numbers -> [state: {"none", "open", "closing"}, life: 0..MaxLives]]
        /\ \A c \in Numbers : brokerChannels'[c].state # "none" => brokerChannels'[c].life # 0
    <3>1. CASE f.channel = 0
          BY <2>1, <3>1 DEF ConnectionInv, WireTypes
    <3>2. CASE f.channel # 0
      <4>1. PICK t \in {"Open", "Close", "CloseOk"}, c \in Numbers, l \in 1..MaxLives :
                f = ChannelFrame(t, c, l)
            BY <1>2, <3>2, BrokerFrameKinds DEF Frame
      <4>2. /\ f.type = t /\ f.channel = c /\ f.life = l /\ l # 0 /\ l \in 0..MaxLives
            BY <4>1, BoundsAssumption DEF ChannelFrame
      <4>3. /\ BrokerChannel(f) \in [state: {"none", "open", "closing"}, life: 0..MaxLives]
            /\ BrokerChannel(f).state # "none" => BrokerChannel(f).life # 0
            BY <4>2, BoundsAssumption
               DEF BrokerChannel, NoChannel, ConnectionInv, WireTypes
      <4>4. brokerChannels' = [brokerChannels EXCEPT ![c] = BrokerChannel(f)]
            BY <2>1, <3>2, <4>2
      <4> QED BY <4>3, <4>4 DEF ConnectionInv, WireTypes
    <3> QED BY <3>1, <3>2
  <2>5. WireTypes'
        BY <1>1, <1>2, <2>1, <2>3, <2>4 DEF ConnectionInv, WireTypes, readVars
  <2>6. OneOpening'
    <3>1. CASE f \in Openings
      <4>1. /\ ~Free(toBroker, Openings) /\ Free(toBroker', Openings)
            BY <1>2, <3>1 DEF ConnectionInv, OneOpening
      <4>2. ~opened /\ Free(toClient, Openings) /\ Free(buffer, Openings)
            BY <4>1 DEF ConnectionInv, OneOpening
      <4>3. AtMostOne(toClient', Openings)
            BY <2>2, <2>3, <4>2
      <4> QED BY <1>1, <1>2, <4>1, <4>2, <4>3
              DEF ConnectionInv, OneOpening, connVars, readVars
    <3>2. CASE f \notin Openings
      <4>1. /\ Free(toClient', Openings) <=> Free(toClient, Openings)
            /\ AtMostOne(toClient', Openings)
            BY <2>2, <2>3, <3>2 DEF ConnectionInv, OneOpening
      <4> QED BY <1>1, <1>2, <4>1 DEF ConnectionInv, OneOpening, connVars, readVars
    <3> QED BY <3>1, <3>2
  <2>7. error = "none" => Free(toClient', CloseOkFrame)
    <3> SUFFICES ASSUME error = "none" PROVE Free(toClient', CloseOkFrame)
        OBVIOUS
    <3>1. Free(toBroker, CloseFrame) /\ Free(toClient, CloseOkFrame)
          BY DEF ConnectionInv, ReasonKnown
    <3>2. f # Frame("Close")
          BY <1>2, <3>1 DEF CloseFrame
    <3> QED BY <2>2, <2>3, <3>1, <3>2
  <2> QED BY <1>1, <1>2, <1>4, <2>5, <2>6, <2>7, BrokerStepKeeps
<1> QED BY <1>5, <1>6

\* What the broker sends by itself.
LEMMA BrokerEventKeeps ==
    ASSUME ConnectionInv, NEW f \in ClientFrames, BrokerSends(<<f>>),
           f \notin Openings \cup CloseOkFrame, transport = "ACTIVE",
           UNCHANGED <<connVars, channelVars, transportVars, readVars, outcome, toBroker>>,
           contents' \in 0..MaxContents, blocks' \in 0..MaxBlocks,
           broker' \in {"closing", broker},
           \/ brokerChannels' = brokerChannels
           \/ \E c \in Numbers : /\ brokerChannels[c].state = "open"
                                 /\ brokerChannels' =
                                       [brokerChannels EXCEPT ![c].state = "closing"]
    PROVE  ConnectionInv'
<1>1. <<f>> \in Seq(ClientFrames) /\ Free(<<f>>, Openings) /\ Free(<<f>>, CloseOkFrame)
      BY SingleFrame
<1>2. /\ toClient' \in Seq(ClientFrames)
      /\ Free(toClient', Openings) <=> Free(toClient, Openings)
      /\ AtMostOne(toClient', Openings)
      /\ Free(toClient', CloseOkFrame) <=> Free(toClient, CloseOkFrame)
      BY <1>1, BrokerSendsKeeps DEF ConnectionInv, OneOpening
<1>3. /\ brokerChannels' \in
            [Numbers -> [state: {"none", "open", "closing"}, life: 0..MaxLives]]
      /\ \A c \in Numbers : brokerChannels'[c].state # "none" => brokerChannels'[c].life # 0
  <2>1. CASE brokerChannels' = brokerChannels
        BY <2>1 DEF ConnectionInv, WireTypes
  <2>2. ASSUME NEW c \in Numbers, brokerChannels[c].state = "open",
               brokerChannels' = [brokerChannels EXCEPT ![c].state = "closing"]
        PROVE  /\ brokerChannels' \in
                     [Numbers -> [state: {"none", "open", "closing"}, life: 0..MaxLives]]
               /\ \A n \in Numbers :
                     brokerChannels'[n].state # "none" => brokerChannels'[n].life # 0
        BY <2>2 DEF ConnectionInv, WireTypes
  <2> QED BY <2>1, <2>2
<1>4. WireTypes'
      BY <1>2, <1>3 DEF ConnectionInv, WireTypes, readVars
<1>5. OneOpening'
      BY <1>2 DEF ConnectionInv, OneOpening, connVars, readVars
<1>6. CloseIsLast'
  <2>1. Used' = Used
        BY DEF Used, channelVars
  <2> QED BY <2>1 DEF ConnectionInv, CloseIsLast, NothingAfterClose, connVars
<1>7. error = "none" => Free(toClient', CloseOkFrame)
      BY <1>2 DEF ConnectionInv, ReasonKnown
<1> QED BY <1>4, <1>5, <1>6, <1>7, BrokerStepKeeps

\* The broker delivers a content, closes a channel, blocks the connection, closes
\* it or goes away.
LEMMA BrokerKeeps ==
    ASSUME ConnectionInv,
           \/ BrokerBlocks \/ BrokerCloses \/ BrokerGone
           \/ \E c \in Numbers : BrokerDelivers(c) \/ BrokerClosesChannel(c)
    PROVE  ConnectionInv'
<1>1. ASSUME NEW c \in Numbers, BrokerDelivers(c)
      PROVE  ConnectionInv'
  <2> DEFINE f == ChannelFrame("Content", c, brokerChannels[c].life)
  <2>1. /\ transport = "ACTIVE" /\ brokerChannels[c].state = "open"
        /\ contents < MaxContents /\ contents' = contents + 1 /\ BrokerSends(<<f>>)
        /\ UNCHANGED <<connVars, channelVars, transportVars, readVars, outcome, toBroker,
                       broker, brokerChannels, blocks>>
        BY <1>1 DEF BrokerDelivers
  <2>2. /\ brokerChannels[c].life \in 1..MaxLives
        /\ contents' \in 0..MaxContents /\ blocks' \in 0..MaxBlocks
        BY <2>1, BoundsAssumption DEF ConnectionInv, WireTypes
  <2>3. f \in ClientFrames /\ f \notin Openings \cup CloseOkFrame
        BY <2>2, FramesTyped, ChannelFramesApart
  <2> HIDE DEF f
  <2> QED BY <2>1, <2>2, <2>3, BrokerEventKeeps
<1>2. ASSUME NEW c \in Numbers, BrokerClosesChannel(c)
      PROVE  ConnectionInv'
  <2> DEFINE f == ChannelFrame("Close", c, brokerChannels[c].life)
  <2>1. /\ transport = "ACTIVE" /\ brokerChannels[c].state = "open" /\ BrokerSends(<<f>>)
        /\ brokerChannels' = [brokerChannels EXCEPT ![c].state = "closing"]
        /\ UNCHANGED <<connVars, channelVars, transportVars, readVars, outcome, toBroker,
                       broker, contents, blocks>>
        BY <1>2 DEF BrokerClosesChannel
  <2>2. /\ brokerChannels[c].life \in 1..MaxLives
        /\ contents' \in 0..MaxContents /\ blocks' \in 0..MaxBlocks
        BY <2>1, BoundsAssumption DEF ConnectionInv, WireTypes
  <2>3. f \in ClientFrames /\ f \notin Openings \cup CloseOkFrame
        BY <2>2, FramesTyped, ChannelFramesApart
  <2> HIDE DEF f
  <2> QED BY <2>1, <2>2, <2>3, BrokerEventKeeps
<1>3. CASE BrokerBlocks
  <2>1. PICK t \in {"Blocked", "Unblocked"} : BrokerSends(<<Frame(t)>>)
        BY <1>3 DEF BrokerBlocks
  <2>2. /\ transport = "ACTIVE" /\ blocks < MaxBlocks /\ blocks' = blocks + 1
        /\ UNCHANGED <<connVars, channelVars, transportVars, readVars, outcome, toBroker,
                       broker, brokerChannels, contents>>
        BY <1>3 DEF BrokerBlocks
  <2>3. contents' \in 0..MaxContents /\ blocks' \in 0..MaxBlocks
        BY <2>2, BoundsAssumption DEF ConnectionInv, WireTypes
  <2>4. Frame(t) \in ClientFrames
        BY FramesTyped
  <2>5. Frame(t) \notin Openings \cup CloseOkFrame
        BY DEF Openings, CloseOkFrame, Frame
  <2> QED BY <2>1, <2>2, <2>3, <2>4, <2>5, BrokerEventKeeps
<1>4. CASE BrokerCloses
  <2>1. /\ transport = "ACTIVE" /\ broker' = "closing" /\ BrokerSends(<<Frame("Close")>>)
        /\ UNCHANGED <<connVars, channelVars, transportVars, readVars, outcome, toBroker,
                       brokerChannels, contents, blocks>>
        BY <1>4 DEF BrokerCloses
  <2>2. contents' \in 0..MaxContents /\ blocks' \in 0..MaxBlocks
        BY <2>1 DEF ConnectionInv, WireTypes
  <2>3. Frame("Close") \in ClientFrames
        BY FramesTyped
  <2>4. Frame("Close") \notin Openings \cup CloseOkFrame
        BY DEF Openings, CloseOkFrame, Frame
  <2> QED BY <2>1, <2>2, <2>3, <2>4, BrokerEventKeeps
<1>5. CASE BrokerGone
  <2>1. /\ transport = "ACTIVE" /\ broker' = "gone"
        /\ UNCHANGED <<connVars, channelVars, transportVars, readVars, outcome, toBroker,
                       toClient, brokerChannels, contents, blocks>>
        BY <1>5 DEF BrokerGone
  <2>2. WireTypes'
        BY <2>1 DEF ConnectionInv, WireTypes, readVars
  <2>3. OneOpening'
        BY <2>1 DEF ConnectionInv, OneOpening, connVars, readVars
  <2>4. Used' = Used
        BY <2>1 DEF Used, channelVars
  <2>5. CloseIsLast'
        BY <2>1, <2>4 DEF ConnectionInv, CloseIsLast, NothingAfterClose, connVars
  <2>6. error = "none" => Free(toClient', CloseOkFrame)
        BY <2>1 DEF ConnectionInv, ReasonKnown
  <2> QED BY <2>1, <2>2, <2>3, <2>5, <2>6, BrokerStepKeeps
<1> QED BY <1>1, <1>2, <1>3, <1>4, <1>5

-----------------------------------------------------------------------------
(* The theorems.                                                           *)

\* The connection starts with the invariant: its protocol header is on its way.
LEMMA InvariantStarts ==
    ASSUME Init
    PROVE  ConnectionInv
<1>1. Frame("Header") \in BrokerFrames /\ Frame("Header") \notin CloseFrame
      BY FramesTyped DEF CloseFrame, Frame
<1>2. /\ toBroker \in Seq(BrokerFrames) /\ AtMostOne(toBroker, Openings)
      /\ Free(toBroker, CloseFrame)
      BY <1>1, SingleFrame DEF Init
<1>3. /\ toClient = <<>> /\ buffer = <<>> /\ <<>> \in Seq(ClientFrames)
      /\ Free(toClient, Openings) /\ AtMostOne(toClient, Openings)
      /\ Free(toClient, CloseOkFrame)
      BY EmptyStream, EmptySeq DEF Init
<1>4. ConnectionTypes /\ ~failed
      BY DEF Init, ConnectionTypes, Reasons
<1>5. /\ channels \in [Numbers -> [state: ChannelStates, life: 0..MaxLives]]
      /\ Used = {} /\ ~CallbackRuns
      BY BoundsAssumption DEF Init, NoChannel, ChannelStates, Used, CallbackRuns
<1>6. ChannelTypes
      BY <1>5, BoundsAssumption DEF Init, ChannelTypes
<1>7. WireTypes
      BY <1>2, <1>3, BoundsAssumption DEF Init, WireTypes, NoChannel
<1>8. OneOpening
      BY <1>2, <1>3 DEF Init, OneOpening
<1>9. TransportShape /\ Life /\ Told
      BY <1>5 DEF Init, TransportShape, Life, Told
<1>10. ReasonKnown /\ CloseIsLast
      BY <1>2, <1>3, FreeIsLast DEF Init, ReasonKnown, CloseIsLast, NothingAfterClose
<1> QED BY <1>4, <1>6, <1>7, <1>8, <1>9, <1>10 DEF ConnectionInv

\* Every step keeps the invariant.
LEMMA InvariantKept ==
    ASSUME ConnectionInv, [Next]_vars
    PROVE  ConnectionInv'
<1>1. CASE ProcessFrame
  <2>1. CASE OnStart \/ OnTune \/ OnOpenOk \/ OnCloseFromBroker \/ OnCloseOk \/ OnBlocked
        BY <2>1, StartKeeps, TuneKeeps, OpenOkKeeps, CloseFromBrokerKeeps, CloseOkKeeps,
           BlockedKeeps
  <2>2. ASSUME NEW c \in Numbers, \/ OnChannelOpenOk(c) \/ OnChannelClose(c)
                                  \/ OnChannelCloseOk(c) \/ OnOtherFrame(c)
        PROVE  ConnectionInv'
        BY <2>2, ChannelOpenOkKeeps, ChannelCloseKeeps, ChannelCloseOkKeeps, OtherFrameKeeps
  <2> QED BY <1>1, <2>1, <2>2 DEF ProcessFrame
<1>2. CASE Receive \/ EndOfData \/ Eof \/ Notify
      BY <1>2, ReceiveKeeps, EndOfDataKeeps, FailureKeeps, NotifyKeeps
<1>3. CASE \E c \in Numbers : OnChannelCleanup(c)
      BY <1>3, ChannelCleanupKeeps
<1>4. CASE DataRaises \/ SocketError \/ BlockedTimeout \/ HeartbeatTimeout
      BY <1>4, FailureKeeps, TimerKeeps
<1>5. CASE OpenChannel \/ Close \/ \E c \in Numbers : CloseChannel(c)
      BY <1>5, OpenChannelKeeps, CloseKeeps, CloseChannelKeeps
<1>6. CASE BrokerReads
      BY <1>6, BrokerReadsKeeps
<1>7. CASE \/ BrokerBlocks \/ BrokerCloses \/ BrokerGone
           \/ \E c \in Numbers : BrokerDelivers(c) \/ BrokerClosesChannel(c)
      BY <1>7, BrokerKeeps
<1>8. CASE UNCHANGED vars
  <2>1. UNCHANGED <<connVars, channelVars, transportVars, readVars, outcome, toBroker, brokerVars>>
        BY <1>8 DEF vars
  <2>2. ConnectionTypes' /\ ~failed'
        BY <2>1 DEF ConnectionInv, ConnectionTypes, connVars, transportVars, readVars
  <2>3. ChannelTypes' /\ Used' = Used /\ CallbackRuns' = CallbackRuns
        BY <2>1 DEF ConnectionInv, ChannelTypes, Used, CallbackRuns, channelVars
  <2>4. WireTypes'
        BY <2>1 DEF ConnectionInv, WireTypes, readVars, brokerVars
  <2>5. OneOpening'
        BY <2>1 DEF ConnectionInv, OneOpening, connVars, readVars, brokerVars
  <2>6. TransportShape'
        BY <2>1 DEF ConnectionInv, TransportShape, connVars, transportVars, readVars
  <2>7. ReasonKnown'
        BY <2>1 DEF ConnectionInv, ReasonKnown, HasReplyCode, connVars, transportVars,
                    readVars, brokerVars
  <2>8. Life'
        BY <2>1, <2>3 DEF ConnectionInv, Life, connVars, readVars
  <2>9. CloseIsLast'
        BY <2>1, <2>3 DEF ConnectionInv, CloseIsLast, NothingAfterClose, connVars
  <2>10. Told'
        BY <2>1 DEF ConnectionInv, Told, Outcome, connVars
  <2> QED BY <2>2, <2>3, <2>4, <2>5, <2>6, <2>7, <2>8, <2>9, <2>10 DEF ConnectionInv
<1> QED BY <1>1, <1>2, <1>3, <1>4, <1>5, <1>6, <1>7, <1>8 DEF Next, LoopStep

\* The inductive invariant holds in every state.
THEOREM ConnectionInvariant == Spec => []ConnectionInv
<1>1. Init => ConnectionInv
      BY InvariantStarts
<1>2. ConnectionInv /\ [Next]_vars => ConnectionInv'
      BY InvariantKept
<1> QED BY <1>1, <1>2, PTL DEF Spec

\* What the application was told, one call after the other.
LEMMA ToldTyped ==
    ASSUME ConnectionInv
    PROVE  outcome \in Seq([call: {"open", "open_error", "close"}, error: Reasons])
<1> DEFINE T == [call: {"open", "open_error", "close"}, error: Reasons]
           open == IF opened THEN <<[call |-> "open", error |-> "none"]>> ELSE <<>>
<1>1. [call |-> "open", error |-> "none"] \in T
      BY DEF Reasons
<1>2. \A reason \in Reasons : Outcome(reason) \in T
      BY DEF Outcome
<1> HIDE DEF T
<1>3. open \in Seq(T)
      BY <1>1, EmptySeq
<1> HIDE DEF open
<1>4. \A reason \in Reasons : Append(open, Outcome(reason)) \in Seq(T)
      BY <1>2, <1>3, AppendProperties
<1>5. outcome = open \/ \E reason \in Reasons : outcome = Append(open, Outcome(reason))
      BY DEF ConnectionInv, Told, open
<1> QED BY <1>3, <1>4, <1>5 DEF T

\* Type correctness of the connection, with at most two reports of the loss queued.
THEOREM ConnectionTypeCorrect == Spec => []TypeOK
<1>1. ConnectionInv => TypeOK
  <2> SUFFICES ASSUME ConnectionInv PROVE TypeOK
      OBVIOUS
  <2>1. notifies \in {<<>>, <<"none">>, <<"error">>, <<"error", "none">>}
        BY DEF ConnectionInv, ConnectionTypes, TransportShape
  <2>2. notifies \in Seq({"none", "error"}) /\ Len(notifies) <= 2
    <3>1. CASE notifies = <<>>
          BY <3>1
    <3>2. CASE notifies = <<"none">>
          BY <3>2
    <3>3. CASE notifies = <<"error">>
          BY <3>3
    <3>4. CASE notifies = <<"error", "none">>
          BY <3>4
    <3> QED BY <2>1, <3>1, <3>2, <3>3, <3>4
  <2> QED BY <2>2, ToldTyped DEF ConnectionInv, ConnectionTypes, ChannelTypes, WireTypes, TypeOK
<1> QED BY <1>1, ConnectionInvariant, PTL

\* The connection ends in one way that all its parts agree on: no assertion on the
\* way down fails, and the application hears of the end once and with a reason.
THEOREM ConnectionEndsOnce == Spec => []EndsOnce
<1>1. ConnectionInv => EndsOnce
  <2> SUFFICES ASSUME ConnectionInv PROVE EndsOnce
      OBVIOUS
  <2> DEFINE open == [call |-> "open", error |-> "none"]
             ends == {i \in DOMAIN outcome : outcome[i].call # "open"}
  <2>1. state = "CLOSED" => ~heartbeat /\ ~blockedTimer /\ Used = {}
        BY DEF ConnectionInv, Life
  <2>2. CASE state # "CLOSED" /\ opened
    <3>1. outcome = <<open>>
          BY <2>2 DEF ConnectionInv, Told
    <3>2. Len(outcome) = 1 /\ DOMAIN outcome = {1} /\ outcome[1].call = "open" /\ ends = {}
          BY <3>1
    <3> HIDE DEF open, ends
    <3> QED BY <2>1, <2>2, <3>2 DEF ConnectionInv, EndsOnce, TerminationConsistent, OneOutcome, ends
  <2>3. CASE state # "CLOSED" /\ ~opened
    <3>1. outcome = <<>>
          BY <2>3 DEF ConnectionInv, Told
    <3>2. Len(outcome) = 0 /\ DOMAIN outcome = {} /\ ends = {}
          BY <3>1
    <3> HIDE DEF ends
    <3> QED BY <2>1, <2>3, <3>2 DEF ConnectionInv, EndsOnce, TerminationConsistent, OneOutcome, ends
  <2>4. CASE state = "CLOSED" /\ opened
    <3>1. PICK reason \in Reasons \ {"none"} : outcome = Append(<<open>>, Outcome(reason))
          BY <2>4 DEF ConnectionInv, Told
    <3> DEFINE e == Outcome(reason)
    <3>2. e.call = "close" /\ e.error # "none"
          BY <2>4, <3>1 DEF Outcome
    <3> HIDE DEF e
    <3>3. /\ Len(outcome) = 2 /\ DOMAIN outcome = 1..2
          /\ outcome[1] = open /\ outcome[2] = e
          BY <3>1 DEF e
    <3>4. ends = {2}
          BY <3>2, <3>3
    <3>5. outcome[1].call = "open" /\ 1 \in DOMAIN outcome
          BY <3>3
    <3> HIDE DEF open, ends
    <3> QED BY <2>1, <2>4, <3>2, <3>3, <3>4, <3>5
            DEF ConnectionInv, EndsOnce, TerminationConsistent, OneOutcome, ends
  <2>5. CASE state = "CLOSED" /\ ~opened
    <3>1. PICK reason \in Reasons \ {"none"} : outcome = Append(<<>>, Outcome(reason))
          BY <2>5 DEF ConnectionInv, Told
    <3> DEFINE e == Outcome(reason)
    <3>2. e.call = "open_error" /\ e.error # "none"
          BY <2>5, <3>1 DEF Outcome
    <3> HIDE DEF e
    <3>3. Len(outcome) = 1 /\ DOMAIN outcome = {1} /\ outcome[1] = e
          BY <3>1 DEF e
    <3>4. ends = {1}
          BY <3>2, <3>3
    <3> HIDE DEF ends
    <3> QED BY <2>1, <2>5, <3>2, <3>3, <3>4
            DEF ConnectionInv, EndsOnce, TerminationConsistent, OneOutcome, ends
  <2> QED BY <2>2, <2>3, <2>4, <2>5
<1> QED BY <1>1, ConnectionInvariant, PTL

\* Connection.Close is the last frame the client sends, whatever is still closing.
THEOREM CloseIsTheLastFrame == Spec => []NothingAfterClose
<1>1. ConnectionInv => NothingAfterClose
      BY DEF ConnectionInv, CloseIsLast
<1> QED BY <1>1, ConnectionInvariant, PTL

-----------------------------------------------------------------------------
(* The frames of one channel in a stream.                                  *)

Has(q, c, type) == \E i \in DOMAIN q : q[i].channel = c /\ q[i].type = type
Some(q, c) == \E i \in DOMAIN q : q[i].channel = c
OfLife(q, c, types, life) ==
    \A i \in DOMAIN q : q[i].channel = c /\ q[i].type \in types => q[i].life = life

\* The frames of channel c come in the order that the pairs allow.
Sorted(q, c, pairs) ==
    \A i, j \in DOMAIN q :
        i < j /\ q[i].channel = c /\ q[j].channel = c => <<q[i].type, q[j].type>> \in pairs

\* A channel's life as the client hears of it: the contents come after the
\* OpenOk, Close after them, and CloseOk at last.
ClientOrder ==
    {<<"OpenOk", "Content">>, <<"OpenOk", "Close">>, <<"OpenOk", "CloseOk">>,
     <<"Content", "Content">>, <<"Content", "Close">>, <<"Content", "CloseOk">>,
     <<"Close", "CloseOk">>}

\* As the broker hears of it: CloseOk is the last frame of a life, after a Close
\* that crossed, and before the Open of the next.
BrokerOrder == {<<"CloseOk", "Open">>, <<"Close", "CloseOk">>}

ClientTypes == {"OpenOk", "Content", "Close", "CloseOk"}

\* What the client has still to process.
Incoming == buffer \o toClient

Beginning == {"OPENING", "BLOCKED"}

\* The frames for a channel are of its present life, and fit its state.
ClientSide(c) ==
    LET s == channels[c].state IN
    /\ Sorted(Incoming, c, ClientOrder)
    /\ OfLife(Incoming, c, ClientTypes, channels[c].life)
    /\ s \in {"none", "CLOSED"} => ~Some(Incoming, c)
    /\ Has(Incoming, c, "OpenOk") => s \in Beginning
    /\ s \in Beginning /\ Some(Incoming, c) => Has(Incoming, c, "OpenOk")
    /\ Has(Incoming, c, "CloseOk") => s = "CLOSING"

\* What the client sent for a channel, the broker's view of it and what the broker
\* sent fit together.
BrokerSide(c) ==
    LET s == channels[c].state
        b == brokerChannels[c].state IN
    /\ Sorted(toBroker, c, BrokerOrder)
    /\ OfLife(toBroker, c, {"Open", "Close"}, channels[c].life)
    /\ Has(toBroker, c, "Open") => s \in Beginning /\ ~Some(Incoming, c) /\ b # "open"
    /\ Has(toBroker, c, "Close") => s = "CLOSING" /\ ~Has(Incoming, c, "CloseOk")
    /\ Has(toBroker, c, "CloseOk") =>
           /\ b = "closing" /\ ~Has(Incoming, c, "Close")
           /\ s \in Beginning \cup {"OPEN"} => Has(toBroker, c, "Open")
    /\ Has(Incoming, c, "Close") => b = "closing"
    /\ b = "closing" => Has(Incoming, c, "Close") \/ Has(toBroker, c, "CloseOk")
    /\ b = "open" =>
           /\ s \notin {"none", "CLOSED"} /\ brokerChannels[c].life = channels[c].life
           /\ ~Has(Incoming, c, "Close") /\ ~Has(Incoming, c, "CloseOk")
           /\ s \in Beginning => Has(Incoming, c, "OpenOk")

\* The broker opens a number only after it has let go of its former channel.
OpenOnFree ==
    (toBroker # <<>> /\ Head(toBroker).type = "Open" /\ broker = "up") =>
        brokerChannels[Head(toBroker).channel].state = "none"

Reads == transport = "ACTIVE" \/ reading
Exchanges == transport = "ACTIVE" /\ broker \in {"handshake", "up"}

ClientSides == \A c \in Numbers : ClientSide(c)
BrokerSides == \A c \in Numbers : BrokerSide(c)
Lanes == (Reads => ClientSides) /\ (Exchanges => BrokerSides)

FramesInv == ConnectionInv /\ OpenOnFree /\ Lanes

-----------------------------------------------------------------------------
(* The frames of a channel when one is taken from a stream or added to it. *)

\* The channel sees the same in both streams.
Kept(q, r, c) ==
    /\ \A type : Has(r, c, type) <=> Has(q, c, type)
    /\ Some(r, c) <=> Some(q, c)
    /\ \A types, life : OfLife(q, c, types, life) => OfLife(r, c, types, life)
    /\ \A pairs : Sorted(q, c, pairs) => Sorted(r, c, pairs)

\* The positions of a stream whose first frame is taken.
LEMMA TailPositions ==
    ASSUME NEW T, NEW q \in Seq(T), q # <<>>
    PROVE  /\ 1 \in DOMAIN q /\ q[1] = Head(q) /\ Head(q) \in T
           /\ DOMAIN q \subseteq Nat /\ DOMAIN Tail(q) \subseteq Nat
           /\ \A i \in DOMAIN Tail(q) : i + 1 \in DOMAIN q /\ Tail(q)[i] = q[i + 1] /\ 1 < i + 1
           /\ \A i \in DOMAIN q : i # 1 => i - 1 \in DOMAIN Tail(q) /\ Tail(q)[i - 1] = q[i]
<1> DEFINE t == Tail(q)
<1>1. /\ Head(q) \in T /\ t \in Seq(T) /\ Len(t) = Len(q) - 1
      /\ \A i \in 1..Len(t) : t[i] = q[i + 1]
      BY HeadTailProperties
<1>2. Len(q) \in Nat /\ DOMAIN q = 1..Len(q) /\ DOMAIN t = 1..Len(t) /\ Len(q) # 0
      BY <1>1, LenProperties, EmptySeq
<1>3. Head(q) = q[1]
      BY <1>2
<1> HIDE DEF t
<1>4. \A i \in DOMAIN t : i + 1 \in DOMAIN q /\ t[i] = q[i + 1] /\ 1 < i + 1
      BY <1>1, <1>2
<1>5. ASSUME NEW i \in DOMAIN q, i # 1
      PROVE  i - 1 \in DOMAIN t /\ t[i - 1] = q[i]
  <2>1. i - 1 \in 1..Len(t) /\ i - 1 + 1 = i
        BY <1>1, <1>2, <1>5
  <2> QED BY <1>1, <1>2, <2>1
<1> QED BY <1>1, <1>2, <1>3, <1>4, <1>5 DEF t

\* What was taken is of the channel or not, and the rest stays as it was.
LEMMA ChannelRest ==
    ASSUME NEW T, NEW q \in Seq(T), q # <<>>, NEW c
    PROVE  /\ \A type : Has(q, c, type) <=>
                  \/ Head(q).channel = c /\ Head(q).type = type
                  \/ Has(Tail(q), c, type)
           /\ Some(q, c) <=> Head(q).channel = c \/ Some(Tail(q), c)
           /\ Head(q).channel # c => Kept(q, Tail(q), c)
           /\ \A types, life : OfLife(q, c, types, life) =>
                  /\ OfLife(Tail(q), c, types, life)
                  /\ Head(q).channel = c /\ Head(q).type \in types => Head(q).life = life
           /\ \A pairs : Sorted(q, c, pairs) =>
                  /\ Sorted(Tail(q), c, pairs)
                  /\ Head(q).channel = c =>
                         \A type : Has(Tail(q), c, type) => <<Head(q).type, type>> \in pairs
<1> DEFINE t == Tail(q)
           h == Head(q)
<1>1. /\ 1 \in DOMAIN q /\ q[1] = h /\ h \in T
      /\ DOMAIN q \subseteq Nat /\ DOMAIN t \subseteq Nat
      /\ \A i \in DOMAIN t : i + 1 \in DOMAIN q /\ t[i] = q[i + 1] /\ 1 < i + 1
      /\ \A i \in DOMAIN q : i # 1 => i - 1 \in DOMAIN t /\ t[i - 1] = q[i]
      BY TailPositions
<1> HIDE DEF t, h
<1>2. ASSUME NEW type
      PROVE  Has(q, c, type) <=> \/ h.channel = c /\ h.type = type
                                 \/ Has(t, c, type)
      BY <1>1 DEF Has
<1>3. Some(q, c) <=> h.channel = c \/ Some(t, c)
      BY <1>1 DEF Some
<1>4. ASSUME NEW types, NEW life, OfLife(q, c, types, life)
      PROVE  /\ OfLife(t, c, types, life)
             /\ h.channel = c /\ h.type \in types => h.life = life
      BY <1>1, <1>4 DEF OfLife
<1>5. ASSUME NEW pairs, Sorted(q, c, pairs)
      PROVE  /\ Sorted(t, c, pairs)
             /\ h.channel = c => \A type : Has(t, c, type) => <<h.type, type>> \in pairs
  <2>1. ASSUME NEW i \in DOMAIN t, NEW j \in DOMAIN t, i < j, t[i].channel = c, t[j].channel = c
        PROVE  <<t[i].type, t[j].type>> \in pairs
    <3>1. i + 1 < j + 1
          BY <1>1, <2>1
    <3>2. <<q[i + 1].type, q[j + 1].type>> \in pairs
          BY <1>1, <1>5, <2>1, <3>1 DEF Sorted
    <3> QED BY <1>1, <2>1, <3>2
  <2>2. ASSUME h.channel = c, NEW type, Has(t, c, type)
        PROVE  <<h.type, type>> \in pairs
    <3>1. PICK i \in DOMAIN t : t[i].channel = c /\ t[i].type = type
          BY <2>2 DEF Has
    <3>2. <<q[1].type, q[i + 1].type>> \in pairs
          BY <1>1, <1>5, <2>2, <3>1 DEF Sorted
    <3> QED BY <1>1, <3>1, <3>2
  <2> QED BY <2>1, <2>2 DEF Sorted
<1>6. h.channel # c => Kept(q, t, c)
      BY <1>2, <1>3, <1>4, <1>5 DEF Kept
<1> QED BY <1>2, <1>3, <1>4, <1>5, <1>6 DEF t, h

\* The positions of two streams one after the other.
LEMMA JoinPositions ==
    ASSUME NEW T, NEW q \in Seq(T), NEW r \in Seq(T)
    PROVE  /\ DOMAIN q \subseteq DOMAIN (q \o r) /\ \A i \in DOMAIN q : (q \o r)[i] = q[i]
           /\ DOMAIN q \subseteq Nat /\ DOMAIN r \subseteq Nat /\ DOMAIN (q \o r) \subseteq Nat
           /\ Len(q) \in Nat
           /\ \A i \in DOMAIN q : i <= Len(q)
           /\ \A i \in DOMAIN r :
                 /\ Len(q) + i \in DOMAIN (q \o r) /\ Len(q) < Len(q) + i
                 /\ (q \o r)[Len(q) + i] = r[i]
           /\ \A i \in DOMAIN (q \o r) :
                 i \in DOMAIN q \/ (i - Len(q) \in DOMAIN r /\ Len(q) + (i - Len(q)) = i)
<1> DEFINE j == q \o r
<1>1. /\ j \in Seq(T) /\ Len(j) = Len(q) + Len(r)
      /\ \A i \in 1..Len(q) + Len(r) : j[i] = IF i <= Len(q) THEN q[i] ELSE r[i - Len(q)]
      BY ConcatProperties
<1>2. /\ Len(q) \in Nat /\ DOMAIN q = 1..Len(q)
      /\ Len(r) \in Nat /\ DOMAIN r = 1..Len(r)
      BY LenProperties
<1>3. DOMAIN j = 1..Len(q) + Len(r)
      BY <1>1, LenProperties
<1> HIDE DEF j
<1>4. DOMAIN q \subseteq DOMAIN j /\ \A i \in DOMAIN q : j[i] = q[i] /\ i <= Len(q)
      BY <1>1, <1>2, <1>3
<1>5. ASSUME NEW i \in DOMAIN r
      PROVE  Len(q) + i \in DOMAIN j /\ Len(q) < Len(q) + i /\ j[Len(q) + i] = r[i]
  <2> DEFINE n == Len(q) + i
  <2>1. n \in 1..Len(q) + Len(r) /\ ~(n <= Len(q)) /\ n - Len(q) = i /\ Len(q) < n
        BY <1>2
  <2> QED BY <1>1, <1>3, <2>1
<1>6. \A i \in DOMAIN j : i \in DOMAIN q \/ (i - Len(q) \in DOMAIN r /\ Len(q) + (i - Len(q)) = i)
      BY <1>2, <1>3
<1>7. DOMAIN q \subseteq Nat /\ DOMAIN r \subseteq Nat /\ DOMAIN j \subseteq Nat
      BY <1>2, <1>3
<1> QED BY <1>2, <1>4, <1>5, <1>6, <1>7 DEF j

\* A channel of which nothing is added sees the same.
LEMMA ChannelKept ==
    ASSUME NEW T, NEW q \in Seq(T), NEW r \in Seq(T), NEW c, ~Some(r, c)
    PROVE  Kept(q, q \o r, c)
<1> DEFINE j == q \o r
<1>1. /\ DOMAIN q \subseteq DOMAIN j /\ \A i \in DOMAIN q : j[i] = q[i]
      /\ \A i \in DOMAIN r : Len(q) + i \in DOMAIN j /\ j[Len(q) + i] = r[i]
      /\ \A i \in DOMAIN j : i \in DOMAIN q \/ (i - Len(q) \in DOMAIN r /\ Len(q) + (i - Len(q)) = i)
      BY JoinPositions
<1> HIDE DEF j
<1>2. \A i \in DOMAIN j : j[i].channel = c => i \in DOMAIN q /\ j[i] = q[i]
      BY <1>1 DEF Some
<1>3. \A type : Has(j, c, type) <=> Has(q, c, type)
      BY <1>1, <1>2 DEF Has
<1>4. Some(j, c) <=> Some(q, c)
      BY <1>1, <1>2 DEF Some
<1>5. \A types, life : OfLife(q, c, types, life) => OfLife(j, c, types, life)
      BY <1>2 DEF OfLife
<1>6. \A pairs : Sorted(q, c, pairs) => Sorted(j, c, pairs)
      BY <1>2 DEF Sorted
<1> QED BY <1>3, <1>4, <1>5, <1>6 DEF j, Kept

\* One frame of channel c is among those that are added.
OneOf(r, c, f) ==
    \E n \in DOMAIN r : r[n] = f /\ f.channel = c /\ \A i \in DOMAIN r : r[i].channel = c => i = n

LEMMA ChannelGains ==
    ASSUME NEW T, NEW q \in Seq(T), NEW r \in Seq(T), NEW c, NEW f, OneOf(r, c, f)
    PROVE  /\ \A type : Has(q \o r, c, type) <=> Has(q, c, type) \/ f.type = type
           /\ Some(q \o r, c)
           /\ \A types, life : OfLife(q, c, types, life) /\ (f.type \in types => f.life = life) =>
                  OfLife(q \o r, c, types, life)
           /\ \A pairs : /\ Sorted(q, c, pairs)
                         /\ \A type : Has(q, c, type) => <<type, f.type>> \in pairs
                         => Sorted(q \o r, c, pairs)
<1> DEFINE j == q \o r
<1>1. /\ DOMAIN q \subseteq DOMAIN j /\ \A i \in DOMAIN q : j[i] = q[i]
      /\ DOMAIN q \subseteq Nat /\ DOMAIN r \subseteq Nat /\ DOMAIN j \subseteq Nat
      /\ Len(q) \in Nat
      /\ \A i \in DOMAIN q : i <= Len(q)
      /\ \A i \in DOMAIN r :
            /\ Len(q) + i \in DOMAIN j /\ Len(q) < Len(q) + i
            /\ j[Len(q) + i] = r[i]
      /\ \A i \in DOMAIN j :
            i \in DOMAIN q \/ (i - Len(q) \in DOMAIN r /\ Len(q) + (i - Len(q)) = i)
      BY JoinPositions
<1> HIDE DEF j
<1>2. PICK n \in DOMAIN r : /\ r[n] = f /\ f.channel = c
                            /\ \A i \in DOMAIN r : r[i].channel = c => i = n
      BY DEF OneOf
<1> DEFINE m == Len(q) + n
<1>3. m \in DOMAIN j /\ j[m] = f /\ \A i \in DOMAIN q : i < m
      BY <1>1, <1>2
<1>4. \A i \in DOMAIN j : j[i].channel = c => i = m \/ (i \in DOMAIN q /\ j[i] = q[i])
      BY <1>1, <1>2
<1> HIDE DEF m
<1>5. \A type : Has(j, c, type) <=> Has(q, c, type) \/ f.type = type
      BY <1>1, <1>2, <1>3, <1>4 DEF Has
<1>6. Some(j, c)
      BY <1>2, <1>3 DEF Some
<1>7. ASSUME NEW types, NEW life, OfLife(q, c, types, life), f.type \in types => f.life = life
      PROVE  OfLife(j, c, types, life)
      BY <1>3, <1>4, <1>7 DEF OfLife
<1>8. ASSUME NEW pairs, Sorted(q, c, pairs),
             \A type : Has(q, c, type) => <<type, f.type>> \in pairs
      PROVE  Sorted(j, c, pairs)
  <2>1. ASSUME NEW i \in DOMAIN j, NEW k \in DOMAIN j, i < k, j[i].channel = c, j[k].channel = c
        PROVE  <<j[i].type, j[k].type>> \in pairs
    <3>1. CASE i \in DOMAIN q /\ j[i] = q[i] /\ k \in DOMAIN q /\ j[k] = q[k]
          BY <1>8, <2>1, <3>1 DEF Sorted
    <3>2. CASE i \in DOMAIN q /\ j[i] = q[i] /\ k = m
          BY <1>3, <1>8, <2>1, <3>2 DEF Has
    <3>3. i # m
      <4>1. i \in Nat /\ k \in Nat /\ m \in Nat /\ (k = m \/ k < m)
            BY <1>1, <1>3, <1>4, <2>1
      <4> QED BY <4>1, <2>1
    <3> QED BY <1>4, <2>1, <3>1, <3>2, <3>3
  <2> QED BY <2>1 DEF Sorted
<1> QED BY <1>5, <1>6, <1>7, <1>8 DEF j

-----------------------------------------------------------------------------
(* The two sides when a step leaves a channel alone.                       *)

LEMMA Unaffected ==
    ASSUME NEW q, NEW c
    PROVE  Kept(q, q, c)
BY DEF Kept

LEMMA ClientSideKept ==
    ASSUME NEW c, ClientSide(c), Kept(Incoming, Incoming', c), channels'[c] = channels[c]
    PROVE  ClientSide(c)'
BY DEF ClientSide, Kept

LEMMA BrokerSideKept ==
    ASSUME NEW c, BrokerSide(c), Kept(Incoming, Incoming', c), Kept(toBroker, toBroker', c),
           channels'[c] = channels[c], brokerChannels'[c] = brokerChannels[c]
    PROVE  BrokerSide(c)'
BY DEF BrokerSide, Kept

-----------------------------------------------------------------------------
(* What is written and what arrives.                                       *)

\* The types of the frames of a channel, in each direction.
LEMMA ClientFrameTypes ==
    ASSUME NEW q \in Seq(ClientFrames), NEW c \in Numbers
    PROVE  /\ \A type : Has(q, c, type) => type \in ClientTypes
           /\ Some(q, c) <=> \E type \in ClientTypes : Has(q, c, type)
           /\ q # <<>> /\ Head(q).channel = c => Head(q).type \in ClientTypes
<1>1. \A f \in ClientFrames : f.channel = c => f.type \in ClientTypes
      BY BoundsAssumption DEF ClientFrames, Frames, Frame, ChannelFrame, Numbers, ClientTypes
<1>2. \A i \in DOMAIN q : q[i] \in ClientFrames
      BY ElementOfSeq, LenProperties
<1>3. q # <<>> => Head(q) \in ClientFrames
      BY HeadTailProperties
<1> QED BY <1>1, <1>2, <1>3 DEF Some, Has

LEMMA BrokerFrameTypes ==
    ASSUME NEW q \in Seq(BrokerFrames), NEW c \in Numbers
    PROVE  /\ \A type : Has(q, c, type) => type \in {"Open", "Close", "CloseOk"}
           /\ Some(q, c) <=> \E type \in {"Open", "Close", "CloseOk"} : Has(q, c, type)
           /\ q # <<>> /\ Head(q).channel = c => Head(q).type \in {"Open", "Close", "CloseOk"}
<1>1. \A f \in BrokerFrames : f.channel = c => f.type \in {"Open", "Close", "CloseOk"}
      BY BoundsAssumption DEF BrokerFrames, Frames, Frame, ChannelFrame, Numbers
<1>2. \A i \in DOMAIN q : q[i] \in BrokerFrames
      BY ElementOfSeq, LenProperties
<1>3. q # <<>> => Head(q) \in BrokerFrames
      BY HeadTailProperties
<1> QED BY <1>1, <1>2, <1>3 DEF Some, Has

\* Without such frames any life will do.
LEMMA LifeOfNone ==
    ASSUME NEW q, NEW c, NEW types, NEW life, \A type \in types : ~Has(q, c, type)
    PROVE  OfLife(q, c, types, life)
BY DEF Has, OfLife

\* What the client has still to process is one stream.
LEMMA IncomingTyped ==
    ASSUME WireTypes
    PROVE  /\ Incoming \in Seq(ClientFrames)
           /\ buffer = <<>> => Incoming = toClient
<1>1. buffer \in Seq(ClientFrames) /\ toClient \in Seq(ClientFrames)
      BY DEF WireTypes
<1>2. buffer = <<>> => buffer \o toClient = toClient
      BY <1>1, ConcatEmptySeq
<1> QED BY <1>1, <1>2, ConcatProperties DEF Incoming

\* A frame of channel 0 is of no channel, a channel's frame of that one.
LEMMA FrameOfChannel ==
    ASSUME NEW c \in Numbers, NEW type, NEW life
    PROVE  /\ ~Some(<<Frame(type)>>, c)
           /\ OneOf(<<ChannelFrame(type, c, life)>>, c, ChannelFrame(type, c, life))
           /\ \A d \in Numbers : d # c => ~Some(<<ChannelFrame(type, c, life)>>, d)
<1>1. DOMAIN <<Frame(type)>> = {1} /\ DOMAIN <<ChannelFrame(type, c, life)>> = {1}
      OBVIOUS
<1>2. Frame(type).channel = 0 /\ ChannelFrame(type, c, life).channel = c /\ c # 0
      BY BoundsAssumption DEF Frame, ChannelFrame, Numbers
<1> QED BY <1>1, <1>2 DEF Some, OneOf

\* What the client writes reaches the broker after what it wrote before.
LEMMA SendJoins ==
    ASSUME WireTypes, NEW frames \in Seq(BrokerFrames), Send(frames), NEW c
    PROVE  /\ ~Some(frames, c) => Kept(toBroker, toBroker', c)
           /\ transport = "ACTIVE" => toBroker' = toBroker \o frames
<1>1. toBroker \in Seq(BrokerFrames)
      BY DEF WireTypes
<1> QED BY <1>1, ChannelKept, Unaffected DEF Send

\* What the broker sends comes after what the client has still to process.
LEMMA BrokerAdds ==
    ASSUME WireTypes, NEW f \in ClientFrames, buffer' = buffer, toClient' = toClient \o <<f>>
    PROVE  /\ Incoming \in Seq(ClientFrames) /\ Incoming' = Incoming \o <<f>>
           /\ <<f>> \in Seq(ClientFrames)
<1>1. /\ buffer \in Seq(ClientFrames) /\ toClient \in Seq(ClientFrames)
      /\ <<f>> \in Seq(ClientFrames)
      BY SingleFrame DEF WireTypes
<1>2. buffer \o (toClient \o <<f>>) = (buffer \o toClient) \o <<f>>
      BY <1>1, ConcatAssociative
<1> QED BY <1>1, <1>2, IncomingTyped DEF Incoming

\* What was read comes before what is still on its way.
LEMMA BufferFirst ==
    ASSUME WireTypes, buffer # <<>>
    PROVE  /\ Incoming \in Seq(ClientFrames) /\ Incoming # <<>>
           /\ Head(Incoming) = Head(buffer) /\ Tail(Incoming) = Tail(buffer) \o toClient
<1>1. buffer \in Seq(ClientFrames) /\ toClient \in Seq(ClientFrames)
      BY DEF WireTypes
<1> DEFINE q == buffer \o toClient
<1>2. /\ q \in Seq(ClientFrames) /\ Len(q) = Len(buffer) + Len(toClient)
      /\ \A i \in 1..Len(buffer) + Len(toClient) :
            q[i] = IF i <= Len(buffer) THEN buffer[i] ELSE toClient[i - Len(buffer)]
      BY <1>1, ConcatProperties
<1>3. Len(buffer) \in Nat /\ Len(toClient) \in Nat /\ Len(buffer) # 0
      BY <1>1, LenProperties, EmptySeq
<1>4. q # <<>> /\ Head(q) = Head(buffer)
  <2>1. 1 \in 1..Len(buffer) + Len(toClient) /\ 1 <= Len(buffer)
        BY <1>3
  <2>2. q[1] = buffer[1] /\ Len(q) # 0
        BY <1>2, <1>3, <2>1
  <2> HIDE DEF q
  <2> QED BY <1>1, <1>2, <2>2
<1>5. Tail(q) = Tail(buffer) \o toClient
      BY <1>1, <1>3, <1>4
<1> QED BY <1>2, <1>4, <1>5 DEF Incoming

\* A frame that arrives is the first of those that are still to be processed.
LEMMA ArrivesFirst ==
    ASSUME WireTypes, TransportShape, NEW type, NEW d, Arrives(type, d)
    PROVE  /\ Incoming \in Seq(ClientFrames) /\ Incoming # <<>>
           /\ Incoming' = Tail(Incoming)
           /\ Head(Incoming).type = type /\ Head(Incoming).channel = d
           /\ reading /\ reading' /\ Reads
<1>1. /\ buffer # <<>> /\ buffer' = Tail(buffer) /\ toClient' = toClient
      /\ Head(buffer).type = type /\ Head(buffer).channel = d
      BY DEF Arrives, brokerVars
<1>2. reading /\ reading'
      BY <1>1 DEF TransportShape, Arrives
<1> QED BY <1>1, <1>2, BufferFirst DEF Incoming, Reads

\* What is left for a channel's client when a frame of it is taken.
LEMMA ClientRest ==
    ASSUME NEW q \in Seq(ClientFrames), q # <<>>, NEW c \in Numbers, NEW life,
           Sorted(q, c, ClientOrder), OfLife(q, c, ClientTypes, life), Head(q).channel = c
    PROVE  LET r == Tail(q)
               type == Head(q).type IN
           /\ Sorted(r, c, ClientOrder) /\ OfLife(r, c, ClientTypes, life)
           /\ Has(q, c, type) /\ Some(q, c) /\ Head(q).life = life
           /\ \A t : Has(r, c, t) => Has(q, c, t)
           /\ \A t : t # type /\ Has(q, c, t) => Has(r, c, t)
           /\ ~Has(r, c, "OpenOk")
           /\ type = "Close" => ~Has(r, c, "Content") /\ ~Has(r, c, "Close")
           /\ type = "CloseOk" => ~Some(r, c)
<1> DEFINE r == Tail(q)
           h == Head(q)
<1>1. /\ \A t : Has(q, c, t) <=> h.type = t \/ Has(r, c, t)
      /\ Some(q, c)
      /\ OfLife(r, c, ClientTypes, life) /\ (h.type \in ClientTypes => h.life = life)
      /\ Sorted(r, c, ClientOrder)
      /\ \A t : Has(r, c, t) => <<h.type, t>> \in ClientOrder
      BY ChannelRest
<1>2. r \in Seq(ClientFrames) /\ h.type \in ClientTypes
      BY ClientFrameTypes, HeadTailProperties
<1>3. Some(r, c) <=> \E t \in ClientTypes : Has(r, c, t)
      BY <1>2, ClientFrameTypes
<1> HIDE DEF r, h
<1>4. ASSUME NEW t, Has(r, c, t)
      PROVE  t # "OpenOk" /\ h.type # "CloseOk" /\ (h.type = "Close" => t = "CloseOk")
      BY <1>1, <1>4 DEF ClientOrder
<1> QED BY <1>1, <1>2, <1>3, <1>4 DEF r, h

\* What is left for the broker when a frame of a channel is taken.
LEMMA BrokerRest ==
    ASSUME NEW q \in Seq(BrokerFrames), q # <<>>, NEW c \in Numbers, NEW life,
           Sorted(q, c, BrokerOrder), OfLife(q, c, {"Open", "Close"}, life), Head(q).channel = c
    PROVE  LET r == Tail(q)
               type == Head(q).type IN
           /\ Sorted(r, c, BrokerOrder) /\ OfLife(r, c, {"Open", "Close"}, life)
           /\ Has(q, c, type) /\ (type \in {"Open", "Close"} => Head(q).life = life)
           /\ type \in {"Open", "Close", "CloseOk"}
           /\ \A t : Has(r, c, t) => Has(q, c, t)
           /\ \A t : t # type /\ Has(q, c, t) => Has(r, c, t)
           /\ ~Has(r, c, "Close")
           /\ type = "Open" => ~Has(r, c, "Open") /\ ~Has(r, c, "CloseOk")
           /\ type = "Close" => ~Has(r, c, "Open")
           /\ type = "CloseOk" => ~Has(r, c, "CloseOk")
<1> DEFINE r == Tail(q)
           h == Head(q)
<1>1. /\ \A t : Has(q, c, t) <=> h.type = t \/ Has(r, c, t)
      /\ OfLife(r, c, {"Open", "Close"}, life) /\ (h.type \in {"Open", "Close"} => h.life = life)
      /\ Sorted(r, c, BrokerOrder)
      /\ \A t : Has(r, c, t) => <<h.type, t>> \in BrokerOrder
      BY ChannelRest
<1>2. h.type \in {"Open", "Close", "CloseOk"}
      BY BrokerFrameTypes
<1> HIDE DEF r, h
<1>3. ASSUME NEW t, Has(r, c, t)
      PROVE  <<h.type, t>> \in {<<"CloseOk", "Open">>, <<"Close", "CloseOk">>}
      BY <1>1, <1>3 DEF BrokerOrder
<1> QED BY <1>1, <1>2, <1>3 DEF r, h

\* The broker's frame for a channel that may come after the others.
LEMMA ClientGains ==
    ASSUME NEW q \in Seq(ClientFrames), NEW c \in Numbers, NEW life \in 1..MaxLives,
           NEW type \in ClientTypes,
           Sorted(q, c, ClientOrder), OfLife(q, c, ClientTypes, life),
           type = "OpenOk" => ~Some(q, c),
           type \in {"Content", "Close"} => ~Has(q, c, "Close") /\ ~Has(q, c, "CloseOk"),
           type = "CloseOk" => ~Has(q, c, "CloseOk")
    PROVE  LET r == q \o <<ChannelFrame(type, c, life)>> IN
           /\ Sorted(r, c, ClientOrder) /\ OfLife(r, c, ClientTypes, life) /\ Some(r, c)
           /\ \A t : Has(r, c, t) <=> Has(q, c, t) \/ t = type
           /\ \A d \in Numbers : d # c => Kept(q, r, d)
<1> DEFINE f == ChannelFrame(type, c, life)
           r == q \o <<f>>
<1>1. f \in ClientFrames /\ <<f>> \in Seq(ClientFrames)
      BY FramesTyped, SingleFrame DEF ClientTypes
<1>2. f.type = type /\ f.life = life /\ OneOf(<<f>>, c, f)
      BY FrameOfChannel DEF ChannelFrame
<1>3. \A d \in Numbers : d # c => ~Some(<<f>>, d)
      BY FrameOfChannel
<1>4. ASSUME NEW t, Has(q, c, t)
      PROVE  <<t, type>> \in ClientOrder
  <2>1. t \in ClientTypes /\ Some(q, c)
        BY <1>4, ClientFrameTypes
  <2> QED BY <1>4, <2>1 DEF ClientOrder, ClientTypes
<1> HIDE DEF f
<1>5. /\ \A t : Has(r, c, t) <=> Has(q, c, t) \/ f.type = t
      /\ Some(r, c) /\ OfLife(r, c, ClientTypes, life) /\ Sorted(r, c, ClientOrder)
      BY <1>1, <1>2, <1>4, ChannelGains
<1>6. \A d \in Numbers : d # c => Kept(q, r, d)
      BY <1>1, <1>3, ChannelKept
<1> QED BY <1>2, <1>5, <1>6 DEF f

\* The client's frame for a channel that may come after the others.
LEMMA BrokerGains ==
    ASSUME WireTypes, transport = "ACTIVE", NEW frames \in Seq(BrokerFrames), Send(frames),
           NEW c \in Numbers, NEW type \in {"Open", "Close", "CloseOk"}, NEW life,
           OneOf(frames, c, ChannelFrame(type, c, life)),
           Sorted(toBroker, c, BrokerOrder), OfLife(toBroker, c, {"Open", "Close"}, life),
           ~Has(toBroker, c, "Open"),
           type \in {"Open", "Close"} => ~Has(toBroker, c, "Close"),
           type \in {"Close", "CloseOk"} => ~Has(toBroker, c, "CloseOk")
    PROVE  /\ Sorted(toBroker', c, BrokerOrder) /\ OfLife(toBroker', c, {"Open", "Close"}, life)
           /\ \A t : Has(toBroker', c, t) <=> Has(toBroker, c, t) \/ t = type
<1> DEFINE f == ChannelFrame(type, c, life)
           q == toBroker
<1>1. q \in Seq(BrokerFrames) /\ toBroker' = q \o frames
      BY SendJoins DEF WireTypes
<1>2. f.type = type /\ f.life = life
      BY DEF ChannelFrame
<1>3. ASSUME NEW t, Has(q, c, t)
      PROVE  <<t, type>> \in BrokerOrder
  <2>1. t \in {"Open", "Close", "CloseOk"}
        BY <1>1, <1>3, BrokerFrameTypes
  <2> QED BY <1>3, <2>1 DEF BrokerOrder
<1> HIDE DEF f
<1>4. /\ \A t : Has(q \o frames, c, t) <=> Has(q, c, t) \/ f.type = t
      /\ OfLife(q \o frames, c, {"Open", "Close"}, life)
      /\ Sorted(q \o frames, c, BrokerOrder)
      BY <1>1, <1>2, <1>3, ChannelGains DEF f
<1> QED BY <1>1, <1>2, <1>4

-----------------------------------------------------------------------------
(* The steps.                                                              *)

\* A step that leaves every channel alone.
LEMMA LanesKept ==
    ASSUME Lanes, Reads' => Reads, Exchanges' => Exchanges,
           UNCHANGED <<channels, brokerChannels>>,
           \A c \in Numbers : Kept(Incoming, Incoming', c) /\ Kept(toBroker, toBroker', c)
    PROVE  Lanes'
BY ClientSideKept, BrokerSideKept DEF Lanes, ClientSides, BrokerSides

\* The first frame the broker reads opens no channel that it has not let go of.
LEMMA OpensOnFree == WireTypes /\ BrokerSides => OpenOnFree
<1> SUFFICES ASSUME WireTypes, BrokerSides, toBroker # <<>>, Head(toBroker).type = "Open"
             PROVE  brokerChannels[Head(toBroker).channel].state = "none"
    BY DEF OpenOnFree
<1> DEFINE c == Head(toBroker).channel
<1>1. toBroker \in Seq(BrokerFrames) /\ Head(toBroker) \in BrokerFrames
      BY HeadTailProperties DEF WireTypes
<1>2. c \in Numbers
      BY <1>1 DEF BrokerFrames, Frames, Frame, ChannelFrame
<1>3. BrokerSide(c) /\ brokerChannels[c].state \in {"none", "open", "closing"}
      BY <1>2 DEF WireTypes, BrokerSides
<1>4. Has(toBroker, c, "Open") /\ ~Has(Tail(toBroker), c, "CloseOk")
      BY <1>1, <1>2, <1>3, BrokerRest DEF BrokerSide
<1>5. ~Has(toBroker, c, "CloseOk")
      BY <1>1, <1>4, ChannelRest
<1>6. ~Has(Incoming, c, "Close")
  <2>1. ~Some(Incoming, c)
        BY <1>3, <1>4 DEF BrokerSide
  <2> QED BY <2>1 DEF Some, Has
<1> QED BY <1>3, <1>4, <1>5, <1>6 DEF BrokerSide

\* So it is after every step that keeps the lanes, or leaves the broker alone.
LEMMA OpenStaysFree ==
    ASSUME OpenOnFree, WireTypes', Lanes',
           \/ transport' = "ACTIVE" \/ broker' # "up"
           \/ UNCHANGED <<toBroker, broker, brokerChannels>>
    PROVE  OpenOnFree'
<1>1. CASE broker' # "up" \/ UNCHANGED <<toBroker, broker, brokerChannels>>
      BY <1>1 DEF OpenOnFree
<1>2. CASE broker' = "up" /\ transport' = "ACTIVE"
  <2>1. BrokerSides'
        BY <1>2 DEF Lanes, Exchanges
  <2>2. WireTypes' /\ BrokerSides' => OpenOnFree'
        BY OpensOnFree, PTL
  <2> QED BY <2>1, <2>2
<1> QED BY <1>1, <1>2

\* After an abort, or a failure, the transport is on its way down.
LEMMA AbortEnds ==
    ASSUME ConnectionTypes, NEW cause, NEW asserted, InitiateAbort(cause, asserted)
    PROVE  transport' # "ACTIVE"
BY DEF InitiateAbort, ConnectionTypes

\* A frame of the connection is for no channel, and neither is what answers it.
LEMMA ConnectionFrameLanes ==
    ASSUME FramesInv, NEW type, Arrives(type, 0), channels' = channels,
           \/ toBroker' = toBroker
           \/ \E frame \in BrokerFrames : frame.channel = 0 /\ Send(<<frame>>),
           transport' = "ACTIVE" => transport = "ACTIVE"
    PROVE  Lanes'
<1>1. WireTypes /\ TransportShape /\ Lanes
      BY DEF FramesInv, ConnectionInv
<1>2. /\ Incoming \in Seq(ClientFrames) /\ Incoming # <<>> /\ Incoming' = Tail(Incoming)
      /\ Head(Incoming).channel = 0 /\ Reads
      BY <1>1, ArrivesFirst
<1>3. UNCHANGED <<broker, brokerChannels>> /\ (Exchanges' => Exchanges)
      BY DEF Arrives, brokerVars, Exchanges
<1>4. ASSUME NEW c \in Numbers
      PROVE  Kept(Incoming, Incoming', c)
  <2>1. c # 0
        BY BoundsAssumption DEF Numbers
  <2> QED BY <1>2, <2>1, ChannelRest
<1>5. ASSUME NEW c \in Numbers
      PROVE  Kept(toBroker, toBroker', c)
  <2>1. CASE toBroker' = toBroker
        BY <2>1, Unaffected
  <2>2. ASSUME NEW frame \in BrokerFrames, frame.channel = 0, Send(<<frame>>)
        PROVE  Kept(toBroker, toBroker', c)
    <3>1. c # 0 /\ DOMAIN <<frame>> = {1}
          BY BoundsAssumption DEF Numbers
    <3>2. ~Some(<<frame>>, c)
          BY <2>2, <3>1 DEF Some
    <3>3. <<frame>> \in Seq(BrokerFrames)
          OBVIOUS
    <3> QED BY <1>1, <2>2, <3>2, <3>3, SendJoins
  <2> QED BY <2>1, <2>2
<1> QED BY <1>1, <1>2, <1>3, <1>4, <1>5, LanesKept

\* The frames of channel 0.
LEMMA ConnectionLanes ==
    ASSUME FramesInv,
           OnStart \/ OnTune \/ OnOpenOk \/ OnCloseFromBroker \/ OnCloseOk \/ OnBlocked
    PROVE  Lanes'
<1>1. ConnectionTypes /\ \A t \in {"StartOk", "TuneOk+Open"} :
          Frame(t) \in BrokerFrames /\ Frame(t).channel = 0
      BY FramesTyped DEF FramesInv, ConnectionInv, Frame
<1>2. CASE OnStart
  <2>1. CASE Send(<<Frame("StartOk")>>) /\ UNCHANGED transportVars
        BY <1>1, <1>2, <2>1, ConnectionFrameLanes DEF OnStart, transportVars
  <2>2. CASE TerminateStream("handshake") /\ UNCHANGED toBroker
    <3>1. transport' # "ACTIVE"
          BY <1>1, <2>2, AbortEnds DEF TerminateStream
    <3> QED BY <1>2, <2>2, <3>1, ConnectionFrameLanes DEF OnStart
  <2> QED BY <1>2, <2>1, <2>2 DEF OnStart
<1>3. CASE OnTune
      BY <1>1, <1>3, ConnectionFrameLanes DEF OnTune, transportVars
<1>4. CASE OnOpenOk
      BY <1>4, ConnectionFrameLanes DEF OnOpenOk, transportVars
<1>5. CASE OnCloseFromBroker
  <2>1. transport' # "ACTIVE"
        BY <1>1, <1>5, AbortEnds DEF OnCloseFromBroker, TerminateStream
  <2> QED BY <1>5, <2>1, ConnectionFrameLanes DEF OnCloseFromBroker
<1>6. CASE OnCloseOk
  <2>1. transport' # "ACTIVE"
        BY <1>1, <1>6, AbortEnds DEF OnCloseOk, TerminateStream
  <2> QED BY <1>6, <2>1, ConnectionFrameLanes DEF OnCloseOk
<1>7. CASE OnBlocked
      BY <1>7, ConnectionFrameLanes DEF OnBlocked, transportVars
<1> QED BY <1>2, <1>3, <1>4, <1>5, <1>6, <1>7

\* What one recv() gives was next in the stream.
LEMMA ReceiveLanes ==
    ASSUME FramesInv, Receive
    PROVE  Lanes'
<1>1. WireTypes /\ TransportShape /\ Lanes
      BY DEF FramesInv, ConnectionInv
<1>2. buffer = <<>> /\ toClient \in Seq(ClientFrames) /\ Incoming = toClient
      BY <1>1, IncomingTyped DEF Receive, TransportShape, WireTypes
<1>3. PICK n \in 1..Len(toClient) :
          buffer' = SubSeq(toClient, 1, n) /\ toClient' = SubSeq(toClient, n + 1, Len(toClient))
      BY DEF Receive
<1>4. Incoming' = Incoming
  <2>1. /\ 1 \in 1..Len(toClient) + 1 /\ 1 - 1 <= n /\ n <= Len(toClient)
        /\ n \in 1 - 1 .. Len(toClient) /\ Len(toClient) \in n..Len(toClient)
        /\ Len(toClient) \in Nat
        BY <1>2, <1>3, LenProperties
  <2>2. SubSeq(toClient, 1, n) \o SubSeq(toClient, n + 1, Len(toClient))
            = SubSeq(toClient, 1, Len(toClient))
        BY <1>2, <2>1, ConcatAdjacentSubSeq
  <2>3. SubSeq(toClient, 1, Len(toClient)) = toClient
        BY <1>2, SubSeqFull
  <2> QED BY <1>2, <1>3, <2>2, <2>3 DEF Incoming
<1>5. /\ UNCHANGED <<channels, brokerChannels, toBroker, broker, transport>>
      /\ Reads' => Reads
      /\ Exchanges' => Exchanges
      BY DEF Receive, Reads, Exchanges, channelVars, transportVars
<1> QED BY <1>1, <1>4, <1>5, Unaffected, LanesKept

\* A step that concerns one channel.
LEMMA OneLane ==
    ASSUME Lanes, NEW c \in Numbers, Reads' => Reads, Exchanges' => Exchanges,
           \A d \in Numbers \ {c} :
               /\ channels'[d] = channels[d] /\ brokerChannels'[d] = brokerChannels[d]
               /\ Kept(Incoming, Incoming', d) /\ Kept(toBroker, toBroker', d),
           Reads' => ClientSide(c)', Exchanges' => BrokerSide(c)'
    PROVE  Lanes'
<1>1. ASSUME Reads', NEW d \in Numbers
      PROVE  ClientSide(d)'
      BY <1>1, ClientSideKept DEF Lanes, ClientSides
<1>2. ASSUME Exchanges', NEW d \in Numbers
      PROVE  BrokerSide(d)'
      BY <1>2, BrokerSideKept DEF Lanes, BrokerSides
<1> QED BY <1>1, <1>2 DEF Lanes, ClientSides, BrokerSides

\* A frame of a channel that arrives, and what is left for the channel.
LEMMA ChannelFrameTaken ==
    ASSUME FramesInv, NEW c \in Numbers, NEW type, Arrives(type, c)
    PROVE  /\ Reads /\ ClientSide(c) /\ (Exchanges => BrokerSide(c))
           /\ UNCHANGED <<broker, brokerChannels, reading>>
           /\ \A d \in Numbers \ {c} : Kept(Incoming, Incoming', d)
           /\ Sorted(Incoming', c, ClientOrder)
           /\ OfLife(Incoming', c, ClientTypes, channels[c].life)
           /\ Has(Incoming, c, type)
           /\ \A t : Has(Incoming', c, t) => Has(Incoming, c, t)
           /\ \A t : t # type /\ Has(Incoming, c, t) => Has(Incoming', c, t)
           /\ ~Has(Incoming', c, "OpenOk")
           /\ type = "Close" => ~Has(Incoming', c, "Content") /\ ~Has(Incoming', c, "Close")
           /\ type = "CloseOk" => ~Some(Incoming', c)
           /\ Some(Incoming, c)
           /\ Some(Incoming', c) <=> \E t \in ClientTypes : Has(Incoming', c, t)
           /\ channels[c].state \in
                  IF type = "OpenOk" THEN {"OPENING", "BLOCKED"} ELSE {"OPEN", "CLOSING"}
<1>1. WireTypes /\ TransportShape /\ Lanes /\ ChannelTypes
      BY DEF FramesInv, ConnectionInv
<1>2. /\ Incoming \in Seq(ClientFrames) /\ Incoming # <<>> /\ Incoming' = Tail(Incoming)
      /\ Head(Incoming).type = type /\ Head(Incoming).channel = c /\ Reads
      BY <1>1, ArrivesFirst
<1>3. ClientSide(c) /\ (Exchanges => BrokerSide(c))
      BY <1>1, <1>2 DEF Lanes, ClientSides, BrokerSides
<1>4. UNCHANGED <<broker, brokerChannels, reading>>
      BY DEF Arrives, brokerVars
<1>5. \A d \in Numbers \ {c} : Kept(Incoming, Incoming', d)
      BY <1>2, ChannelRest
<1>6. Sorted(Incoming, c, ClientOrder) /\ OfLife(Incoming, c, ClientTypes, channels[c].life)
      BY <1>3 DEF ClientSide
<1>7. /\ Sorted(Incoming', c, ClientOrder)
      /\ OfLife(Incoming', c, ClientTypes, channels[c].life)
      /\ Has(Incoming, c, type) /\ Some(Incoming, c)
      /\ \A t : Has(Incoming', c, t) => Has(Incoming, c, t)
      /\ \A t : t # type /\ Has(Incoming, c, t) => Has(Incoming', c, t)
      /\ ~Has(Incoming', c, "OpenOk")
      /\ type = "Close" => ~Has(Incoming', c, "Content") /\ ~Has(Incoming', c, "Close")
      /\ type = "CloseOk" => ~Some(Incoming', c)
      BY <1>2, <1>6, ClientRest
<1>8. Incoming' \in Seq(ClientFrames)
      BY <1>2, HeadTailProperties
<1>9. Some(Incoming', c) <=> \E t \in ClientTypes : Has(Incoming', c, t)
      BY <1>8, ClientFrameTypes
<1>10. channels[c].state \in IF type = "OpenOk" THEN {"OPENING", "BLOCKED"} ELSE {"OPEN", "CLOSING"}
  <2>1. channels[c].state \in ChannelStates
        BY <1>1 DEF ChannelTypes
  <2> QED BY <1>3, <1>7, <2>1 DEF ClientSide, Beginning, ChannelStates
<1> QED BY <1>2, <1>3, <1>4, <1>5, <1>7, <1>9, <1>10

\* The OpenOk is the first frame of its channel; a Close that waits for it follows.
LEMMA ChannelOpenOkLane ==
    ASSUME FramesInv, NEW c \in Numbers, OnChannelOpenOk(c)
    PROVE  Lanes'
<1>1. /\ Arrives("OpenOk", c) /\ transport' = transport
      /\ \/ channels[c].state = "OPENING" /\ Becomes(c, "OPEN") /\ toBroker' = toBroker
         \/ /\ channels[c].state = "BLOCKED" /\ Becomes(c, "CLOSING")
            /\ Send(<<ChannelFrame("Close", c, channels[c].life)>>)
      BY DEF OnChannelOpenOk, ChannelArrives, transportVars
<1>2. /\ Reads /\ ClientSide(c) /\ (Exchanges => BrokerSide(c))
      /\ UNCHANGED <<broker, brokerChannels, reading>>
      /\ \A d \in Numbers \ {c} : Kept(Incoming, Incoming', d)
      /\ Sorted(Incoming', c, ClientOrder)
      /\ OfLife(Incoming', c, ClientTypes, channels[c].life)
      /\ Has(Incoming, c, "OpenOk") /\ Some(Incoming, c)
      /\ \A t : Has(Incoming', c, t) => Has(Incoming, c, t)
      /\ \A t : t # "OpenOk" /\ Has(Incoming, c, t) => Has(Incoming', c, t)
      /\ ~Has(Incoming', c, "OpenOk")
      BY <1>1, ChannelFrameTaken
<1>3. WireTypes /\ ChannelTypes /\ Lanes /\ channels[c].life \in 1..MaxLives
  <2>1. WireTypes /\ ChannelTypes /\ Lanes /\ c \in Used
        BY <1>1 DEF FramesInv, ConnectionInv, Used
  <2> QED BY <2>1, BoundsAssumption DEF ChannelTypes
<1>4. /\ \A d \in Numbers \ {c} : channels'[d] = channels[d]
      /\ channels'[c].life = channels[c].life
      /\ channels'[c].state = IF channels[c].state = "OPENING" THEN "OPEN" ELSE "CLOSING"
      BY <1>1, <1>3 DEF ChannelTypes, Becomes
<1>5. ClientSide(c)'
  <2>1. ~Has(Incoming, c, "CloseOk")
        BY <1>1, <1>2 DEF ClientSide
  <2> QED BY <1>2, <1>4, <2>1 DEF ClientSide, Beginning
<1>6. Exchanges' <=> Exchanges
      BY <1>1, <1>2 DEF Exchanges
<1>7. <<ChannelFrame("Close", c, channels[c].life)>> \in Seq(BrokerFrames)
      BY <1>3, ChannelFrameSent
<1>8. ASSUME Exchanges
      PROVE  BrokerSide(c)'
  <2>1. ~Has(toBroker, c, "Open") /\ ~Has(toBroker, c, "Close") /\ ~Has(toBroker, c, "CloseOk")
        BY <1>1, <1>2, <1>8 DEF BrokerSide, Beginning
  <2>2. ~Has(Incoming', c, "CloseOk")
        BY <1>1, <1>2 DEF ClientSide
  <2>3. CASE channels[c].state = "OPENING" /\ toBroker' = toBroker
        BY <1>2, <1>4, <1>8, <2>1, <2>2, <2>3 DEF BrokerSide, Beginning
  <2>4. CASE /\ channels[c].state = "BLOCKED"
             /\ Send(<<ChannelFrame("Close", c, channels[c].life)>>)
    <3>1. Sorted(toBroker, c, BrokerOrder) /\ OfLife(toBroker, c, {"Open", "Close"}, channels[c].life)
          BY <1>2, <1>8 DEF BrokerSide
    <3>2. OneOf(<<ChannelFrame("Close", c, channels[c].life)>>, c,
                ChannelFrame("Close", c, channels[c].life))
          BY FrameOfChannel
    <3>3. /\ Sorted(toBroker', c, BrokerOrder)
          /\ OfLife(toBroker', c, {"Open", "Close"}, channels[c].life)
          /\ \A t : Has(toBroker', c, t) <=> Has(toBroker, c, t) \/ t = "Close"
          BY <1>3, <1>7, <1>8, <2>1, <2>4, <3>1, <3>2, BrokerGains DEF Exchanges
    <3> QED BY <1>2, <1>4, <1>8, <2>1, <2>2, <2>4, <3>3 DEF BrokerSide, Beginning
  <2> QED BY <1>1, <2>3, <2>4
<1>9. \A d \in Numbers \ {c} : Kept(toBroker, toBroker', d)
      BY <1>1, <1>3, <1>7, FrameOfChannel, SendJoins, Unaffected
<1> QED BY <1>2, <1>3, <1>4, <1>5, <1>6, <1>8, <1>9, OneLane

\* The broker's Close ends what it sends, but for the CloseOk of a Close that crossed.
LEMMA ChannelCloseLane ==
    ASSUME FramesInv, NEW c \in Numbers, OnChannelClose(c)
    PROVE  Lanes'
<1>1. /\ Arrives("Close", c) /\ transport' = transport
      /\ channels[c].state \in {"OPENING", "OPEN", "BLOCKED", "CLOSING"}
      /\ Send(<<ChannelFrame("CloseOk", c, channels[c].life)>>)
      /\ IF channels[c].state = "CLOSING" THEN UNCHANGED channels ELSE Becomes(c, "CLOSED")
      BY DEF OnChannelClose, ChannelArrives, transportVars
<1>2. /\ Reads /\ ClientSide(c) /\ (Exchanges => BrokerSide(c))
      /\ UNCHANGED <<broker, brokerChannels, reading>>
      /\ \A d \in Numbers \ {c} : Kept(Incoming, Incoming', d)
      /\ Sorted(Incoming', c, ClientOrder)
      /\ OfLife(Incoming', c, ClientTypes, channels[c].life)
      /\ Has(Incoming, c, "Close") /\ Some(Incoming, c)
      /\ \A t : Has(Incoming', c, t) => Has(Incoming, c, t)
      /\ \A t : t # "Close" /\ Has(Incoming, c, t) => Has(Incoming', c, t)
      /\ ~Has(Incoming', c, "OpenOk") /\ ~Has(Incoming', c, "Content")
      /\ ~Has(Incoming', c, "Close")
      /\ Some(Incoming', c) <=> \E t \in ClientTypes : Has(Incoming', c, t)
      /\ channels[c].state \in {"OPEN", "CLOSING"}
      BY <1>1, ChannelFrameTaken
<1>3. WireTypes /\ ChannelTypes /\ Lanes /\ channels[c].life \in 1..MaxLives
  <2>1. WireTypes /\ ChannelTypes /\ Lanes /\ c \in Used
        BY <1>1 DEF FramesInv, ConnectionInv, Used
  <2> QED BY <2>1, BoundsAssumption DEF ChannelTypes
<1>4. /\ \A d \in Numbers \ {c} : channels'[d] = channels[d]
      /\ channels'[c].life = channels[c].life
      /\ channels'[c].state = IF channels[c].state = "CLOSING" THEN "CLOSING" ELSE "CLOSED"
      BY <1>1, <1>3 DEF ChannelTypes, Becomes
<1>5. Has(Incoming', c, "CloseOk") => channels[c].state = "CLOSING"
      BY <1>2 DEF ClientSide
<1>6. ClientSide(c)'
  <2>1. Some(Incoming', c) => Has(Incoming', c, "CloseOk")
        BY <1>2 DEF ClientTypes
  <2> QED BY <1>2, <1>4, <1>5, <2>1 DEF ClientSide, Beginning
<1>7. Exchanges' <=> Exchanges
      BY <1>1, <1>2 DEF Exchanges
<1>8. <<ChannelFrame("CloseOk", c, channels[c].life)>> \in Seq(BrokerFrames)
      BY <1>3, ChannelFrameSent
<1>9. ASSUME Exchanges
      PROVE  BrokerSide(c)'
  <2>1. ~Has(toBroker, c, "Open") /\ ~Has(toBroker, c, "CloseOk") /\ brokerChannels[c].state = "closing"
        BY <1>2, <1>9 DEF BrokerSide
  <2>2. Sorted(toBroker, c, BrokerOrder) /\ OfLife(toBroker, c, {"Open", "Close"}, channels[c].life)
        BY <1>2, <1>9 DEF BrokerSide
  <2>3. Has(toBroker, c, "Close") => channels[c].state = "CLOSING" /\ ~Has(Incoming', c, "CloseOk")
        BY <1>2, <1>9 DEF BrokerSide
  <2>4. OneOf(<<ChannelFrame("CloseOk", c, channels[c].life)>>, c,
              ChannelFrame("CloseOk", c, channels[c].life))
        BY FrameOfChannel
  <2>5. /\ Sorted(toBroker', c, BrokerOrder)
        /\ OfLife(toBroker', c, {"Open", "Close"}, channels[c].life)
        /\ \A t : Has(toBroker', c, t) <=> Has(toBroker, c, t) \/ t = "CloseOk"
        BY <1>1, <1>3, <1>8, <1>9, <2>1, <2>2, <2>4, BrokerGains DEF Exchanges
  <2> QED BY <1>2, <1>4, <2>1, <2>3, <2>5 DEF BrokerSide, Beginning
<1>10. \A d \in Numbers \ {c} : Kept(toBroker, toBroker', d)
      BY <1>1, <1>3, <1>8, FrameOfChannel, SendJoins
<1> QED BY <1>2, <1>3, <1>4, <1>6, <1>7, <1>9, <1>10, OneLane

\* CloseOk is the last frame of its channel.
LEMMA ChannelCloseOkLane ==
    ASSUME FramesInv, NEW c \in Numbers, OnChannelCloseOk(c)
    PROVE  Lanes'
<1>1. /\ Arrives("CloseOk", c) /\ transport' = transport /\ toBroker' = toBroker
      /\ channels[c].state = "CLOSING" /\ Becomes(c, "CLOSED")
      BY DEF OnChannelCloseOk, ChannelArrives, transportVars
<1>2. /\ Reads /\ ClientSide(c) /\ (Exchanges => BrokerSide(c))
      /\ UNCHANGED <<broker, brokerChannels, reading>>
      /\ \A d \in Numbers \ {c} : Kept(Incoming, Incoming', d)
      /\ Sorted(Incoming', c, ClientOrder)
      /\ OfLife(Incoming', c, ClientTypes, channels[c].life)
      /\ Has(Incoming, c, "CloseOk") /\ Some(Incoming, c)
      /\ \A t : t # "CloseOk" /\ Has(Incoming, c, t) => Has(Incoming', c, t)
      /\ ~Some(Incoming', c)
      /\ Some(Incoming', c) <=> \E t \in ClientTypes : Has(Incoming', c, t)
      BY <1>1, ChannelFrameTaken
<1>3. ChannelTypes /\ Lanes
      BY DEF FramesInv, ConnectionInv
<1>4. /\ \A d \in Numbers \ {c} : channels'[d] = channels[d]
      /\ channels'[c].life = channels[c].life /\ channels'[c].state = "CLOSED"
      BY <1>1, <1>3 DEF ChannelTypes, Becomes
<1>5. \A t \in ClientTypes : ~Has(Incoming', c, t)
      BY <1>2
<1>6. ClientSide(c)'
      BY <1>2, <1>4, <1>5 DEF ClientSide, Beginning, ClientTypes
<1>7. Exchanges' <=> Exchanges
      BY <1>1, <1>2 DEF Exchanges
<1>8. ASSUME Exchanges
      PROVE  BrokerSide(c)'
  <2>1. /\ ~Has(toBroker, c, "Open") /\ ~Has(toBroker, c, "Close")
        /\ brokerChannels[c].state # "open"
        BY <1>2, <1>8 DEF BrokerSide
  <2>2. ~Has(Incoming, c, "Close")
        BY <1>2, <1>5 DEF ClientTypes
  <2>3. ~Has(Incoming', c, "Close") /\ ~Has(Incoming', c, "CloseOk")
        BY <1>5 DEF ClientTypes
  <2> QED BY <1>1, <1>2, <1>4, <1>8, <2>1, <2>2, <2>3 DEF BrokerSide, Beginning
<1> QED BY <1>1, <1>2, <1>3, <1>4, <1>6, <1>7, <1>8, Unaffected, OneLane

\* A content reaches its own channel; no frame comes for a channel that is gone.
LEMMA OtherFrameLane ==
    ASSUME FramesInv, NEW c \in Numbers, OnOtherFrame(c)
    PROVE  Lanes'
<1>1. PICK type \in ClientTypes :
          /\ Arrives(type, c) /\ transport' = transport /\ toBroker' = toBroker
          /\ channels' = channels
          /\ type # "Content" => channels[c].state = "none"
      BY DEF OnOtherFrame, ChannelArrives, transportVars, ClientTypes
<1>2. /\ Reads /\ ClientSide(c) /\ (Exchanges => BrokerSide(c))
      /\ UNCHANGED <<broker, brokerChannels, reading>>
      /\ \A d \in Numbers \ {c} : Kept(Incoming, Incoming', d)
      /\ Sorted(Incoming', c, ClientOrder)
      /\ OfLife(Incoming', c, ClientTypes, channels[c].life)
      /\ Some(Incoming, c)
      /\ \A t : Has(Incoming', c, t) => Has(Incoming, c, t)
      /\ \A t : t # type /\ Has(Incoming, c, t) => Has(Incoming', c, t)
      /\ ~Has(Incoming', c, "OpenOk")
      /\ channels[c].state \in IF type = "OpenOk" THEN {"OPENING", "BLOCKED"} ELSE {"OPEN", "CLOSING"}
      BY <1>1, ChannelFrameTaken
<1>3. type = "Content" /\ channels[c].state \in {"OPEN", "CLOSING"}
      BY <1>1, <1>2
<1>4. ClientSide(c)'
      BY <1>1, <1>2, <1>3 DEF ClientSide, Beginning
<1>5. Exchanges' <=> Exchanges
      BY <1>1, <1>2 DEF Exchanges
<1>6. Exchanges => BrokerSide(c)'
      BY <1>1, <1>2, <1>3 DEF BrokerSide, Beginning
<1> QED BY <1>1, <1>2, <1>4, <1>5, <1>6, Unaffected, OneLane DEF FramesInv

\* A channel that is cleaned up has nothing to receive, and nothing under way but
\* the CloseOk that frees its number.
LEMMA ChannelCleanupLane ==
    ASSUME FramesInv, NEW c \in Numbers, OnChannelCleanup(c)
    PROVE  Lanes'
<1>1. /\ channels[c].state = "CLOSED" /\ channels' = [channels EXCEPT ![c] = NoChannel]
      /\ \/ toBroker' = toBroker
         \/ Send(<<Frame("Close")>>)
      /\ UNCHANGED <<transport, readVars, brokerVars>>
      BY DEF OnChannelCleanup
<1>2. WireTypes /\ ChannelTypes /\ Lanes /\ (Reads' <=> Reads) /\ (Exchanges' <=> Exchanges)
      BY <1>1 DEF FramesInv, ConnectionInv, Reads, Exchanges, readVars, brokerVars
<1>3. Incoming' = Incoming /\ UNCHANGED <<broker, brokerChannels>>
      BY <1>1 DEF Incoming, readVars, brokerVars
<1>4. /\ \A d \in Numbers \ {c} : channels'[d] = channels[d]
      /\ channels'[c].life = 0 /\ channels'[c].state = "none"
      BY <1>1, <1>2 DEF ChannelTypes, NoChannel
<1>5. \A d \in Numbers : Kept(toBroker, toBroker', d)
  <2>1. <<Frame("Close")>> \in Seq(BrokerFrames)
        BY FramesTyped, SingleFrame
  <2> QED BY <1>1, <1>2, <2>1, FrameOfChannel, SendJoins, Unaffected
<1>6. ASSUME Reads
      PROVE  ClientSide(c)' /\ ~Some(Incoming, c)
  <2>1. ClientSide(c)
        BY <1>2, <1>6 DEF Lanes, ClientSides
  <2>2. ~Some(Incoming, c) /\ \A t \in ClientTypes : ~Has(Incoming, c, t)
        BY <1>1, <2>1 DEF ClientSide, Some, Has
  <2>3. OfLife(Incoming, c, ClientTypes, 0)
        BY <2>2, LifeOfNone
  <2> QED BY <1>3, <1>4, <2>1, <2>2, <2>3 DEF ClientSide, Beginning, ClientTypes
<1>7. ASSUME Exchanges
      PROVE  BrokerSide(c)'
  <2>1. BrokerSide(c) /\ ~Some(Incoming, c)
        BY <1>2, <1>6, <1>7 DEF Lanes, BrokerSides, Exchanges, Reads
  <2>2. ~Has(toBroker, c, "Open") /\ ~Has(toBroker, c, "Close") /\ brokerChannels[c].state # "open"
        BY <1>1, <2>1 DEF BrokerSide, Beginning
  <2>3. /\ \A t : Has(toBroker', c, t) <=> Has(toBroker, c, t)
        /\ Sorted(toBroker', c, BrokerOrder)
        BY <1>5, <2>1 DEF BrokerSide, Kept
  <2>4. OfLife(toBroker', c, {"Open", "Close"}, 0)
        BY <2>2, <2>3, LifeOfNone
  <2> QED BY <1>3, <1>4, <2>1, <2>2, <2>3, <2>4 DEF BrokerSide, Beginning
<1> QED BY <1>2, <1>3, <1>4, <1>5, <1>6, <1>7, Unaffected, OneLane

\* A new channel takes a number of which nothing is under way but, perhaps, the
\* CloseOk of its former channel.
LEMMA OpenChannelLane ==
    ASSUME FramesInv, OpenChannel
    PROVE  Lanes'
<1>1. lives < MaxLives /\ Used # Numbers /\ UNCHANGED <<transport, readVars, brokerVars>>
      BY DEF OpenChannel, transportVars
<1>2. PICK c \in Numbers \ Used, l \in {lives + 1} :
          /\ channels' = [channels EXCEPT ![c] = [state |-> "OPENING", life |-> l]]
          /\ Send(<<ChannelFrame("Open", c, l)>>)
      BY <1>1, FreeNumber DEF OpenChannel
<1>3. WireTypes /\ ChannelTypes /\ Lanes
      BY DEF FramesInv, ConnectionInv
<1>4. l \in 1..MaxLives
      BY <1>1, <1>2, <1>3, BoundsAssumption DEF ChannelTypes
<1>5. (Reads' <=> Reads) /\ (Exchanges' <=> Exchanges) /\ Incoming' = Incoming
      /\ UNCHANGED <<broker, brokerChannels>>
      BY <1>1 DEF Reads, Exchanges, Incoming, readVars, brokerVars
<1>6. /\ \A d \in Numbers \ {c} : channels'[d] = channels[d]
      /\ channels'[c].life = l /\ channels'[c].state = "OPENING"
      /\ channels[c].state = "none"
      BY <1>2, <1>3, <1>4 DEF ChannelTypes, Used
<1>7. <<ChannelFrame("Open", c, l)>> \in Seq(BrokerFrames)
      BY <1>2, <1>4, ChannelFrameSent
<1>8. ASSUME Reads
      PROVE  ClientSide(c)' /\ ~Some(Incoming, c)
  <2>1. ClientSide(c)
        BY <1>2, <1>3, <1>8 DEF Lanes, ClientSides
  <2>2. ~Some(Incoming, c) /\ \A t \in ClientTypes : ~Has(Incoming, c, t)
        BY <1>6, <2>1 DEF ClientSide, Some, Has
  <2>3. OfLife(Incoming, c, ClientTypes, l)
        BY <2>2, LifeOfNone
  <2> QED BY <1>5, <1>6, <2>1, <2>2, <2>3 DEF ClientSide, Beginning, ClientTypes
<1>9. ASSUME Exchanges
      PROVE  BrokerSide(c)'
  <2>1. BrokerSide(c) /\ ~Some(Incoming, c) /\ transport = "ACTIVE"
        BY <1>2, <1>3, <1>8, <1>9 DEF Lanes, BrokerSides, Exchanges, Reads
  <2>2. ~Has(toBroker, c, "Open") /\ ~Has(toBroker, c, "Close") /\ brokerChannels[c].state # "open"
        BY <1>6, <2>1 DEF BrokerSide, Beginning
  <2>3. OfLife(toBroker, c, {"Open", "Close"}, l) /\ Sorted(toBroker, c, BrokerOrder)
        BY <2>1, <2>2, LifeOfNone DEF BrokerSide
  <2>4. OneOf(<<ChannelFrame("Open", c, l)>>, c, ChannelFrame("Open", c, l))
        BY FrameOfChannel
  <2>5. /\ Sorted(toBroker', c, BrokerOrder)
        /\ OfLife(toBroker', c, {"Open", "Close"}, l)
        /\ \A t : Has(toBroker', c, t) <=> Has(toBroker, c, t) \/ t = "Open"
        BY <1>2, <1>3, <1>7, <2>1, <2>2, <2>3, <2>4, BrokerGains
  <2> QED BY <1>5, <1>6, <2>1, <2>2, <2>5 DEF BrokerSide, Beginning
<1>10. \A d \in Numbers \ {c} : Kept(toBroker, toBroker', d)
      BY <1>2, <1>3, <1>7, FrameOfChannel, SendJoins
<1> QED BY <1>2, <1>3, <1>5, <1>6, <1>8, <1>9, <1>10, Unaffected, OneLane

\* A channel that is asked to close writes its Close when it is open.
LEMMA ClosingLane ==
    ASSUME FramesInv, NEW c \in Numbers, NEW frames \in Seq(BrokerFrames), Send(frames),
           UNCHANGED <<transport, readVars, brokerVars>>,
           channels'[c] = [channels[c] EXCEPT !.state = Closing(@)],
           channels[c].state = "OPEN" =>
               OneOf(frames, c, ChannelFrame("Close", c, channels[c].life)),
           channels[c].state # "OPEN" => ~Some(frames, c)
    PROVE  /\ Reads' <=> Reads
           /\ Exchanges' <=> Exchanges
           /\ Reads => ClientSide(c)'
           /\ Exchanges => BrokerSide(c)'
<1>1. WireTypes /\ ChannelTypes /\ Lanes
      BY DEF FramesInv, ConnectionInv
<1>2. (Reads' <=> Reads) /\ (Exchanges' <=> Exchanges) /\ Incoming' = Incoming
      /\ UNCHANGED <<broker, brokerChannels>>
      BY DEF Reads, Exchanges, Incoming, readVars, brokerVars
<1>3. /\ channels'[c].life = channels[c].life
      /\ channels'[c].state = Closing(channels[c].state)
      BY <1>1 DEF ChannelTypes
<1>4. ASSUME Reads
      PROVE  ClientSide(c)'
  <2>1. ClientSide(c)
        BY <1>1, <1>4 DEF Lanes, ClientSides
  <2> QED BY <1>2, <1>3, <2>1 DEF ClientSide, Beginning, Closing
<1>5. ASSUME Exchanges
      PROVE  BrokerSide(c)'
  <2>1. BrokerSide(c) /\ ClientSide(c) /\ transport = "ACTIVE"
        BY <1>1, <1>5 DEF Lanes, BrokerSides, ClientSides, Exchanges, Reads
  <2>2. CASE channels[c].state = "OPEN"
    <3>1. ~Has(toBroker, c, "Open") /\ ~Has(toBroker, c, "Close") /\ ~Has(toBroker, c, "CloseOk")
          BY <2>1, <2>2 DEF BrokerSide, Beginning
    <3>2. ~Has(Incoming, c, "CloseOk")
          BY <2>1, <2>2 DEF ClientSide
    <3>3. Sorted(toBroker, c, BrokerOrder) /\ OfLife(toBroker, c, {"Open", "Close"}, channels[c].life)
          BY <2>1 DEF BrokerSide
    <3>4. /\ Sorted(toBroker', c, BrokerOrder)
          /\ OfLife(toBroker', c, {"Open", "Close"}, channels[c].life)
          /\ \A t : Has(toBroker', c, t) <=> Has(toBroker, c, t) \/ t = "Close"
          BY <1>1, <2>1, <2>2, <3>1, <3>3, BrokerGains
    <3> QED BY <1>2, <1>3, <2>1, <2>2, <3>1, <3>2, <3>4 DEF BrokerSide, Beginning, Closing
  <2>3. CASE channels[c].state # "OPEN"
    <3>1. Kept(toBroker, toBroker', c)
          BY <1>1, <2>3, SendJoins
    <3>2. Closing(channels[c].state) =
              IF channels[c].state = "OPENING" THEN "BLOCKED" ELSE channels[c].state
          BY <2>3 DEF Closing
    <3> QED BY <1>2, <1>3, <2>1, <2>3, <3>1, <3>2 DEF BrokerSide, Beginning, Kept
  <2> QED BY <2>2, <2>3
<1> QED BY <1>2, <1>4, <1>5

\* Channel.close().
LEMMA CloseChannelLane ==
    ASSUME FramesInv, NEW c \in Numbers, CloseChannel(c)
    PROVE  Lanes'
<1> DEFINE frames == IF c \in OpenOnes THEN <<ChannelFrame("Close", c, channels[c].life)>> ELSE <<>>
<1>1. /\ channels[c].state \in {"OPENING", "OPEN"} /\ Becomes(c, Closing(channels[c].state))
      /\ Send(frames) /\ UNCHANGED <<transport, readVars, brokerVars>>
      BY DEF CloseChannel, transportVars
<1>2. WireTypes /\ ChannelTypes /\ Lanes /\ channels[c].life \in 1..MaxLives
  <2>1. WireTypes /\ ChannelTypes /\ Lanes /\ c \in Used
        BY <1>1 DEF FramesInv, ConnectionInv, Used
  <2> QED BY <2>1, BoundsAssumption DEF ChannelTypes
<1>3. /\ \A d \in Numbers \ {c} : channels'[d] = channels[d]
      /\ channels'[c] = [channels[c] EXCEPT !.state = Closing(@)]
      BY <1>1, <1>2 DEF ChannelTypes, Becomes
<1>4. /\ frames \in Seq(BrokerFrames)
      /\ channels[c].state = "OPEN" =>
             OneOf(frames, c, ChannelFrame("Close", c, channels[c].life))
      /\ channels[c].state # "OPEN" => ~Some(frames, c)
      /\ \A d \in Numbers \ {c} : ~Some(frames, d)
  <2>1. CASE channels[c].state = "OPEN"
    <3>1. frames = <<ChannelFrame("Close", c, channels[c].life)>>
          BY <2>1 DEF OpenOnes
    <3> HIDE DEF frames
    <3> QED BY <1>2, <2>1, <3>1, ChannelFrameSent, FrameOfChannel
  <2>2. CASE channels[c].state # "OPEN"
    <3>1. frames = <<>>
          BY <2>2 DEF OpenOnes
    <3> HIDE DEF frames
    <3>2. \A d \in Numbers : ~Some(frames, d)
          BY <3>1 DEF Some
    <3> QED BY <2>2, <3>1, <3>2, EmptySeq
  <2> QED BY <2>1, <2>2
<1> HIDE DEF frames
<1>5. /\ Reads' <=> Reads
      /\ Exchanges' <=> Exchanges
      /\ Reads => ClientSide(c)'
      /\ Exchanges => BrokerSide(c)'
      BY <1>1, <1>3, <1>4, ClosingLane
<1>6. Incoming' = Incoming /\ brokerChannels' = brokerChannels
      BY <1>1 DEF Incoming, readVars, brokerVars
<1>7. \A d \in Numbers \ {c} : Kept(toBroker, toBroker', d)
      BY <1>1, <1>2, <1>4, SendJoins
<1> QED BY <1>2, <1>3, <1>5, <1>6, <1>7, Unaffected, OneLane

\* What close() writes has the Close of each channel that is open, and of no other.
LEMMA ClosesOpenOnes ==
    ASSUME ChannelTypes
    PROVE  LET open == SetToSeq(OpenOnes)
               frames == [i \in DOMAIN open |->
                             ChannelFrame("Close", open[i], channels[open[i]].life)]
           IN  /\ frames \in Seq(BrokerFrames)
               /\ \A c \in Numbers :
                     /\ channels[c].state = "OPEN" =>
                            OneOf(frames, c, ChannelFrame("Close", c, channels[c].life))
                     /\ channels[c].state # "OPEN" => ~Some(frames, c)
<1> DEFINE open == SetToSeq(OpenOnes)
           frames == [i \in DOMAIN open |->
                         ChannelFrame("Close", open[i], channels[open[i]].life)]
           K == Cardinality(OpenOnes)
<1>1. OpenOnes \in SUBSET Numbers /\ IsFiniteSet(OpenOnes)
  <2>1. IsFiniteSet(Numbers)
        BY BoundsAssumption, FS_Interval DEF Numbers
  <2> QED BY <2>1, FS_Subset DEF OpenOnes
<1>2. /\ K \in Nat /\ open \in [1..K -> OpenOnes]
      /\ \A i, j \in 1..K : open[i] = open[j] => i = j
      /\ \A c \in OpenOnes : \E i \in 1..K : open[i] = c
  <2>1. K \in Nat /\ ExistsBijection(1..K, OpenOnes)
        BY <1>1, FS_CardinalityType
  <2>2. \E f \in [1..K -> OpenOnes] : IsInjective(f)
        BY <2>1 DEF ExistsBijection, Bijection, Injection
  <2>3. open \in [1..K -> OpenOnes] /\ IsInjective(open)
        BY <2>2 DEF SetToSeq
  <2> HIDE DEF open
  <2>4. \A i, j \in 1..K : open[i] = open[j] => i = j
        BY <2>3 DEF IsInjective
  <2>5. IsFiniteSet(1..K) /\ Cardinality(1..K) = K
    <3>1. IsFiniteSet(1..K) /\ Cardinality(1..K) = IF 1 > K THEN 0 ELSE K - 1 + 1
          BY <2>1, FS_Interval
    <3> HIDE DEF K
    <3> QED BY <2>1, <3>1
  <2>6. open \in Injection(1..K, OpenOnes)
        BY <2>3 DEF Injection
  <2>7. open \in Surjection(1..K, OpenOnes)
        BY <1>1, <2>5, <2>6, FS_Injection
  <2>8. \A c \in OpenOnes : \E i \in 1..K : open[i] = c
        BY <2>7 DEF Surjection
  <2> QED BY <2>1, <2>3, <2>4, <2>8
<1> HIDE DEF open, K
<1>3. DOMAIN open = 1..K /\ DOMAIN frames = 1..K
      BY <1>2
<1>4. \A c \in OpenOnes : ChannelFrame("Close", c, channels[c].life) \in BrokerFrames
  <2>1. \A c \in OpenOnes : channels[c].life \in 1..MaxLives /\ c \in Numbers
        BY BoundsAssumption DEF ChannelTypes, OpenOnes, Used
  <2> QED BY <2>1, FramesTyped
<1>5. frames \in Seq(BrokerFrames)
  <2>1. frames \in [1..K -> BrokerFrames]
        BY <1>2, <1>3, <1>4
  <2> QED BY <1>2, <2>1, SeqDef
<1>6. ASSUME NEW c \in Numbers, channels[c].state = "OPEN"
      PROVE  OneOf(frames, c, ChannelFrame("Close", c, channels[c].life))
  <2>1. PICK n \in 1..K : open[n] = c
        BY <1>2, <1>6 DEF OpenOnes
  <2>2. frames[n] = ChannelFrame("Close", c, channels[c].life)
        BY <1>3, <2>1
  <2>3. \A i \in 1..K : frames[i].channel = open[i]
        BY <1>3 DEF ChannelFrame
  <2>4. ChannelFrame("Close", c, channels[c].life).channel = c
        BY DEF ChannelFrame
  <2> HIDE DEF frames
  <2> QED BY <1>2, <1>3, <2>1, <2>2, <2>3, <2>4 DEF OneOf
<1>7. ASSUME NEW c \in Numbers, channels[c].state # "OPEN"
      PROVE  ~Some(frames, c)
  <2>1. \A i \in 1..K : frames[i].channel = open[i] /\ open[i] # c
        BY <1>2, <1>3, <1>7 DEF ChannelFrame, OpenOnes
  <2> HIDE DEF frames
  <2> QED BY <1>3, <2>1 DEF Some
<1> HIDE DEF frames
<1> QED BY <1>5, <1>6, <1>7 DEF frames, open

\* close() of the connection asks every channel to close; during the handshake
\* there is none.
LEMMA CloseLanes ==
    ASSUME FramesInv, Close
    PROVE  Lanes'
<1>1. /\ Calling /\ UNCHANGED <<opened, readVars, brokerVars>>
      /\ channels' = [c \in Numbers |-> [channels[c] EXCEPT !.state = Closing(@)]]
      BY DEF Close
<1>2. WireTypes /\ ChannelTypes /\ ConnectionTypes /\ Lanes
      BY DEF FramesInv, ConnectionInv
<1>3. CASE ~opened /\ TerminateStream("aborted")
  <2>1. transport' # "ACTIVE"
        BY <1>2, <1>3, AbortEnds DEF TerminateStream
  <2>2. ~reading'
        BY <1>1, <1>2, <1>3 DEF Calling, readVars, ConnectionTypes
  <2> QED BY <2>1, <2>2 DEF Lanes, Reads, Exchanges
<1>4. CASE /\ opened /\ UNCHANGED <<heartbeat, transportVars>>
           /\ LET open == SetToSeq(OpenOnes)
              IN Send(IF Used = {} THEN <<Frame("Close")>>
                      ELSE [i \in DOMAIN open |->
                               ChannelFrame("Close", open[i], channels[open[i]].life)])
  <2> DEFINE open == SetToSeq(OpenOnes)
             closes == [i \in DOMAIN open |->
                           ChannelFrame("Close", open[i], channels[open[i]].life)]
             frames == IF Used = {} THEN <<Frame("Close")>> ELSE closes
  <2>1. Send(frames) /\ UNCHANGED transport
        BY <1>4 DEF transportVars
  <2>2. /\ frames \in Seq(BrokerFrames)
        /\ \A c \in Numbers :
              /\ channels[c].state = "OPEN" =>
                     OneOf(frames, c, ChannelFrame("Close", c, channels[c].life))
              /\ channels[c].state # "OPEN" => ~Some(frames, c)
    <3>1. CASE Used = {}
      <4>1. frames = <<Frame("Close")>>
            BY <3>1
      <4>2. <<Frame("Close")>> \in Seq(BrokerFrames)
            BY FramesTyped, SingleFrame
      <4>3. \A c \in Numbers : channels[c].state # "OPEN" /\ ~Some(<<Frame("Close")>>, c)
            BY <3>1, FrameOfChannel DEF Used
      <4> HIDE DEF frames
      <4> QED BY <4>1, <4>2, <4>3
    <3>2. CASE Used # {}
      <4>1. frames = closes
            BY <3>2
      <4> HIDE DEF frames
      <4> QED BY <1>2, <4>1, ClosesOpenOnes
    <3> QED BY <3>1, <3>2
  <2> HIDE DEF frames
  <2>3. \A c \in Numbers : channels'[c] = [channels[c] EXCEPT !.state = Closing(@)]
        BY <1>1
  <2>4. ASSUME NEW c \in Numbers
        PROVE  /\ Reads' <=> Reads
               /\ Exchanges' <=> Exchanges
               /\ Reads => ClientSide(c)'
               /\ Exchanges => BrokerSide(c)'
        BY <1>1, <2>1, <2>2, <2>3, ClosingLane
  <2>5. Numbers # {}
        BY BoundsAssumption DEF Numbers
  <2> QED BY <2>4, <2>5 DEF Lanes, ClientSides, BrokerSides
<1> QED BY <1>3, <1>4 DEF Close

\* The broker sends a frame for a channel it has open: a content, or its Close.
LEMMA BrokerChannelLane ==
    ASSUME FramesInv, NEW c \in Numbers, BrokerDelivers(c) \/ BrokerClosesChannel(c)
    PROVE  Lanes'
<1>1. PICK type \in {"Content", "Close"} :
          /\ transport = "ACTIVE" /\ broker = "up" /\ brokerChannels[c].state = "open"
          /\ toClient' = toClient \o <<ChannelFrame(type, c, brokerChannels[c].life)>>
          /\ brokerChannels' = IF type = "Content" THEN brokerChannels
                               ELSE [brokerChannels EXCEPT ![c].state = "closing"]
          /\ UNCHANGED <<channels, transport, reading, buffer, toBroker, broker>>
      BY DEF BrokerDelivers, BrokerClosesChannel, BrokerSends, channelVars, transportVars, readVars
<1>2. WireTypes /\ Lanes /\ Reads /\ Exchanges /\ Reads' /\ Exchanges'
      BY <1>1 DEF FramesInv, ConnectionInv, Reads, Exchanges
<1>3. ClientSide(c) /\ BrokerSide(c)
      BY <1>2 DEF Lanes, ClientSides, BrokerSides
<1> DEFINE life == channels[c].life
<1>4. /\ channels[c].state \notin {"none", "CLOSED"} /\ brokerChannels[c].life = life
      /\ ~Has(Incoming, c, "Close") /\ ~Has(Incoming, c, "CloseOk")
      /\ channels[c].state \in Beginning => Has(Incoming, c, "OpenOk")
      BY <1>1, <1>3 DEF BrokerSide
<1>5. life \in 1..MaxLives
  <2>1. brokerChannels[c].life \in 0..MaxLives /\ brokerChannels[c].life # 0
        BY <1>1, <1>2 DEF WireTypes
  <2> QED BY <1>4, <2>1, BoundsAssumption
<1> HIDE DEF life
<1>6. Incoming \in Seq(ClientFrames) /\ Incoming' = Incoming \o <<ChannelFrame(type, c, life)>>
  <2>1. ChannelFrame(type, c, life) \in ClientFrames
        BY <1>5, FramesTyped
  <2> QED BY <1>1, <1>2, <1>4, <2>1, BrokerAdds
<1>7. /\ Sorted(Incoming, c, ClientOrder) /\ OfLife(Incoming, c, ClientTypes, life)
      BY <1>3 DEF ClientSide, life
<1>8. /\ Sorted(Incoming', c, ClientOrder) /\ OfLife(Incoming', c, ClientTypes, life)
      /\ Some(Incoming', c)
      /\ \A t : Has(Incoming', c, t) <=> Has(Incoming, c, t) \/ t = type
      /\ \A d \in Numbers : d # c => Kept(Incoming, Incoming', d)
  <2>1. type \in ClientTypes /\ type # "OpenOk" /\ type # "CloseOk"
        BY <1>1 DEF ClientTypes
  <2> QED BY <1>4, <1>5, <1>6, <1>7, <2>1, ClientGains
<1>9. ClientSide(c)'
      BY <1>1, <1>3, <1>4, <1>8 DEF ClientSide, Beginning, life
<1>10. /\ ~Has(toBroker, c, "Open") /\ ~Has(toBroker, c, "CloseOk")
       /\ Has(toBroker, c, "Close") => channels[c].state = "CLOSING"
      BY <1>1, <1>3 DEF BrokerSide
<1>11. /\ \A d \in Numbers \ {c} : brokerChannels'[d] = brokerChannels[d]
       /\ brokerChannels'[c].life = brokerChannels[c].life
       /\ brokerChannels'[c].state = IF type = "Content" THEN "open" ELSE "closing"
      BY <1>1, <1>2 DEF WireTypes
<1>12. BrokerSide(c)'
      BY <1>1, <1>3, <1>4, <1>8, <1>10, <1>11 DEF BrokerSide, Beginning, life
<1> QED BY <1>1, <1>2, <1>8, <1>9, <1>11, <1>12, Unaffected, OneLane

\* Frames of the connection from the broker, and the end of what it sends.
LEMMA BrokerConnectionLanes ==
    ASSUME FramesInv, BrokerBlocks \/ BrokerCloses \/ BrokerGone
    PROVE  Lanes'
<1>1. /\ UNCHANGED <<channels, transport, reading, buffer, toBroker, brokerChannels>>
      /\ broker' \in {broker, "closing", "gone"}
      /\ \/ toClient' = toClient
         \/ \E t \in {"Blocked", "Unblocked", "Close"} : toClient' = toClient \o <<Frame(t)>>
      BY DEF BrokerBlocks, BrokerCloses, BrokerGone, BrokerSends, channelVars, transportVars,
             readVars
<1>2. WireTypes /\ Lanes /\ (Reads' => Reads) /\ (Exchanges' => Exchanges)
      BY <1>1 DEF FramesInv, ConnectionInv, Reads, Exchanges
<1>3. ASSUME NEW c \in Numbers
      PROVE  Kept(Incoming, Incoming', c)
  <2>1. CASE toClient' = toClient
        BY <1>1, <2>1, Unaffected DEF Incoming
  <2>2. ASSUME NEW t \in {"Blocked", "Unblocked", "Close"}, toClient' = toClient \o <<Frame(t)>>
        PROVE  Kept(Incoming, Incoming', c)
    <3>1. Frame(t) \in ClientFrames
          BY FramesTyped
    <3>2. /\ Incoming \in Seq(ClientFrames) /\ Incoming' = Incoming \o <<Frame(t)>>
          /\ <<Frame(t)>> \in Seq(ClientFrames)
          BY <1>1, <1>2, <2>2, <3>1, BrokerAdds
    <3> QED BY <3>2, FrameOfChannel, ChannelKept
  <2> QED BY <1>1, <2>1, <2>2
<1> QED BY <1>1, <1>2, <1>3, Unaffected, LanesKept

\* What the broker does with the frame f of channel c, and answers.
BrokerTakes(f, c) ==
    /\ toBroker' = Tail(toBroker)
    /\ brokerChannels' = [brokerChannels EXCEPT ![c] = BrokerChannel(f)]
    /\ UNCHANGED <<channels, transport, reading, buffer, broker>>

\* A channel is opened on a number that is free, and its OpenOk is the first frame.
LEMMA BrokerOpensLane ==
    ASSUME FramesInv, Exchanges, NEW c \in Numbers, NEW life, toBroker # <<>>,
           Head(toBroker) = ChannelFrame("Open", c, life),
           BrokerTakes(Head(toBroker), c),
           toClient' = toClient \o <<ChannelFrame("OpenOk", c, life)>>
    PROVE  Lanes'
<1>1. WireTypes /\ ChannelTypes /\ Lanes /\ Reads /\ toBroker \in Seq(BrokerFrames)
      BY DEF FramesInv, ConnectionInv, WireTypes, Exchanges, Reads
<1>2. ClientSide(c) /\ BrokerSide(c)
      BY <1>1 DEF Lanes, ClientSides, BrokerSides
<1>3. /\ Head(toBroker).type = "Open" /\ Head(toBroker).channel = c
      /\ Head(toBroker).life = life
      BY DEF ChannelFrame
<1>4. Sorted(toBroker, c, BrokerOrder) /\ OfLife(toBroker, c, {"Open", "Close"}, channels[c].life)
      BY <1>2 DEF BrokerSide
<1>5. /\ Sorted(toBroker', c, BrokerOrder)
      /\ OfLife(toBroker', c, {"Open", "Close"}, channels[c].life)
      /\ Has(toBroker, c, "Open") /\ life = channels[c].life
      /\ ~Has(toBroker', c, "Open") /\ ~Has(toBroker', c, "Close") /\ ~Has(toBroker', c, "CloseOk")
      BY <1>1, <1>3, <1>4, BrokerRest DEF BrokerTakes
<1>6. /\ channels[c].state \in Beginning /\ ~Some(Incoming, c)
      /\ \A t : ~Has(Incoming, c, t)
      BY <1>2, <1>5 DEF BrokerSide, Some, Has
<1>7. life \in 1..MaxLives
  <2>1. c \in Used
        BY <1>6 DEF Used, Beginning
  <2> QED BY <1>1, <1>5, <2>1, BoundsAssumption DEF ChannelTypes
<1>8. Incoming \in Seq(ClientFrames) /\ Incoming' = Incoming \o <<ChannelFrame("OpenOk", c, life)>>
  <2>1. ChannelFrame("OpenOk", c, life) \in ClientFrames
        BY <1>7, FramesTyped
  <2> QED BY <1>1, <2>1, BrokerAdds DEF BrokerTakes
<1>9. /\ Sorted(Incoming', c, ClientOrder) /\ OfLife(Incoming', c, ClientTypes, life)
      /\ \A t : Has(Incoming', c, t) <=> t = "OpenOk"
      /\ \A d \in Numbers : d # c => Kept(Incoming, Incoming', d)
  <2>1. "OpenOk" \in ClientTypes
        BY DEF ClientTypes
  <2>2. Sorted(Incoming, c, ClientOrder) /\ OfLife(Incoming, c, ClientTypes, life)
        BY <1>2, <1>5 DEF ClientSide
  <2> QED BY <1>6, <1>7, <1>8, <2>1, <2>2, ClientGains
<1>10. /\ \A d \in Numbers \ {c} : /\ brokerChannels'[d] = brokerChannels[d]
                                   /\ Kept(toBroker, toBroker', d)
       /\ brokerChannels'[c] = [state |-> "open", life |-> life]
  <2>1. BrokerChannel(Head(toBroker)) = [state |-> "open", life |-> life]
        BY <1>3 DEF BrokerChannel
  <2>2. \A d \in Numbers \ {c} : Kept(toBroker, toBroker', d)
        BY <1>1, <1>3, ChannelRest DEF BrokerTakes
  <2> QED BY <1>1, <2>1, <2>2 DEF BrokerTakes, WireTypes
<1>11. /\ channels' = channels /\ (Reads' => Reads) /\ (Exchanges' => Exchanges)
      BY DEF BrokerTakes, Reads, Exchanges
<1>12. ClientSide(c)'
      BY <1>5, <1>6, <1>9, <1>11 DEF ClientSide, Beginning
<1>13. BrokerSide(c)'
      BY <1>5, <1>6, <1>9, <1>10, <1>11 DEF BrokerSide, Beginning
<1> QED BY <1>1, <1>9, <1>10, <1>11, <1>12, <1>13, OneLane

\* A Close is answered, also when the broker's own has crossed it.
LEMMA BrokerClosesLane ==
    ASSUME FramesInv, Exchanges, NEW c \in Numbers, NEW life, toBroker # <<>>,
           Head(toBroker) = ChannelFrame("Close", c, life),
           BrokerTakes(Head(toBroker), c),
           toClient' = toClient \o <<ChannelFrame("CloseOk", c, life)>>
    PROVE  Lanes'
<1>1. WireTypes /\ ChannelTypes /\ Lanes /\ Reads /\ toBroker \in Seq(BrokerFrames)
      BY DEF FramesInv, ConnectionInv, WireTypes, Exchanges, Reads
<1>2. ClientSide(c) /\ BrokerSide(c)
      BY <1>1 DEF Lanes, ClientSides, BrokerSides
<1>3. /\ Head(toBroker).type = "Close" /\ Head(toBroker).channel = c
      /\ Head(toBroker).life = life
      BY DEF ChannelFrame
<1>4. Sorted(toBroker, c, BrokerOrder) /\ OfLife(toBroker, c, {"Open", "Close"}, channels[c].life)
      BY <1>2 DEF BrokerSide
<1>5. /\ Sorted(toBroker', c, BrokerOrder)
      /\ OfLife(toBroker', c, {"Open", "Close"}, channels[c].life)
      /\ Has(toBroker, c, "Close") /\ life = channels[c].life
      /\ ~Has(toBroker', c, "Open") /\ ~Has(toBroker', c, "Close")
      /\ Has(toBroker', c, "CloseOk") <=> Has(toBroker, c, "CloseOk")
      BY <1>1, <1>3, <1>4, BrokerRest DEF BrokerTakes
<1>6. /\ channels[c].state = "CLOSING" /\ ~Has(Incoming, c, "CloseOk")
      /\ ~Has(Incoming, c, "OpenOk")
      BY <1>2, <1>5 DEF BrokerSide, ClientSide, Beginning
<1>7. life \in 1..MaxLives
  <2>1. c \in Used
        BY <1>6 DEF Used
  <2> QED BY <1>1, <1>5, <2>1, BoundsAssumption DEF ChannelTypes
<1>8. Incoming \in Seq(ClientFrames) /\ Incoming' = Incoming \o <<ChannelFrame("CloseOk", c, life)>>
  <2>1. ChannelFrame("CloseOk", c, life) \in ClientFrames
        BY <1>7, FramesTyped
  <2> QED BY <1>1, <2>1, BrokerAdds DEF BrokerTakes
<1>9. /\ Sorted(Incoming', c, ClientOrder) /\ OfLife(Incoming', c, ClientTypes, life)
      /\ \A t : Has(Incoming', c, t) <=> Has(Incoming, c, t) \/ t = "CloseOk"
      /\ \A d \in Numbers : d # c => Kept(Incoming, Incoming', d)
  <2>1. "CloseOk" \in ClientTypes
        BY DEF ClientTypes
  <2>2. Sorted(Incoming, c, ClientOrder) /\ OfLife(Incoming, c, ClientTypes, life)
        BY <1>2, <1>5 DEF ClientSide
  <2> QED BY <1>6, <1>7, <1>8, <2>1, <2>2, ClientGains
<1>10. /\ \A d \in Numbers \ {c} : /\ brokerChannels'[d] = brokerChannels[d]
                                   /\ Kept(toBroker, toBroker', d)
       /\ brokerChannels'[c].state =
              IF brokerChannels[c].state = "closing" THEN "closing" ELSE "none"
  <2>1. BrokerChannel(Head(toBroker)) =
            IF brokerChannels[c].state = "closing" THEN brokerChannels[c] ELSE NoChannel
        BY <1>3 DEF BrokerChannel
  <2>2. \A d \in Numbers \ {c} : Kept(toBroker, toBroker', d)
        BY <1>1, <1>3, ChannelRest DEF BrokerTakes
  <2> QED BY <1>1, <2>1, <2>2 DEF BrokerTakes, WireTypes, NoChannel
<1>11. /\ channels' = channels /\ (Reads' => Reads) /\ (Exchanges' => Exchanges)
      BY DEF BrokerTakes, Reads, Exchanges
<1>12. ClientSide(c)'
      BY <1>2, <1>5, <1>6, <1>9, <1>11 DEF ClientSide, Beginning
<1>13. BrokerSide(c)'
      BY <1>2, <1>5, <1>6, <1>9, <1>10, <1>11 DEF BrokerSide, Beginning
<1> QED BY <1>1, <1>9, <1>10, <1>11, <1>12, <1>13, OneLane

\* The CloseOk frees the number.
LEMMA BrokerForgetsLane ==
    ASSUME FramesInv, Exchanges, NEW c \in Numbers, NEW life, toBroker # <<>>,
           Head(toBroker) = ChannelFrame("CloseOk", c, life),
           BrokerTakes(Head(toBroker), c), toClient' = toClient
    PROVE  Lanes'
<1>1. WireTypes /\ ChannelTypes /\ Lanes /\ Reads /\ toBroker \in Seq(BrokerFrames)
      BY DEF FramesInv, ConnectionInv, WireTypes, Exchanges, Reads
<1>2. ClientSide(c) /\ BrokerSide(c)
      BY <1>1 DEF Lanes, ClientSides, BrokerSides
<1>3. Head(toBroker).type = "CloseOk" /\ Head(toBroker).channel = c
      BY DEF ChannelFrame
<1>4. Sorted(toBroker, c, BrokerOrder) /\ OfLife(toBroker, c, {"Open", "Close"}, channels[c].life)
      BY <1>2 DEF BrokerSide
<1>5. /\ Sorted(toBroker', c, BrokerOrder)
      /\ OfLife(toBroker', c, {"Open", "Close"}, channels[c].life)
      /\ Has(toBroker, c, "CloseOk")
      /\ ~Has(toBroker', c, "Close") /\ ~Has(toBroker', c, "CloseOk")
      /\ Has(toBroker', c, "Open") => Has(toBroker, c, "Open")
      BY <1>1, <1>3, <1>4, BrokerRest DEF BrokerTakes
<1>6. Incoming' = Incoming /\ channels' = channels /\ (Reads' => Reads) /\ (Exchanges' => Exchanges)
      BY DEF BrokerTakes, Reads, Exchanges, Incoming
<1>7. /\ \A d \in Numbers \ {c} : /\ brokerChannels'[d] = brokerChannels[d]
                                  /\ Kept(toBroker, toBroker', d)
      /\ brokerChannels'[c].state = "none"
  <2>1. BrokerChannel(Head(toBroker)) = NoChannel
        BY <1>3 DEF BrokerChannel
  <2>2. \A d \in Numbers \ {c} : Kept(toBroker, toBroker', d)
        BY <1>1, <1>3, ChannelRest DEF BrokerTakes
  <2> QED BY <1>1, <2>1, <2>2 DEF BrokerTakes, WireTypes, NoChannel
<1>8. ClientSide(c)'
      BY <1>2, <1>6 DEF ClientSide
<1>9. BrokerSide(c)'
      BY <1>2, <1>5, <1>6, <1>7 DEF BrokerSide, Beginning
<1> QED BY <1>1, <1>6, <1>7, <1>8, <1>9, Unaffected, OneLane

\* The broker reads what the client sent, or drops it when it is closing.
LEMMA BrokerReadsLanes ==
    ASSUME FramesInv, BrokerReads
    PROVE  Lanes'
<1> DEFINE f == Head(toBroker)
<1>1. /\ transport = "ACTIVE" /\ broker # "gone" /\ toBroker # <<>>
      /\ toBroker' = Tail(toBroker)
      /\ UNCHANGED <<channels, transport, reading, buffer>>
      BY DEF BrokerReads, channelVars, transportVars, readVars
<1>2. /\ WireTypes /\ Lanes /\ Reads /\ Reads' /\ toBroker \in Seq(BrokerFrames)
      /\ f \in BrokerFrames
      BY <1>1, HeadTailProperties DEF FramesInv, ConnectionInv, WireTypes, Reads
<1>3. CASE broker = "closing"
  <2>1. ~Exchanges' /\ Incoming' = Incoming /\ channels' = channels
        BY <1>1, <1>3 DEF BrokerReads, Exchanges, Incoming
  <2>2. \A c \in Numbers : ClientSide(c)'
        BY <1>2, <2>1, ClientSideKept, Unaffected DEF Lanes, ClientSides
  <2> QED BY <2>1, <2>2 DEF Lanes, ClientSides
<1>4. CASE broker # "closing"
  <2>1. /\ Exchanges
        /\ toClient' = toClient \o Answers(f)
        /\ broker' = CASE f.type = "TuneOk+Open" -> "up"
                       [] f = Frame("Close") -> "gone"
                       [] OTHER -> broker
        /\ brokerChannels' = IF f.channel = 0 THEN brokerChannels
                             ELSE [brokerChannels EXCEPT ![f.channel] = BrokerChannel(f)]
        BY <1>1, <1>2, <1>4 DEF BrokerReads, BrokerSends, Exchanges, WireTypes
  <2> HIDE DEF f
  <2>2. ASSUME NEW t \in {"Header", "StartOk", "TuneOk+Open", "Close"}, f = Frame(t)
        PROVE  Lanes'
    <3>1. PICK u \in {"Start", "Tune", "OpenOk", "CloseOk"} : Answers(f) = <<Frame(u)>>
          BY <2>2 DEF Answers, Frame
    <3>2. f.channel = 0 /\ Frame(u) \in ClientFrames
          BY <2>2, FramesTyped DEF Frame
    <3>3. /\ Incoming \in Seq(ClientFrames) /\ Incoming' = Incoming \o <<Frame(u)>>
          /\ <<Frame(u)>> \in Seq(ClientFrames)
          BY <1>1, <1>2, <2>1, <3>1, <3>2, BrokerAdds
    <3>4. ASSUME NEW c \in Numbers
          PROVE  Kept(Incoming, Incoming', c) /\ Kept(toBroker, toBroker', c)
      <4>1. f.channel # c
            BY <3>2, BoundsAssumption DEF Numbers
      <4> QED BY <1>1, <1>2, <3>3, <4>1, FrameOfChannel, ChannelKept, ChannelRest DEF f
    <3> QED BY <1>1, <1>2, <2>1, <3>2, <3>4, LanesKept
  <2>3. ASSUME NEW t \in {"Open", "Close", "CloseOk"}, NEW c \in Numbers,
               NEW l \in 1..MaxLives, f = ChannelFrame(t, c, l)
        PROVE  Lanes'
    <3>1. f.type = t /\ f.channel = c /\ c # 0 /\ f # Frame("Close")
          BY <2>3, BoundsAssumption DEF ChannelFrame, Frame, Numbers
    <3>2. BrokerTakes(f, c)
          BY <1>1, <2>1, <3>1 DEF BrokerTakes
    <3>3. CASE t = "Open"
      <4>1. Answers(f) = <<ChannelFrame("OpenOk", c, l)>>
            BY <2>3, <3>3 DEF Answers, ChannelFrame
      <4> QED BY <1>1, <2>1, <2>3, <3>2, <3>3, <4>1, BrokerOpensLane DEF f
    <3>4. CASE t = "Close"
      <4>1. Answers(f) = <<ChannelFrame("CloseOk", c, l)>>
            BY <2>3, <3>4 DEF Answers, ChannelFrame
      <4> QED BY <1>1, <2>1, <2>3, <3>2, <3>4, <4>1, BrokerClosesLane DEF f
    <3>5. CASE t = "CloseOk"
      <4>1. Answers(f) = <<>>
            BY <2>3, <3>5 DEF Answers, ChannelFrame
      <4>2. toClient' = toClient
            BY <1>2, <2>1, <4>1, ConcatEmptySeq DEF WireTypes
      <4> QED BY <1>1, <2>1, <2>3, <3>2, <3>5, <4>2, BrokerForgetsLane DEF f
    <3> QED BY <3>3, <3>4, <3>5
  <2> QED BY <1>2, <2>2, <2>3, BrokerFrameKinds
<1> QED BY <1>3, <1>4

\* The end of what was read, and of the stream: nothing is read after an abort
\* but what had been read before.
LEMMA EndLanes ==
    ASSUME FramesInv,
           \/ EndOfData \/ DataRaises \/ Eof \/ SocketError \/ Notify
           \/ BlockedTimeout \/ HeartbeatTimeout
    PROVE  Lanes'
<1>1. ConnectionTypes /\ TransportShape /\ WireTypes /\ Lanes
      BY DEF FramesInv, ConnectionInv
<1>2. CASE EndOfData
  <2>1. /\ UNCHANGED <<channels, brokerChannels, toBroker, transport, broker>>
        /\ Incoming' = Incoming /\ reading' = FALSE /\ reading
        BY <1>2 DEF EndOfData, channelVars, transportVars, brokerVars, Incoming
  <2>2. (Reads' => Reads) /\ (Exchanges' => Exchanges)
        BY <2>1 DEF Reads, Exchanges
  <2> QED BY <1>1, <2>1, <2>2, Unaffected, LanesKept
<1>3. CASE DataRaises
  <2>1. transport' # "ACTIVE" /\ reading' = FALSE
        BY <1>1, <1>3, AbortEnds DEF DataRaises
  <2> QED BY <2>1 DEF Lanes, Reads, Exchanges
<1>4. CASE Eof \/ SocketError
  <2>1. transport' # "ACTIVE" /\ reading' = FALSE
        BY <1>1, <1>4, AbortEnds DEF Eof, SocketError, readVars, ConnectionTypes
  <2> QED BY <2>1 DEF Lanes, Reads, Exchanges
<1>5. CASE BlockedTimeout \/ HeartbeatTimeout
  <2>1. transport' # "ACTIVE" /\ reading' = FALSE
        BY <1>1, <1>5, AbortEnds
           DEF BlockedTimeout, HeartbeatTimeout, TerminateStream, readVars, ConnectionTypes
  <2> QED BY <2>1 DEF Lanes, Reads, Exchanges
<1>6. CASE Notify
  <2>1. transport # "ACTIVE"
        BY <1>1, <1>6 DEF Notify, TransportShape
  <2>2. transport' # "ACTIVE" /\ reading' = FALSE
        BY <1>1, <1>6, <2>1 DEF Notify, readVars, ConnectionTypes
  <2> QED BY <2>2 DEF Lanes, Reads, Exchanges
<1> QED BY <1>2, <1>3, <1>4, <1>5, <1>6

LEMMA LanesStep ==
    ASSUME FramesInv, [Next]_vars
    PROVE  Lanes'
<1>1. CASE ProcessFrame
      BY <1>1, ConnectionLanes, ChannelOpenOkLane, ChannelCloseLane, ChannelCloseOkLane,
         OtherFrameLane DEF ProcessFrame
<1>2. CASE Receive \/ \E c \in Numbers : OnChannelCleanup(c)
      BY <1>2, ReceiveLanes, ChannelCleanupLane
<1>3. CASE \/ EndOfData \/ DataRaises \/ Eof \/ SocketError \/ Notify
           \/ BlockedTimeout \/ HeartbeatTimeout
      BY <1>3, EndLanes
<1>4. CASE OpenChannel \/ Close \/ \E c \in Numbers : CloseChannel(c)
      BY <1>4, OpenChannelLane, CloseLanes, CloseChannelLane
<1>5. CASE \/ BrokerReads \/ BrokerBlocks \/ BrokerCloses \/ BrokerGone
           \/ \E c \in Numbers : BrokerDelivers(c) \/ BrokerClosesChannel(c)
      BY <1>5, BrokerReadsLanes, BrokerConnectionLanes, BrokerChannelLane
<1>6. CASE UNCHANGED vars
  <2>1. /\ UNCHANGED <<channels, brokerChannels, toBroker>> /\ Incoming' = Incoming
        /\ Reads' <=> Reads
        /\ Exchanges' <=> Exchanges
        BY <1>6 DEF vars, channelVars, brokerVars, transportVars, readVars, Incoming, Reads,
                    Exchanges
  <2> QED BY <2>1, Unaffected, LanesKept DEF FramesInv
<1> QED BY <1>1, <1>2, <1>3, <1>4, <1>5, <1>6 DEF Next, LoopStep

\* A step on a stream that ends leaves the broker alone, or nothing for it to read.
LEMMA EndingLeavesBroker ==
    ASSUME ConnectionInv, [Next]_vars, transport' # "ACTIVE", broker' = "up"
    PROVE  UNCHANGED <<toBroker, broker, brokerChannels>>
<1>1. ConnectionTypes /\ TransportShape
      BY DEF ConnectionInv
<1>2. ~Notify
      BY DEF Notify, CloseSocket
<1>3. CASE ProcessFrame
  <2>1. UNCHANGED <<broker, brokerChannels>>
        BY <1>3 DEF ProcessFrame, OnStart, OnTune, OnOpenOk, OnCloseFromBroker, OnCloseOk,
           OnBlocked, OnChannelOpenOk, OnChannelClose, OnChannelCloseOk, OnOtherFrame,
           ChannelArrives, Arrives, brokerVars
  <2>2. toBroker' = toBroker
        BY <1>3 DEF ProcessFrame, OnStart, OnTune, OnOpenOk, OnCloseFromBroker, OnCloseOk,
           OnBlocked, OnChannelOpenOk, OnChannelClose, OnChannelCloseOk, OnOtherFrame, Send,
           transportVars
  <2> QED BY <2>1, <2>2
<1>4. CASE \/ Receive \/ EndOfData \/ Eof \/ DataRaises \/ SocketError \/ BlockedTimeout
           \/ HeartbeatTimeout \/ \E c \in Numbers : OnChannelCleanup(c)
      BY <1>4 DEF Receive, EndOfData, Eof, DataRaises, SocketError, BlockedTimeout,
         HeartbeatTimeout, OnChannelCleanup, Send, brokerVars
<1>5. CASE OpenChannel \/ Close \/ \E c \in Numbers : CloseChannel(c)
      BY <1>5 DEF OpenChannel, Close, CloseChannel, Send, brokerVars, transportVars
<1>6. ~BrokerReads /\ ~BrokerBlocks /\ ~BrokerCloses /\ ~BrokerGone
      /\ \A c \in Numbers : ~BrokerDelivers(c) /\ ~BrokerClosesChannel(c)
      BY DEF BrokerReads, BrokerBlocks, BrokerCloses, BrokerGone, BrokerDelivers,
         BrokerClosesChannel, transportVars
<1>7. CASE UNCHANGED vars
      BY <1>7 DEF vars, brokerVars
<1> QED BY <1>2, <1>3, <1>4, <1>5, <1>6, <1>7 DEF Next, LoopStep

LEMMA FramesKept ==
    ASSUME FramesInv, [Next]_vars
    PROVE  FramesInv'
<1>1. ConnectionInv' /\ WireTypes'
      BY InvariantKept DEF FramesInv, ConnectionInv
<1>2. Lanes'
      BY LanesStep
<1>3. OpenOnFree'
      BY <1>1, <1>2, EndingLeavesBroker, OpenStaysFree DEF FramesInv
<1> QED BY <1>1, <1>2, <1>3 DEF FramesInv

\* At first no channel is open and only the protocol header is under way.
LEMMA FramesStart == Init => FramesInv
<1> SUFFICES ASSUME Init
             PROVE  FramesInv
    OBVIOUS
<1>1. ConnectionInv
      BY InvariantStarts
<1>2. Incoming = <<>>
  <2>1. <<>> \o <<>> = <<>>
        OBVIOUS
  <2> QED BY <2>1 DEF Init, Incoming
<1>3. ASSUME NEW c \in Numbers
      PROVE  ClientSide(c) /\ BrokerSide(c)
  <2>1. ~Some(<<Frame("Header")>>, c)
        BY FrameOfChannel
  <2>2. ~Some(Incoming, c) /\ ~Some(toBroker, c)
        BY <1>2, <2>1 DEF Init, Some
  <2>3. channels[c] = NoChannel /\ brokerChannels[c] = NoChannel
        BY DEF Init
  <2> QED BY <2>2, <2>3 DEF ClientSide, BrokerSide, Sorted, OfLife, Has, Some, NoChannel, Beginning
<1>4. Head(toBroker).type # "Open"
      BY DEF Init, Frame
<1> QED BY <1>1, <1>3, <1>4 DEF FramesInv, OpenOnFree, Lanes, ClientSides, BrokerSides

\* Frames in both directions, the client's channels and the broker's fit together,
\* channel by channel.
THEOREM FramesInvariant == Spec => []FramesInv
<1>1. Init => FramesInv
      BY FramesStart
<1>2. FramesInv /\ [Next]_vars => FramesInv'
      BY FramesKept
<1> QED BY <1>1, <1>2, PTL DEF Spec

\* Frames stay with the channel they belong to, in both directions, also when its
\* number is used again after both ends closed it, and before Connection.Close.
THEOREM FramesStayInPlace == Spec => []FramesInPlace
<1>1. FramesInv => FramesInPlace
  <2> SUFFICES ASSUME FramesInv PROVE FramesInPlace
      OBVIOUS
  <2>1. WireTypes /\ TransportShape /\ Lanes /\ NothingAfterClose /\ OpenOnFree
        BY DEF FramesInv, ConnectionInv, CloseIsLast
  <2>2. ASSUME buffer # <<>>, Head(buffer).channel \in Used
        PROVE  Head(buffer).life = channels[Head(buffer).channel].life
    <3> DEFINE c == Head(buffer).channel
    <3>1. c \in Numbers /\ reading
          BY <2>1, <2>2 DEF Used, TransportShape
    <3>2. /\ Incoming \in Seq(ClientFrames) /\ Incoming # <<>> /\ Head(Incoming) = Head(buffer)
          BY <2>1, <2>2, BufferFirst
    <3>3. OfLife(Incoming, c, ClientTypes, channels[c].life)
          BY <2>1, <3>1 DEF Lanes, ClientSides, ClientSide, Reads
    <3>4. Head(Incoming).type \in ClientTypes
          BY <3>1, <3>2, ClientFrameTypes
    <3> QED BY <3>2, <3>3, <3>4, ChannelRest
  <2> QED BY <2>1, <2>2 DEF FramesInPlace, FramesOfOwnChannel, OpenOnFree
<1> QED BY <1>1, FramesInvariant, PTL

=============================================================================
