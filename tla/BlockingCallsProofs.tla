------------------------ MODULE BlockingCallsProofs ------------------------
(***************************************************************************)
(* Proofs about BlockingCalls: each call gets its own result and leaves    *)
(* nothing behind, what BlockingChannel and its Channel know of a consumer *)
(* fits, and no delivery or event is lost, for any consumers and timers    *)
(* and any number of calls, deliveries and notices.                        *)
(***************************************************************************)
EXTENDS BlockingCalls, SequenceTheorems, FiniteSetTheorems, WellFoundedInduction, TLAPS

-----------------------------------------------------------------------------
(* Elements of a set in a sequence.                                        *)

Free(q, S) == \A i \in DOMAIN q : q[i] \notin S
NoneAfter(q, S, T) ==
    \A i, j \in DOMAIN q : i < j /\ q[i] \in S => q[j] \notin T

\* Appending and concatenating stay within the frames.
LEMMA StreamTypes ==
    ASSUME NEW U, NEW q \in Seq(U)
    PROVE  /\ <<>> \in Seq(U)
           /\ \A r \in Seq(U) : q \o r \in Seq(U)
           /\ \A x \in U : Append(q, x) \in Seq(U) /\ Append(q, x) = q \o <<x>> /\ <<x>> \in Seq(U)
           /\ q \o <<>> = q /\ <<>> \o q = q
           /\ q # <<>> => /\ Head(q) \in U /\ Tail(q) \in Seq(U) /\ q = <<Head(q)>> \o Tail(q)
<1>1. /\ <<>> \in Seq(U) /\ \A r \in Seq(U) : q \o r \in Seq(U)
      /\ q \o <<>> = q /\ <<>> \o q = q
      BY EmptySeq, ConcatProperties, ConcatEmptySeq
<1>2. ASSUME NEW x \in U
      PROVE  Append(q, x) \in Seq(U) /\ Append(q, x) = q \o <<x>> /\ <<x>> \in Seq(U)
      BY AppendProperties, AppendIsConcat
<1>3. ASSUME q # <<>>
      PROVE  Head(q) \in U /\ Tail(q) \in Seq(U) /\ q = <<Head(q)>> \o Tail(q)
  <2>1. Head(q) \in U /\ Tail(q) \in Seq(U)
        BY <1>3, HeadTailProperties
  <2>2. q = <<Head(q)>> \o Tail(q)
        BY <1>3, SMTT(30)
  <2> QED BY <2>1, <2>2
<1> QED BY <1>1, <1>2, <1>3

\* Positions in the concatenation of two streams.
LEMMA JoinPositions ==
    ASSUME NEW T, NEW q \in Seq(T), NEW r \in Seq(T)
    PROVE  /\ DOMAIN q \subseteq DOMAIN (q \o r) /\ \A i \in DOMAIN q : (q \o r)[i] = q[i]
           /\ DOMAIN q \subseteq Nat /\ DOMAIN r \subseteq Nat /\ DOMAIN (q \o r) \subseteq Nat
           /\ Len(q) \in Nat
           /\ \A i \in DOMAIN q : i <= Len(q)
           /\ \A i \in DOMAIN r :
                 /\ Len(q) + i \in DOMAIN (q \o r) /\ Len(q) < Len(q) + i
                 /\ (q \o r)[Len(q) + i] = r[i]
           /\ \A i \in DOMAIN (q \o r) :
                 i \in DOMAIN q \/ (i - Len(q) \in DOMAIN r /\ Len(q) + (i - Len(q)) = i)
      BY ConcatProperties, LenProperties

\* One stream after the other.
LEMMA JoinFree ==
    ASSUME NEW U, NEW q \in Seq(U), NEW r \in Seq(U), NEW S
    PROVE  Free(q \o r, S) <=> Free(q, S) /\ Free(r, S)
<1> DEFINE j == q \o r
<1>1. /\ DOMAIN q \subseteq DOMAIN j /\ \A i \in DOMAIN q : j[i] = q[i]
      /\ \A i \in DOMAIN r : Len(q) + i \in DOMAIN j /\ j[Len(q) + i] = r[i]
      /\ \A i \in DOMAIN j :
            i \in DOMAIN q \/ (i - Len(q) \in DOMAIN r /\ Len(q) + (i - Len(q)) = i)
      BY JoinPositions
<1> HIDE DEF j
<1>2. ASSUME Free(j, S)
      PROVE  Free(q, S) /\ Free(r, S)
      BY <1>1, <1>2 DEF Free
<1>3. ASSUME Free(q, S), Free(r, S), NEW i \in DOMAIN j
      PROVE  j[i] \notin S
      BY <1>1, <1>3 DEF Free
<1>4. Free(q, S) /\ Free(r, S) => Free(j, S)
      BY <1>3 DEF Free
<1> QED BY <1>2, <1>4 DEF j

\* The same of two streams joined: the order within each, and none across.
LEMMA JoinNoneAfter ==
    ASSUME NEW U, NEW q \in Seq(U), NEW r \in Seq(U), NEW S, NEW T
    PROVE  NoneAfter(q \o r, S, T) <=>
               /\ NoneAfter(q, S, T) /\ NoneAfter(r, S, T)
               /\ Free(q, S) \/ Free(r, T)
<1> DEFINE j == q \o r
           n == Len(q)
<1>1. /\ DOMAIN q \subseteq DOMAIN j /\ \A i \in DOMAIN q : j[i] = q[i]
      /\ DOMAIN q \subseteq Nat /\ DOMAIN r \subseteq Nat /\ DOMAIN j \subseteq Nat
      /\ n \in Nat /\ \A i \in DOMAIN q : i <= n
      BY JoinPositions
<1>2. \A i \in DOMAIN r : n + i \in DOMAIN j /\ n < n + i /\ j[n + i] = r[i]
      BY JoinPositions
<1>3. \A i \in DOMAIN j : i \in DOMAIN q \/ (i - n \in DOMAIN r /\ n + (i - n) = i)
      BY JoinPositions
<1>4. /\ DOMAIN q \subseteq DOMAIN j /\ \A i \in DOMAIN q : j[i] = q[i]
      /\ DOMAIN q \subseteq Nat /\ DOMAIN r \subseteq Nat /\ DOMAIN j \subseteq Nat
      /\ n \in Nat /\ \A i \in DOMAIN q : i <= n
      /\ \A i \in DOMAIN r : n + i \in DOMAIN j /\ n < n + i /\ j[n + i] = r[i]
      /\ \A i \in DOMAIN j : i \in DOMAIN q \/ (i - n \in DOMAIN r /\ n + (i - n) = i)
      BY <1>1, <1>2, <1>3
<1> HIDE DEF j, n
<1>5. ASSUME NoneAfter(j, S, T)
      PROVE  /\ NoneAfter(q, S, T) /\ NoneAfter(r, S, T)
             /\ Free(q, S) \/ Free(r, T)
      BY <1>4, <1>5 DEF NoneAfter, Free
<1>6. ASSUME NoneAfter(q, S, T), NoneAfter(r, S, T), Free(q, S) \/ Free(r, T),
             NEW i \in DOMAIN j, NEW k \in DOMAIN j, i < k, j[i] \in S
      PROVE  j[k] \notin T
      BY <1>4, <1>6 DEF NoneAfter, Free
<1>7. /\ NoneAfter(q, S, T) /\ NoneAfter(r, S, T)
      /\ Free(q, S) \/ Free(r, T)
      => NoneAfter(j, S, T)
      BY <1>6 DEF NoneAfter
<1> QED BY <1>5, <1>7 DEF j

\* One frame.
LEMMA OneFrame ==
    ASSUME NEW U, NEW x \in U, NEW S, NEW T
    PROVE  /\ <<x>> \in Seq(U) /\ <<>> \in Seq(U)
           /\ Free(<<x>>, S) <=> x \notin S
           /\ NoneAfter(<<x>>, S, T)
           /\ Free(<<>>, S) /\ NoneAfter(<<>>, S, T)
      BY DEF Free, NoneAfter

\* A frame at the end of a stream.
LEMMA AppendFrame ==
    ASSUME NEW U, NEW q \in Seq(U), NEW x \in U, NEW S, NEW T
    PROVE  /\ Free(Append(q, x), S) <=> Free(q, S) /\ x \notin S
           /\ NoneAfter(Append(q, x), S, T) <=> NoneAfter(q, S, T) /\ (Free(q, S) \/ x \notin T)
<1>1. <<x>> \in Seq(U) /\ Append(q, x) = q \o <<x>>
      BY StreamTypes
<1>2. /\ Free(<<x>>, S) <=> x \notin S
      /\ Free(<<x>>, T) <=> x \notin T
      /\ NoneAfter(<<x>>, S, T)
      BY OneFrame
<1>3. Free(q \o <<x>>, S) <=> Free(q, S) /\ Free(<<x>>, S)
      BY <1>1, JoinFree
<1>4. NoneAfter(q \o <<x>>, S, T) <=>
          /\ NoneAfter(q, S, T) /\ NoneAfter(<<x>>, S, T)
          /\ Free(q, S) \/ Free(<<x>>, T)
      BY <1>1, JoinNoneAfter
<1> QED BY <1>1, <1>2, <1>3, <1>4

\* The frame at its head.
LEMMA HeadFrame ==
    ASSUME NEW U, NEW q \in Seq(U), q # <<>>, NEW S, NEW T
    PROVE  /\ Free(q, S) <=> Head(q) \notin S /\ Free(Tail(q), S)
           /\ NoneAfter(q, S, T) <=>
                  NoneAfter(Tail(q), S, T) /\ (Head(q) \notin S \/ Free(Tail(q), T))
<1> DEFINE h == Head(q)
           r == Tail(q)
<1>1. h \in U /\ r \in Seq(U) /\ q = <<h>> \o r /\ <<h>> \in Seq(U)
      BY StreamTypes, OneFrame
<1> HIDE DEF h, r
<1>2. /\ Free(<<h>>, S) <=> h \notin S
      /\ NoneAfter(<<h>>, S, T)
      BY <1>1, OneFrame
<1>3. Free(<<h>> \o r, S) <=> Free(<<h>>, S) /\ Free(r, S)
      BY <1>1, JoinFree
<1>4. NoneAfter(<<h>> \o r, S, T) <=>
          /\ NoneAfter(<<h>>, S, T) /\ NoneAfter(r, S, T)
          /\ Free(<<h>>, S) \/ Free(r, T)
      BY <1>1, JoinNoneAfter
<1>5. /\ Free(q, S) <=> h \notin S /\ Free(r, S)
      /\ NoneAfter(q, S, T) <=> NoneAfter(r, S, T) /\ (h \notin S \/ Free(r, T))
      BY <1>1, <1>2, <1>3, <1>4
<1> QED BY <1>5 DEF h, r

\* A union is free when its parts are.
LEMMA UnionFree ==
    ASSUME NEW q, NEW S, NEW T
    PROVE  /\ Free(q, S \cup T) <=> Free(q, S) /\ Free(q, T)
           /\ \A R : NoneAfter(q, R, S \cup T) <=> NoneAfter(q, R, S) /\ NoneAfter(q, R, T)
           /\ S \subseteq T /\ Free(q, T) => Free(q, S)
      BY DEF Free, NoneAfter

-----------------------------------------------------------------------------
(* Elements picked at some positions.                                      *)

\* A set of naturals has a least element.
LEMMA LeastOfNaturals ==
    ASSUME NEW T \in SUBSET Nat, T # {}
    PROVE  \E x \in T : \A y \in T : x <= y
<1>. DEFINE I == {0 .. x : x \in T}
            R == StrictSubsetOrdering(Nat)
<1>1. \A x \in T : IsFiniteSet(0 .. x) /\ 0 .. x \subseteq Nat
      BY FS_Interval
<1>2. I \subseteq FiniteSubsetsOf(Nat)
      BY <1>1 DEF FiniteSubsetsOf
<1>3. IsWellFoundedOn(R, FiniteSubsetsOf(Nat))
      BY FS_StrictSubsetOrderingWellFounded
<1>4. I # {}
      OBVIOUS
<1>. HIDE DEF I, R
<1>5. PICK i \in I : \A j \in I : <<j, i>> \notin R
      BY <1>2, <1>3, <1>4, WFMin
<1>. USE DEF I, R
<1>6. PICK x \in T : i = 0 .. x
      BY <1>5
<1>7. ASSUME NEW y \in T, y < x PROVE FALSE
  <2>1. x \in 0 .. x /\ x \notin 0 .. y
        BY <1>7
  <2>2. 0 .. y \subseteq 0 .. x /\ 0 .. y # 0 .. x
        BY <1>7, <2>1
  <2>3. 0 .. x \in SUBSET Nat /\ 0 .. y \in SUBSET Nat
        BY <1>1
  <2>4. <<0 .. y, 0 .. x>> \in R
        BY <2>2, <2>3 DEF StrictSubsetOrdering
  <2>5. 0 .. y \in I
        OBVIOUS
  <2>. QED BY <1>5, <1>6, <2>4, <2>5
<1>. QED BY <1>7

\* The positions k later.
Shift(T, k) == {i + k : i \in T}

\* Moving a set of positions does not change how many they are.
LEMMA Shifted ==
    ASSUME NEW T \in SUBSET Nat, IsFiniteSet(T), NEW k \in Int
    PROVE  IsFiniteSet(Shift(T, k)) /\ Cardinality(Shift(T, k)) = Cardinality(T)
<1>. DEFINE f == [i \in T |-> i + k]
<1>1. f \in [T -> Shift(T, k)] /\ \A i \in T : f[i] = i + k
      BY DEF Shift
<1>2. f \in Injection(T, Shift(T, k))
      BY <1>1 DEF Injection, IsInjective
<1>3. f \in Surjection(T, Shift(T, k))
      BY <1>1 DEF Shift, Surjection
<1>4. f \in Bijection(T, Shift(T, k))
      BY <1>2, <1>3 DEF Bijection
<1>. QED BY <1>4, FS_Bijection DEF ExistsBijection

Increasing(f, n) == \A i, j \in 1..n : i < j => f[i] < f[j]

\* A finite set of positions can be listed in increasing order.
LEMMA Enumerated ==
    ASSUME NEW n \in Nat, NEW S \in SUBSET (1..n)
    PROVE  /\ IsFiniteSet(S) /\ Cardinality(S) \in Nat
           /\ \E f \in [1..Cardinality(S) -> S] : Increasing(f, Cardinality(S))
<1> DEFINE Listed(m) == \A T \in SUBSET (1..m) :
                            \E f \in [1..Cardinality(T) -> T] : Increasing(f, Cardinality(T))
           bad == {m \in Nat : ~Listed(m)}
<1>1. \A m \in Nat : \A T \in SUBSET (1..m) : IsFiniteSet(T) /\ Cardinality(T) \in Nat
  <2>1. \A m \in Nat : IsFiniteSet(1..m)
        BY FS_Interval
  <2> QED BY <2>1, FS_Subset, FS_CardinalityType
<1>2. ASSUME bad # {}
      PROVE  FALSE
  <2>1. bad \in SUBSET Nat
        OBVIOUS
  <2>2. PICK m \in bad : \A k \in bad : m <= k
        BY <1>2, <2>1, LeastOfNaturals
  <2>3. m \in Nat /\ ~Listed(m)
        BY <2>2
  <2>4. PICK T \in SUBSET (1..m) :
            ~ \E f \in [1..Cardinality(T) -> T] : Increasing(f, Cardinality(T))
        BY <2>3
  <2>5. IsFiniteSet(T) /\ Cardinality(T) \in Nat
        BY <1>1, <2>3
  <2>6. T # {}
    <3>1. ASSUME T = {}
          PROVE  FALSE
      <4>1. Cardinality(T) = 0
            BY <3>1, FS_EmptySet
      <4> DEFINE e == [i \in 1..0 |-> i]
      <4>2. e \in [1..Cardinality(T) -> T] /\ Increasing(e, Cardinality(T))
            BY <4>1 DEF Increasing
      <4> QED BY <2>4, <4>2
    <3> QED BY <3>1
  <2>7. m # 0
    <3>1. PICK x \in T : x \in 1..m
          BY <2>6
    <3> QED BY <2>3, <3>1
  <2>8. m - 1 \in Nat /\ m - 1 \notin bad
    <3>1. m - 1 \in Nat /\ ~(m <= m - 1)
          BY <2>3, <2>7
    <3> HIDE DEF bad
    <3> QED BY <2>2, <3>1
  <2>9. Listed(m - 1)
        BY <2>8
  <2> DEFINE R == T \ {m}
  <2>10. R \in SUBSET (1..(m - 1))
        BY <2>3, <2>7
  <2>11. IsFiniteSet(R) /\ Cardinality(R) \in Nat
        BY <1>1, <2>8, <2>10
  <2>12. PICK g \in [1..Cardinality(R) -> R] : Increasing(g, Cardinality(R))
        BY <2>9, <2>10
  <2>13. CASE m \notin T
        BY <2>4, <2>12, <2>13
  <2>14. CASE m \in T
    <3> DEFINE c == Cardinality(R)
               f == [i \in 1..(c + 1) |-> IF i = c + 1 THEN m ELSE g[i]]
    <3>1. Cardinality(T) = c + 1
          BY <2>5, <2>11, <2>14, FS_RemoveElement
    <3>2. \A i \in 1..c : g[i] \in T /\ g[i] \in 1..(m - 1)
          BY <2>10, <2>12
    <3> HIDE DEF c, R
    <3>3. c \in Nat
          BY <2>11 DEF c
    <3>4. \A i \in 1..(c + 1) : i = c + 1 \/ i \in 1..c
          BY <3>3
    <3>5. f \in [1..(c + 1) -> T]
          BY <2>14, <3>2, <3>4
    <3>6. ASSUME NEW i \in 1..(c + 1), NEW j \in 1..(c + 1), i < j
          PROVE  f[i] < f[j]
          BY <2>3, <2>12, <3>2, <3>3, <3>4, <3>6 DEF Increasing, c
    <3>7. Increasing(f, c + 1)
          BY <3>6 DEF Increasing
    <3> HIDE DEF f
    <3> QED BY <2>4, <3>1, <3>5, <3>7
  <2> QED BY <2>13, <2>14
<1>3. Listed(n)
      BY <1>2
<1> QED BY <1>1, <1>3

\* What Picked returns: the elements at those positions, each once and in order.
LEMMA PickedProperties ==
    ASSUME NEW U, NEW q \in Seq(U), NEW S \in SUBSET DOMAIN q
    PROVE  /\ Picked(q, S) \in Seq(U) /\ IsFiniteSet(S)
           /\ \E at \in Bijection(DOMAIN Picked(q, S), S) :
                 \A i \in DOMAIN Picked(q, S) :
                     /\ Picked(q, S)[i] = q[at[i]]
                     /\ \A j \in DOMAIN Picked(q, S) : i < j => at[i] < at[j]
<1> DEFINE n == Cardinality(S)
           at == CHOOSE f \in [1..n -> S] : \A i, j \in 1..n : i < j => f[i] < f[j]
<1>1. Len(q) \in Nat /\ DOMAIN q = 1..Len(q) /\ q \in [DOMAIN q -> U]
      BY LenProperties
<1>2. /\ IsFiniteSet(S) /\ n \in Nat
      /\ \E f \in [1..n -> S] : \A i, j \in 1..n : i < j => f[i] < f[j]
      BY <1>1, Enumerated DEF Increasing
<1>3. at \in [1..n -> S] /\ \A i, j \in 1..n : i < j => at[i] < at[j]
      BY <1>2
<1>4. Picked(q, S) = [k \in 1..n |-> q[at[k]]]
      BY DEF Picked
<1> HIDE DEF at
<1>5. \A k \in 1..n : at[k] \in DOMAIN q /\ q[at[k]] \in U
      BY <1>1, <1>3
<1>6. Picked(q, S) \in Seq(U) /\ DOMAIN Picked(q, S) = 1..n
      BY <1>2, <1>4, <1>5
<1>7. at \in Injection(1..n, S)
  <2>1. ASSUME NEW i \in 1..n, NEW j \in 1..n, at[i] = at[j]
        PROVE  i = j
    <3>1. at[i] \in Nat
          BY <1>1, <1>3
    <3>2. ~(i < j) /\ ~(j < i)
          BY <1>3, <2>1, <3>1
    <3> QED BY <1>2, <3>2
  <2> QED BY <1>3, <2>1 DEF Injection, IsInjective
<1>8. at \in Surjection(1..n, S)
      BY <1>2, <1>7, FS_Interval, FS_Injection
<1>9. at \in Bijection(DOMAIN Picked(q, S), S)
      BY <1>6, <1>7, <1>8 DEF Bijection
<1>10. \A i \in DOMAIN Picked(q, S) :
           /\ Picked(q, S)[i] = q[at[i]]
           /\ \A j \in DOMAIN Picked(q, S) : i < j => at[i] < at[j]
      BY <1>3, <1>4, <1>6
<1> QED BY <1>2, <1>6, <1>9, <1>10

\* Nothing within W is in p that was not in q, in the same order.
Within(p, q, W) ==
    \A S, T \in SUBSET W :
        /\ Free(q, S) => Free(p, S)
        /\ NoneAfter(q, S, T) => NoneAfter(p, S, T)

\* What comes to a sequence, or leaves it, without adding to W.
LEMMA WithinBasics ==
    ASSUME NEW U, NEW q \in Seq(U), NEW W
    PROVE  /\ Within(q, q, W) /\ Within(<<>>, q, W)
           /\ q # <<>> => Within(Tail(q), q, W)
           /\ \A x \in U : x \notin W => Within(Append(q, x), q, W)
           /\ \A r \in Seq(U) : Free(r, W) => Within(q \o r, q, W)
<1>1. Within(q, q, W)
      BY DEF Within
<1>2. Within(<<>>, q, W)
      BY DEF Within, Free, NoneAfter
<1>3. ASSUME q # <<>>
      PROVE  Within(Tail(q), q, W)
      BY <1>3, HeadFrame DEF Within
<1>4. ASSUME NEW x \in U, x \notin W
      PROVE  Within(Append(q, x), q, W)
      BY <1>4, AppendFrame DEF Within
<1>5. ASSUME NEW r \in Seq(U), Free(r, W)
      PROVE  Within(q \o r, q, W)
      BY <1>5, JoinFree, JoinNoneAfter DEF Free, NoneAfter, Within
<1> QED BY <1>1, <1>2, <1>3, <1>4, <1>5

\* Picking elements keeps their order.
LEMMA WithinPicked ==
    ASSUME NEW U, NEW q \in Seq(U), NEW P \in SUBSET DOMAIN q, NEW W
    PROVE  Within(Picked(q, P), q, W)
      BY PickedProperties DEF Bijection, Injection, Free, NoneAfter, Within

\* A sequence cut in two.
LEMMA CutProperties ==
    ASSUME NEW U, NEW q \in Seq(U), NEW n \in 0..Len(q), NEW W
    PROVE  /\ SubSeq(q, 1, n) \in Seq(U) /\ SubSeq(q, n + 1, Len(q)) \in Seq(U)
           /\ q = SubSeq(q, 1, n) \o SubSeq(q, n + 1, Len(q))
           /\ Within(SubSeq(q, n + 1, Len(q)), q, W)
           /\ Within(SubSeq(q, 1, n), q, W)
<1> DEFINE a == SubSeq(q, 1, n)
           b == SubSeq(q, n + 1, Len(q))
<1>1. Len(q) \in Nat /\ n \in Nat /\ n <= Len(q)
      BY LenProperties
<1>2. a \in Seq(U) /\ b \in Seq(U)
      BY <1>1, ElementOfSeq, SubSeqProperties
<1>3. q = a \o b
  <2>1. SubSeq(q, 1, n) \o SubSeq(q, n + 1, Len(q)) = SubSeq(q, 1, Len(q))
    <3>1. 1 \in 1..Len(q) + 1 /\ n \in 1 - 1..Len(q) /\ Len(q) \in n..Len(q)
          BY <1>1
    <3> QED BY <3>1, ConcatAdjacentSubSeq
  <2>2. SubSeq(q, 1, Len(q)) = q
        BY SubSeqFull
  <2> QED BY <2>1, <2>2
<1> HIDE DEF a, b
<1>4. ASSUME NEW S \in SUBSET W, NEW T \in SUBSET W
      PROVE  /\ Free(q, S) => Free(a, S) /\ Free(b, S)
             /\ NoneAfter(q, S, T) => NoneAfter(a, S, T) /\ NoneAfter(b, S, T)
      BY <1>2, <1>3, JoinFree, JoinNoneAfter
<1>5. Within(a, q, W) /\ Within(b, q, W)
      BY <1>4 DEF Within
<1> QED BY <1>2, <1>3, <1>5 DEF a, b

-----------------------------------------------------------------------------
(* How often an id is in a sequence.                                       *)

\* A sequence of records with ids, and where an id is in it.
Holders(q, id) == {i \in DOMAIN q : q[i].id = id}

\* An id is counted by a natural, zero when it is nowhere.
LEMMA CountType ==
    ASSUME NEW U, NEW q \in Seq(U), NEW id
    PROVE  /\ CountOf(q, id) \in Nat /\ IsFiniteSet(Holders(q, id))
           /\ CountOf(q, id) = Cardinality(Holders(q, id)) /\ Holders(q, id) \in SUBSET Nat
           /\ CountOf(q, id) = 0 <=> \A i \in DOMAIN q : q[i].id # id
           /\ CountOf(<<>>, id) = 0
<1>1. DOMAIN q = 1..Len(q) /\ Len(q) \in Nat
      BY LenProperties
<1>2. IsFiniteSet(1..Len(q)) /\ Holders(q, id) \in SUBSET (1..Len(q))
      BY <1>1, FS_Interval DEF Holders
<1>3. IsFiniteSet(Holders(q, id)) /\ CountOf(q, id) = Cardinality(Holders(q, id))
      BY <1>2, FS_Subset DEF CountOf, Holders
<1>4. CountOf(q, id) \in Nat
      BY <1>3, FS_CardinalityType
<1>5. CountOf(q, id) = 0 <=> Holders(q, id) = {}
      BY <1>3, FS_EmptySet
<1>6. CountOf(<<>>, id) = 0
      BY FS_EmptySet DEF CountOf
<1>7. Holders(q, id) \in SUBSET Nat
      BY <1>1, <1>2
<1> QED BY <1>3, <1>4, <1>5, <1>6, <1>7 DEF Holders

\* Joined sequences have what their parts have.
LEMMA CountJoin ==
    ASSUME NEW U, NEW q \in Seq(U), NEW r \in Seq(U), NEW id
    PROVE  CountOf(q \o r, id) = CountOf(q, id) + CountOf(r, id)
<1> DEFINE j == q \o r
           n == Len(q)
<1>1. /\ j \in Seq(U)
      /\ DOMAIN q \subseteq DOMAIN j /\ \A i \in DOMAIN q : j[i] = q[i] /\ i <= n
      /\ n \in Nat /\ DOMAIN q \subseteq Nat /\ DOMAIN r \subseteq Nat /\ DOMAIN j \subseteq Nat
      BY StreamTypes, JoinPositions
<1>2. \A i \in DOMAIN r : n + i \in DOMAIN j /\ n < n + i /\ j[n + i] = r[i]
      BY JoinPositions
<1>3. \A i \in DOMAIN j : i \in DOMAIN q \/ (i - n \in DOMAIN r /\ n + (i - n) = i)
      BY JoinPositions
<1> HIDE DEF j, n
<1>4. Holders(j, id) = Holders(q, id) \cup Shift(Holders(r, id), n)
      BY <1>1, <1>2, <1>3 DEF Holders, Shift
<1>5. Holders(q, id) \cap Shift(Holders(r, id), n) = {}
      BY <1>1, <1>2 DEF Holders, Shift
<1>6. /\ CountOf(q, id) = Cardinality(Holders(q, id)) /\ IsFiniteSet(Holders(q, id))
      /\ CountOf(r, id) = Cardinality(Holders(r, id)) /\ IsFiniteSet(Holders(r, id))
      /\ Holders(r, id) \in SUBSET Nat /\ CountOf(q, id) \in Nat /\ CountOf(r, id) \in Nat
      /\ CountOf(j, id) = Cardinality(Holders(j, id))
      BY <1>1, CountType
<1>7. /\ IsFiniteSet(Shift(Holders(r, id), n))
      /\ Cardinality(Shift(Holders(r, id), n)) = Cardinality(Holders(r, id))
      BY <1>1, <1>6, Shifted
<1>8. Cardinality(Holders(j, id)) =
          Cardinality(Holders(q, id)) + Cardinality(Shift(Holders(r, id), n))
              - Cardinality(Holders(q, id) \cap Shift(Holders(r, id), n))
      BY <1>4, <1>6, <1>7, FS_Union
<1>9. Cardinality(Holders(q, id) \cap Shift(Holders(r, id), n)) = 0
      BY <1>5, FS_EmptySet
<1>10. CountOf(j, id) = CountOf(q, id) + CountOf(r, id)
      BY <1>6, <1>7, <1>8, <1>9
<1> QED BY <1>10 DEF j

\* One more at the end, one less at the head.
LEMMA CountOne ==
    ASSUME NEW U, NEW x \in U, NEW id
    PROVE  CountOf(<<x>>, id) = (IF x.id = id THEN 1 ELSE 0)
<1>1. {i \in DOMAIN <<x>> : <<x>>[i].id = id} = IF x.id = id THEN {1} ELSE {}
      OBVIOUS
<1> QED BY <1>1, FS_EmptySet, FS_Singleton DEF CountOf

\* A frame that is sent, or that comes.
LEMMA AppendCounts ==
    ASSUME NEW U, NEW q \in Seq(U), NEW x \in U, NEW id
    PROVE  /\ CountOf(Append(q, x), id) = CountOf(q, id) + (IF x.id = id THEN 1 ELSE 0)
           /\ x.id # id => CountOf(Append(q, x), id) = CountOf(q, id)
<1>1. <<x>> \in Seq(U) /\ Append(q, x) = q \o <<x>>
      BY StreamTypes
<1>2. CountOf(q \o <<x>>, id) = CountOf(q, id) + CountOf(<<x>>, id)
      BY <1>1, CountJoin
<1>3. CountOf(<<x>>, id) = (IF x.id = id THEN 1 ELSE 0)
      BY CountOne
<1>4. CountOf(q, id) \in Nat
      BY CountType
<1> QED BY <1>1, <1>2, <1>3, <1>4

\* The head of a stream, and what follows it.
LEMMA HeadCounts ==
    ASSUME NEW U, NEW q \in Seq(U), q # <<>>, NEW id
    PROVE  /\ Head(q) \in U /\ Tail(q) \in Seq(U)
           /\ CountOf(Tail(q), id) = CountOf(q, id) - (IF Head(q).id = id THEN 1 ELSE 0)
<1>1. Head(q) \in U /\ Tail(q) \in Seq(U) /\ q = <<Head(q)>> \o Tail(q)
      BY StreamTypes
<1>2. <<Head(q)>> \in Seq(U)
      BY <1>1, OneFrame
<1>3. CountOf(<<Head(q)>> \o Tail(q), id) = CountOf(<<Head(q)>>, id) + CountOf(Tail(q), id)
      BY <1>1, <1>2, CountJoin
<1>4. CountOf(<<Head(q)>>, id) = (IF Head(q).id = id THEN 1 ELSE 0)
      BY <1>1, CountOne
<1>5. CountOf(Tail(q), id) \in Nat
      BY <1>1, CountType
<1>6. CountOf(q, id) = (IF Head(q).id = id THEN 1 ELSE 0) + CountOf(Tail(q), id)
      BY <1>1, <1>3, <1>4
<1> DEFINE a == CountOf(q, id)
           b == CountOf(Tail(q), id)
           c == IF Head(q).id = id THEN 1 ELSE 0
<1>7. b \in Nat /\ c \in Nat /\ a = c + b
      BY <1>5, <1>6
<1> HIDE DEF a, b, c
<1>8. b = a - c
      BY <1>7
<1> QED BY <1>1, <1>8 DEF a, b, c

\* What is picked and what is left make up the whole.
LEMMA CountPicked ==
    ASSUME NEW U, NEW q \in Seq(U), NEW P \in SUBSET DOMAIN q, NEW R \in SUBSET DOMAIN q, NEW id,
           P \cap R = {}, \A i \in DOMAIN q : i \notin P \cup R => q[i].id # id
    PROVE  CountOf(q, id) = CountOf(Picked(q, P), id) + CountOf(Picked(q, R), id)
<1> DEFINE In(X) == {i \in X : q[i].id = id}
<1>1. ASSUME NEW X \in SUBSET DOMAIN q
      PROVE  IsFiniteSet(In(X)) /\ CountOf(Picked(q, X), id) = Cardinality(In(X))
  <2> DEFINE p == Picked(q, X)
  <2>1. /\ p \in Seq(U) /\ IsFiniteSet(X)
        /\ \E at \in Bijection(DOMAIN p, X) : \A i \in DOMAIN p : p[i] = q[at[i]]
        BY PickedProperties
  <2>2. PICK at \in Bijection(DOMAIN p, X) : \A i \in DOMAIN p : p[i] = q[at[i]]
        BY <2>1
  <2>3. IsFiniteSet(Holders(p, id)) /\ CountOf(p, id) = Cardinality(Holders(p, id))
        BY <2>1, CountType
  <2> HIDE DEF p
  <2> DEFINE f == [i \in Holders(p, id) |-> at[i]]
  <2>4. /\ at \in [DOMAIN p -> X] /\ \A i, j \in DOMAIN p : at[i] = at[j] => i = j
        /\ \A x \in X : \E i \in DOMAIN p : at[i] = x
        BY <2>2 DEF Bijection, Injection, Surjection, IsInjective
  <2>5. f \in [Holders(p, id) -> In(X)]
        BY <2>2, <2>4 DEF Holders
  <2>6. f \in Injection(Holders(p, id), In(X))
        BY <2>4, <2>5 DEF Holders, Injection, IsInjective
  <2>7. f \in Surjection(Holders(p, id), In(X))
        BY <2>2, <2>4, <2>5 DEF Holders, Surjection
  <2>8. ExistsBijection(Holders(p, id), In(X))
        BY <2>6, <2>7 DEF ExistsBijection, Bijection
  <2>9. IsFiniteSet(In(X)) /\ Cardinality(In(X)) = Cardinality(Holders(p, id))
        BY <2>3, <2>8, FS_Bijection
  <2> QED BY <2>3, <2>9 DEF p
<1>2. Holders(q, id) = In(P) \cup In(R) /\ In(P) \cap In(R) = {}
      BY DEF Holders
<1>3. CountOf(q, id) = Cardinality(Holders(q, id))
      BY CountType
<1>4. /\ IsFiniteSet(In(P)) /\ CountOf(Picked(q, P), id) = Cardinality(In(P))
      /\ IsFiniteSet(In(R)) /\ CountOf(Picked(q, R), id) = Cardinality(In(R))
      BY <1>1
<1> HIDE DEF In
<1>5. Cardinality(In(P) \cup In(R)) =
          Cardinality(In(P)) + Cardinality(In(R)) - Cardinality(In(P) \cap In(R))
      BY <1>4, FS_Union
<1>6. Cardinality(In(P)) \in Nat /\ Cardinality(In(R)) \in Nat
      BY <1>4, FS_CardinalityType
<1>7. Cardinality(In(P) \cap In(R)) = 0
      BY <1>2, FS_EmptySet
<1> QED BY <1>2, <1>3, <1>4, <1>5, <1>6, <1>7

-----------------------------------------------------------------------------
(* The inductive invariant.                                                *)

Infos == {"none", "setting", "active", "tearing", "cancelled"}
Requests == {"rpc", "select", "get", "publish", "consume", "cancel"}
Callbacks == Timers \cup {"blocked", "delivery", "cancellation", "returned", None}

\* What is on the wire: only deliveries and their settlements have an id.
OutFrames ==
    {f \in [type : Requests \cup {"settle"}, n : 0..MaxCalls, tag : Tags \cup {None},
            id : 0..MaxDeliveries] :
        /\ f.id # 0 <=> f.type = "settle"
        /\ f.type \in {"consume", "cancel"} => f.tag \in Tags}
InFrames ==
    {f \in [type : Kinds \cup {"return", "deliver", "brokerCancel", "blocked", "close"},
            n : 0..MaxCalls, tag : Tags \cup {None}, id : 0..MaxDeliveries] :
        /\ f.id # 0 <=> f.type \in {"deliver", "getOk"}
        /\ f.type \in {"deliver", "brokerCancel", "consumeOk", "cancelOk"} => f.tag \in Tags}

\* What waits for its dispatch, or for the generator.
ChannelEvents ==
    {e \in [type : {"delivery", "cancellation", "returned"}, tag : CallbackTags \cup {None},
            id : 0..MaxDeliveries] :
        /\ e.id # 0 <=> e.type = "delivery"
        /\ e.tag = None <=> e.type = "returned"}
GeneratorEvents ==
    {e \in [type : {"delivery", "cancellation"}, tag : GeneratorTags, id : 0..MaxDeliveries] :
        e.id # 0 <=> e.type = "delivery"}

ChannelType ==
    channel \in [state : {"open", "closedByBroker", "closed"},
                 tags : [Tags -> {"none", "consuming", "cancelling"}],
                 ackless : SUBSET Tags, getting : BOOLEAN]
BlockingType ==
    blocking \in [infos : [Tags -> Infos], generator : GeneratorTags \cup {None},
                  genEvents : Seq(GeneratorEvents), pending : Seq(ChannelEvents),
                  confirming : BOOLEAN, returned : 0..MaxCalls, onReturn : BOOLEAN,
                  ready : [Kinds -> 0..MaxCalls], got : 0..MaxDeliveries,
                  ackless : SUBSET Tags, used : SUBSET GeneratorTags]
EventsType ==
    events \in [depth : 0..2, requested : SUBSET {"channel", "wakeup"},
                ready : Seq(Timers \cup {"blocked"}), scheduled : SUBSET Timers,
                expired : BOOLEAN, todo : Nat,
                phase : {"none", "connection", "channel", "end"}, callback : Callbacks]
AppType ==
    app \in [call : Calls, dispatcher : Calls, calls : 0..MaxCalls,
             given : SUBSET Deliveries, removed : SUBSET Timers, raised : BOOLEAN,
             lost : BOOLEAN]
WireType == wire \in [out : Seq(OutFrames), in : Seq(InFrames)]
BrokerType ==
    broker \in [open : BOOLEAN, consumers : SUBSET Tags, confirms : BOOLEAN,
                unacked : SUBSET Deliveries, ackless : SUBSET Deliveries,
                sent : 0..MaxDeliveries, notices : 0..MaxNotices]
CallTypes ==
    /\ ChannelType /\ BlockingType /\ EventsType /\ AppType /\ WireType /\ BrokerType

\* The call under way, and the one whose dispatch it was called from.
CallShape(call) ==
    /\ call.op = "none" <=> call = NoCall
    /\ call.op = "none" <=> call.n = 0
    /\ call.op \in {"consume", "cancel"} <=> call.tag \in Tags
    /\ call.op \in Answered => call.stage \in {"flush", "round"}
    /\ call.acquired => call.op \in Processing
CallAndDispatch ==
    /\ CallShape(app.call) /\ CallShape(app.dispatcher)
    /\ app.call.n <= app.calls /\ app.dispatcher.n <= app.calls
    /\ app.call.acquired => ~Dispatching /\ app.call.stage \in {"flush", "round"}
    /\ Dispatching => app.dispatcher.acquired /\ app.dispatcher.stage \in {"flush", "round"}
    /\ Dispatching <=> events.phase # "none"
    /\ events.callback # None => events.phase \in {"connection", "channel"}
    /\ Dispatching /\ app.call # NoCall => events.callback # None
    /\ events.depth = (IF Dispatching THEN 1 ELSE 0)
                          + (IF app.call.op \in Processing /\ Flushing THEN 1 ELSE 0)

\* A channel that is closed knows no consumer and hears nothing; Close is the
\* broker's last frame.
Closes == {f \in InFrames : f.type = "close"}
AtTheEnd ==
    /\ app.lost => channel.state # "open" /\ wire.out = <<>>
    /\ channel.state # "open" =>
           /\ wire.in = <<>> /\ \A t \in Tags : channel.tags[t] = "none"
           /\ app.lost \/ ~broker.open
    /\ broker.open => Free(wire.in, Closes)
    /\ NoneAfter(wire.in, Closes, InFrames)

\* A consumer is set up or torn down by the call under way.
OwnConsumer ==
    \A t \in Tags :
        /\ blocking.infos[t] = "setting" => app.call.op = "consume" /\ app.call.tag = t
        /\ blocking.infos[t] = "tearing" => app.call.op = "cancel" /\ app.call.tag = t

\* The method of the call under way, its reply on the wire, and its result:
\* one of the three at most, and none of another call's.
KindsOf(op) ==
    CASE op \in {"rpc", "select"} -> {"ok"}
      [] op = "get" -> {"getOk", "getEmpty"}
      [] op = "publish" -> {"confirm"}
      [] op = "consume" -> {"consumeOk"}
      [] op = "cancel" -> {"cancelOk"}
      [] OTHER -> {}
Asking == {f \in OutFrames : f.type # "settle"}
Replying == {f \in InFrames : f.type \in Kinds}
AskedBy(call) ==
    {f \in OutFrames : f.type = call.op /\ f.n = call.n /\ f.tag = call.tag}
RepliesTo(call) ==
    {f \in InFrames : f.type \in KindsOf(call.op) /\ f.n = call.n /\ f.tag = call.tag}
HasResult(ready) == \E k \in Kinds : ready[k] # 0
OneReply(call, out, in, ready) ==
    /\ Free(out, Asking \ AskedBy(call)) /\ Free(in, Replying \ RepliesTo(call))
    /\ NoneAfter(out, Asking, Asking) /\ NoneAfter(in, Replying, Replying)
    /\ Free(out, Asking) \/ Free(in, Replying)
    /\ \A k \in Kinds :
           ready[k] # 0 => /\ k \in KindsOf(call.op) /\ ready[k] = call.n
                           /\ Free(out, Asking) /\ Free(in, Replying)

\* A message is returned before the reply to its own call or to a later one.
Returns == {f \in InFrames : f.type = "return"}
Returning ==
    /\ NoneAfter(wire.in, Replying, Returns)
    /\ HasResult(blocking.ready) => Free(wire.in, Returns)
    /\ blocking.confirming =>
           Free(wire.in, {f \in Returns : f.n # app.call.n \/ app.call.op # "publish"})
    /\ blocking.returned # 0 =>
           /\ blocking.confirming
           /\ IF app.call.op = "publish" THEN blocking.returned = app.call.n
              ELSE channel.state # "open"
    /\ channel.state = "open" /\ broker.confirms =>
           blocking.confirming \/ app.call.op = "select"
    /\ ~broker.confirms => Free(wire.in, {f \in InFrames : f.type = "confirm"})

\* basic_get of the channel, and its result.
Getting ==
    /\ channel.getting => app.call.op = "get" \/ channel.state # "open"
    /\ blocking.ready["getOk"] # 0 \/ blocking.ready["getEmpty"] # 0 => ~channel.getting
    /\ blocking.got # 0 => blocking.ready["getOk"] # 0

\* What the two ends, BlockingChannel and the events know of a consumer.
ConsumesOf(t) == {f \in OutFrames : f.type = "consume" /\ f.tag = t}
CancelsOf(t) == {f \in OutFrames : f.type = "cancel" /\ f.tag = t}
FramesOf(t, types) == {f \in InFrames : f.type \in types /\ f.tag = t}
About(t) == FramesOf(t, {"consumeOk", "deliver", "brokerCancel", "cancelOk"})
EventsOf(t, types) == {e \in ChannelEvents \cup GeneratorEvents : e.type \in types /\ e.tag = t}
Known(t) == EventsOf(t, {"delivery", "cancellation"})
Cancellations(t) == EventsOf(t, {"cancellation"})

Fits(info, tag) ==
    \/ info \in {"none", "cancelled"} /\ tag = "none"
    \/ info \in {"setting", "active"} /\ tag = "consuming"
    \/ info = "tearing" /\ tag \in {"none", "cancelling"}
\* The broker may still cancel the consumer.
Hearing(t) ==
    \/ t \in broker.consumers \/ ~Free(wire.out, ConsumesOf(t))
    \/ ~Free(wire.in, FramesOf(t, {"brokerCancel"}))

WireLane(t) ==
    /\ channel.tags[t] = "none" =>
           /\ t \notin broker.consumers /\ Free(wire.in, About(t))
           /\ Free(wire.out, ConsumesOf(t)) /\ Free(wire.out, CancelsOf(t))
    /\ t \in broker.consumers =>
           /\ Free(wire.in, FramesOf(t, {"brokerCancel", "cancelOk"}))
           /\ Free(wire.out, ConsumesOf(t))
    /\ NoneAfter(wire.in, FramesOf(t, {"brokerCancel"}),
                 FramesOf(t, {"brokerCancel", "deliver", "consumeOk"}))
    /\ NoneAfter(wire.in, FramesOf(t, {"cancelOk"}), About(t))
    /\ ~Free(wire.out, ConsumesOf(t)) =>
           blocking.infos[t] = "setting" /\ Free(wire.in, About(t))
    /\ ~Free(wire.out, CancelsOf(t)) \/ ~Free(wire.in, FramesOf(t, {"cancelOk"})) =>
           channel.tags[t] = "cancelling"
EventLane(t) ==
    /\ blocking.infos[t] = "none" => Free(blocking.pending, Known(t))
    /\ channel.tags[t] = "consuming" \/ Hearing(t) =>
           /\ Free(blocking.pending, Cancellations(t))
           /\ Free(blocking.genEvents, Cancellations(t))
    /\ NoneAfter(blocking.pending, Cancellations(t), Known(t))
    /\ NoneAfter(blocking.genEvents, Cancellations(t), Known(t))
Lane(t) ==
    /\ Fits(blocking.infos[t], channel.tags[t])
    /\ WireLane(t) /\ EventLane(t)
    /\ app.call.op = "cancel" /\ app.call.tag = t =>
           /\ blocking.infos[t] = "tearing"
           /\ blocking.ready["cancelOk"] # 0 => channel.tags[t] = "none"
    /\ channel.tags[t] # "none" =>
           /\ t \in GeneratorTags => blocking.generator = t
           /\ t \in channel.ackless <=> t \in blocking.ackless
Lanes ==
    channel.state = "open" =>
        /\ \A t \in Tags : Lane(t)
        /\ blocking.generator # None =>
               Free(blocking.genEvents, {e \in GeneratorEvents : e.tag # blocking.generator})

\* A timeout is scheduled, ready or in its callback; a removed one is none of these.
\* Events that wait have asked for their dispatch.
Wanted ==
    /\ \A t \in Timers :
           /\ t = events.callback => t \notin events.scheduled
           /\ t = events.callback \/ t \in events.scheduled => Free(events.ready, {t})
           /\ NoneAfter(events.ready, {t}, {t})
    /\ \A t \in app.removed :
           t # events.callback /\ t \notin events.scheduled /\ Free(events.ready, {t})
    /\ channel.state = "open" /\ blocking.pending # <<>> =>
           "channel" \in events.requested \/ events.phase = "channel" \/ app.raised

\* Deliveries, while the channel is open at both ends.
Live == broker.open /\ channel.state = "open"
Unacked(S) == {x \in S : x.id \in broker.unacked}
AcklessUnacked(S) == {x \in Unacked(S) : x.tag \in blocking.ackless}
Delivered == {f \in InFrames : f.type = "deliver"}
Accounted ==
    Live =>
        /\ broker.unacked \cap broker.ackless = {}
        /\ broker.ackless \subseteq 1..broker.sent
        /\ \A id \in Deliveries :
               /\ Places(id) <= 1
               /\ id \in broker.unacked => Places(id) = 1
               /\ id > broker.sent => Places(id) = 0
        /\ Free(wire.in, AcklessUnacked(Delivered))
        /\ Free(blocking.pending, AcklessUnacked(ChannelEvents))
        /\ Free(blocking.genEvents, AcklessUnacked(GeneratorEvents))
        /\ blocking.generator = None => Free(blocking.genEvents, Unacked(GeneratorEvents))
        /\ app.call.op = "cancel" /\ app.call.tag \notin blocking.ackless =>
               Free(blocking.genEvents, Unacked(Known(app.call.tag)))

CallsInv ==
    /\ CallTypes /\ CallAndDispatch /\ AtTheEnd /\ OwnConsumer
    /\ OneReply(app.call, wire.out, wire.in, blocking.ready)
    /\ Returning /\ Getting /\ Lanes /\ Wanted /\ Accounted

-----------------------------------------------------------------------------
(* The types.                                                              *)

\* Calls and frames.
LEMMA MadeTypes ==
    /\ NoCall \in Calls /\ NoCall.op = "none" /\ NoCall.n = 0 /\ NoCall.tag = None
    /\ ~NoCall.acquired /\ NoCall.stage = "flush"
    /\ \A type \in Requests \cup {"settle"}, n \in 0..MaxCalls, tag \in Tags \cup {None},
          id \in 0..MaxDeliveries :
          /\ id # 0 <=> type = "settle"
          /\ type \in {"consume", "cancel"} => tag \in Tags
          => Frame(type, n, tag, id) \in OutFrames
    /\ \A type, n, tag, id :
          /\ Frame(type, n, tag, id).type = type /\ Frame(type, n, tag, id).n = n
          /\ Frame(type, n, tag, id).tag = tag /\ Frame(type, n, tag, id).id = id
    /\ None \notin Tags
      BY CallBoundsAssumption, CallNamesAssumption DEF NoCall, Calls, Frame, OutFrames, Tags

\* A new call.
LEMMA NewCall ==
    ASSUME AppType, CanCall, NEW op \in Processing \cup Answered, NEW tag \in Tags \cup {None}
    PROVE  /\ Call(op, tag) \in Calls /\ Number \in 1..MaxCalls /\ app.calls + 1 = Number
           /\ Call(op, tag).op = op /\ Call(op, tag).n = Number /\ Call(op, tag).tag = tag
           /\ Call(op, tag).stage = "flush" /\ ~Call(op, tag).acquired
           /\ ~Call(op, tag).limited
<1>1. Number \in 1..MaxCalls /\ app.calls + 1 = Number
      BY CallBoundsAssumption DEF AppType, CanCall, Number
<1>2. /\ NoCall \in Calls /\ NoCall.stage = "flush"
      /\ ~NoCall.acquired /\ ~NoCall.limited
      BY MadeTypes DEF NoCall
<1>3. /\ Call(op, tag).op = op /\ Call(op, tag).n = Number /\ Call(op, tag).tag = tag
      /\ Call(op, tag).stage = "flush" /\ ~Call(op, tag).acquired
      /\ ~Call(op, tag).limited
      BY <1>2 DEF Call, Calls
<1>4. Call(op, tag) \in Calls
  <2>1. Number \in 0..MaxCalls /\ op \in Processing \cup Answered \cup {"none"}
        BY <1>1, CallBoundsAssumption
  <2> QED BY <1>2, <2>1 DEF Call, Calls
<1> QED BY <1>1, <1>3, <1>4

\* A call that starts with one frame.
LEMMA StartTypes ==
    ASSUME CallTypes, NEW call \in Calls, NEW type \in Requests \cup {"settle"},
           NEW id \in 0..MaxDeliveries, Start(call, type, id),
           id # 0 <=> type = "settle", type \in {"consume", "cancel"} => call.tag \in Tags
    PROVE  /\ AppType' /\ WireType'
           /\ Frame(type, Number, call.tag, id) \in OutFrames
           /\ wire'.out = Append(wire.out, Frame(type, Number, call.tag, id))
           /\ wire'.in = wire.in
<1>1. Number \in 1..MaxCalls /\ app.calls + 1 = Number
      BY CallBoundsAssumption DEF CallTypes, AppType, Start, CanCall, Number
<1>2. AppType'
  <2>1. app.given \ {id} \in SUBSET Deliveries
        BY DEF CallTypes, AppType
  <2>2. app.calls + 1 \in 0..MaxCalls
        BY <1>1
  <2> QED BY <2>1, <2>2 DEF CallTypes, AppType, Start
<1>3. Frame(type, Number, call.tag, id) \in OutFrames
      BY <1>1, MadeTypes DEF Calls
<1>4. /\ wire'.out = Append(wire.out, Frame(type, Number, call.tag, id)) /\ wire'.in = wire.in
      BY DEF CallTypes, WireType, Start
<1>5. WireType'
      BY <1>3, StreamTypes DEF CallTypes, WireType, Start
<1> QED BY <1>2, <1>3, <1>4, <1>5

\* The call goes on, with another stage.
LEMMA StageTypes ==
    ASSUME AppType, NEW stage \in {"flush", "round"},
           app' = [app EXCEPT !.call.stage = stage]
    PROVE  /\ AppType' /\ app'.call.stage = stage
           /\ app'.call.op = app.call.op /\ app'.call.n = app.call.n
           /\ app'.call.tag = app.call.tag /\ app'.call.limited = app.call.limited
           /\ app'.call.acquired = app.call.acquired
           /\ app'.dispatcher = app.dispatcher /\ app'.calls = app.calls
           /\ app'.given = app.given /\ app'.removed = app.removed
           /\ app'.raised = app.raised /\ app'.lost = app.lost
      BY DEF AppType, Calls

\* A frame is taken from the stream.
LEMMA ReceiveTypes ==
    ASSUME CallTypes, NEW type, Receive(type)
    PROVE  /\ wire.in # <<>> /\ Got \in InFrames /\ Got.type = type /\ Got = Head(wire.in)
           /\ Tail(wire.in) \in Seq(InFrames) /\ Rest.in = Tail(wire.in)
           /\ Rest.out = wire.out /\ Rest \in [out : Seq(OutFrames), in : Seq(InFrames)]
           /\ app' = [app EXCEPT !.call.stage = "round"] /\ broker' = broker
      BY StreamTypes DEF Receive, Got, CallTypes, WireType, Rest, InTurn

\* Frames and events stay what they are when an update takes or adds one.
LEMMA EventTypes ==
    /\ \A tag \in CallbackTags, id \in Deliveries : Event("delivery", tag, id) \in ChannelEvents
    /\ \A tag \in GeneratorTags, id \in Deliveries : Event("delivery", tag, id) \in GeneratorEvents
    /\ \A tag \in CallbackTags : Event("cancellation", tag, 0) \in ChannelEvents
    /\ \A tag \in GeneratorTags : Event("cancellation", tag, 0) \in GeneratorEvents
    /\ Event("returned", None, 0) \in ChannelEvents
    /\ \A type, tag, id : /\ Event(type, tag, id).type = type
                          /\ Event(type, tag, id).tag = tag /\ Event(type, tag, id).id = id
      BY CallNamesAssumption, CallBoundsAssumption DEF Event, ChannelEvents, Deliveries,
         GeneratorEvents

\* The results: one set, or some reset.
LEMMA ResultTypes ==
    ASSUME BlockingType, NEW k \in Kinds, NEW n \in 0..MaxCalls
    PROVE  /\ [blocking EXCEPT !.ready[k] = n]
                  = [blocking EXCEPT !.ready = [blocking.ready EXCEPT ![k] = n]]
           /\ [blocking.ready EXCEPT ![k] = n] \in [Kinds -> 0..MaxCalls]
      BY DEF BlockingType

\* What an event of the broker adds to.
LEMMA AddPendingTypes ==
    ASSUME CallTypes, NEW b, NEW e \in ChannelEvents,
           b \in [infos : [Tags -> Infos], generator : GeneratorTags \cup {None},
                  genEvents : Seq(GeneratorEvents), pending : Seq(ChannelEvents),
                  confirming : BOOLEAN, returned : 0..MaxCalls, onReturn : BOOLEAN,
                  ready : [Kinds -> 0..MaxCalls], got : 0..MaxDeliveries,
                  ackless : SUBSET Tags, used : SUBSET GeneratorTags],
           AddPending(b, e)
    PROVE  BlockingType' /\ EventsType'
      BY StreamTypes DEF AddPending, BlockingType, CallTypes, EventsType, Request

\* What an event adds to, the generator or what is pending.
LEMMA ToSinkTypes ==
    ASSUME CallTypes, NEW b, NEW tag, NEW e,
           tag \in GeneratorTags => e \in GeneratorEvents,
           tag \notin GeneratorTags => e \in ChannelEvents,
           b \in [infos : [Tags -> Infos], generator : GeneratorTags \cup {None},
                  genEvents : Seq(GeneratorEvents), pending : Seq(ChannelEvents),
                  confirming : BOOLEAN, returned : 0..MaxCalls, onReturn : BOOLEAN,
                  ready : [Kinds -> 0..MaxCalls], got : 0..MaxDeliveries,
                  ackless : SUBSET Tags, used : SUBSET GeneratorTags],
           ToSink(b, tag, e)
    PROVE  BlockingType' /\ EventsType'
<1>1. CASE tag \notin GeneratorTags
      BY <1>1, AddPendingTypes DEF ToSink
<1>2. CASE tag \in GeneratorTags
  <2>1. Append(b.genEvents, e) \in Seq(GeneratorEvents)
        BY <1>2, StreamTypes
  <2>2. BlockingType'
        BY <1>2, <2>1 DEF ToSink, BlockingType
  <2>3. events.requested \cup {"wakeup"} \in SUBSET {"channel", "wakeup"}
        BY DEF CallTypes, EventsType
  <2>4. EventsType'
    <3>1. events' = [events EXCEPT !.requested = @ \cup {"wakeup"}]
          BY <1>2 DEF ToSink, Request
    <3> QED BY <2>3, <3>1 DEF CallTypes, EventsType
  <2> QED BY <2>2, <2>4
<1> QED BY <1>1, <1>2

\* The frames that the client reads.
LEMMA FrameTypes ==
    ASSUME CallTypes, Frames
    PROVE  CallTypes'
<1>1. CASE OnReply
  <2>1. PICK k \in {"ok", "consumeOk", "confirm"} : Receive(k) /\ blocking' = Set(k)
        BY <1>1 DEF OnReply
  <2>2. Got \in InFrames /\ Rest \in [out : Seq(OutFrames), in : Seq(InFrames)]
        /\ app' = [app EXCEPT !.call.stage = "round"] /\ broker' = broker
        BY <2>1, ReceiveTypes
  <2>3. Got.n \in 0..MaxCalls /\ k \in Kinds
        BY <2>2 DEF InFrames, Kinds
  <2>4. BlockingType'
        BY <2>1, <2>3, ResultTypes DEF Set, CallTypes, BlockingType
  <2>5. AppType'
        BY <2>2, StageTypes DEF CallTypes
  <2>6. WireType' /\ ChannelType' /\ EventsType' /\ BrokerType'
        BY <1>1, <2>2 DEF OnReply, CallTypes, WireType, ChannelType, EventsType, BrokerType
  <2> QED BY <2>4, <2>5, <2>6 DEF CallTypes
<1>2. ASSUME NEW k \in {"getOk", "getEmpty", "cancelOk"}, Receive(k), wire' = Rest,
             events' = events, NEW got \in 0..MaxDeliveries,
             blocking' = [Set(k) EXCEPT !.got = got], ChannelType'
      PROVE  CallTypes'
  <2>1. Got \in InFrames /\ Rest \in [out : Seq(OutFrames), in : Seq(InFrames)]
        /\ app' = [app EXCEPT !.call.stage = "round"] /\ broker' = broker
        BY <1>2, ReceiveTypes
  <2>2. Got.n \in 0..MaxCalls /\ k \in Kinds
        BY <2>1 DEF InFrames, Kinds
  <2>3. BlockingType'
        BY <1>2, <2>2, ResultTypes DEF Set, CallTypes, BlockingType
  <2>4. AppType'
        BY <2>1, StageTypes DEF CallTypes
  <2>5. WireType' /\ EventsType' /\ BrokerType'
        BY <1>2, <2>1 DEF CallTypes, WireType, EventsType, BrokerType
  <2> QED BY <1>2, <2>3, <2>4, <2>5 DEF CallTypes
<1>3. CASE OnGetOk
      BY <1>2, <1>3, ReceiveTypes DEF OnGetOk, InFrames, CallTypes, ChannelType
<1>4. ASSUME NEW k \in Kinds, BlockingType, NEW n \in 0..MaxCalls,
             blocking' = [blocking EXCEPT !.ready[k] = n]
      PROVE  blocking' = [[blocking EXCEPT !.ready[k] = n] EXCEPT !.got = blocking.got]
             /\ blocking.got \in 0..MaxDeliveries
      BY <1>4 DEF BlockingType
<1>5. ASSUME NEW k \in {"getEmpty", "cancelOk"}, Receive(k), blocking' = Set(k)
      PROVE  blocking' = [Set(k) EXCEPT !.got = blocking.got] /\ blocking.got \in 0..MaxDeliveries
      BY <1>4, <1>5, ReceiveTypes DEF InFrames, Kinds, Set, CallTypes
<1>6. CASE OnGetEmpty
      BY <1>2, <1>5, <1>6 DEF OnGetEmpty, CallTypes, ChannelType
<1>7. CASE OnCancelOk
      BY <1>2, <1>5, <1>7 DEF OnCancelOk, CallTypes, ChannelType
<1>8. CASE OnReturn
  <2> DEFINE b == [blocking EXCEPT !.returned = IF blocking.confirming THEN Got.n ELSE @]
  <2>1. Got \in InFrames /\ Rest \in [out : Seq(OutFrames), in : Seq(InFrames)]
        /\ app' = [app EXCEPT !.call.stage = "round"] /\ broker' = broker
        BY <1>8, ReceiveTypes DEF OnReturn
  <2>2. Got.n \in 0..MaxCalls
        BY <2>1 DEF InFrames
  <2>3. b \in [infos : [Tags -> Infos], generator : GeneratorTags \cup {None},
               genEvents : Seq(GeneratorEvents), pending : Seq(ChannelEvents),
               confirming : BOOLEAN, returned : 0..MaxCalls, onReturn : BOOLEAN,
               ready : [Kinds -> 0..MaxCalls], got : 0..MaxDeliveries,
               ackless : SUBSET Tags, used : SUBSET GeneratorTags]
        BY <2>2 DEF CallTypes, BlockingType
  <2>4. \/ AddPending(b, Event("returned", None, 0))
        \/ blocking' = b /\ events' = events
        BY <1>8 DEF OnReturn
  <2>5. BlockingType' /\ EventsType'
    <3>1. CASE AddPending(b, Event("returned", None, 0))
          BY <2>3, <3>1, EventTypes, AddPendingTypes
    <3>2. CASE blocking' = b /\ events' = events
          BY <2>3, <3>2 DEF CallTypes, BlockingType, EventsType
    <3> QED BY <2>4, <3>1, <3>2
  <2>6. AppType'
        BY <2>1, StageTypes DEF CallTypes
  <2>7. WireType' /\ ChannelType' /\ BrokerType'
        BY <1>8, <2>1 DEF OnReturn, CallTypes, WireType, ChannelType, BrokerType
  <2> QED BY <2>5, <2>6, <2>7 DEF CallTypes
<1>9. CASE OnDeliver
  <2>1. Got \in InFrames /\ Rest \in [out : Seq(OutFrames), in : Seq(InFrames)]
        /\ app' = [app EXCEPT !.call.stage = "round"] /\ broker' = broker
        /\ Got.type = "deliver" /\ Rest.out = wire.out
        BY <1>9, ReceiveTypes DEF OnDeliver
  <2>2. Got.tag \in Tags /\ Got.id \in Deliveries
        BY <2>1, CallBoundsAssumption DEF InFrames, Deliveries
  <2>3. AppType' /\ ChannelType' /\ BrokerType'
        BY <1>9, <2>1, StageTypes DEF CallTypes, OnDeliver, ChannelType, BrokerType
  <2>4. CASE channel.tags[Got.tag] = "cancelling"
    <3>1. Frame("settle", 0, None, Got.id) \in OutFrames
          BY <2>2, MadeTypes, CallBoundsAssumption DEF Deliveries
    <3>2. wire.out \in Seq(OutFrames)
          BY DEF CallTypes, WireType
    <3>3. Append(wire.out, Frame("settle", 0, None, Got.id)) \in Seq(OutFrames)
          BY <3>1, <3>2, StreamTypes
    <3>4. /\ \/ wire' = [Rest EXCEPT !.out = Rest.out]
             \/ wire' = [Rest EXCEPT !.out = Append(Rest.out, Frame("settle", 0, None, Got.id))]
          /\ blocking' = blocking /\ events' = events
          BY <1>9, <2>4 DEF OnDeliver
    <3>5. WireType'
          BY <2>1, <3>2, <3>3, <3>4 DEF WireType
    <3>6. BlockingType' /\ EventsType'
          BY <3>4 DEF CallTypes, BlockingType, EventsType
    <3> QED BY <2>3, <3>5, <3>6 DEF CallTypes
  <2>5. CASE channel.tags[Got.tag] = "none"
        BY <1>9, <2>1, <2>3, <2>5 DEF OnDeliver, CallTypes, WireType, BlockingType, EventsType
  <2>6. CASE channel.tags[Got.tag] \notin {"cancelling", "none"}
    <3>1. wire' = Rest /\ ToSink(blocking, Got.tag, Event("delivery", Got.tag, Got.id))
          BY <1>9, <2>6 DEF OnDeliver
    <3>2. BlockingType' /\ EventsType'
          BY <2>2, <3>1, EventTypes, ToSinkTypes DEF Tags, CallTypes, BlockingType
    <3> QED BY <2>1, <2>3, <3>1, <3>2 DEF CallTypes, WireType
  <2> QED BY <2>4, <2>5, <2>6
<1>10. CASE OnCancel
  <2> DEFINE b == [blocking EXCEPT
                       !.infos[Got.tag] = IF @ = "tearing" THEN @ ELSE "cancelled"]
  <2>1. Got \in InFrames /\ Rest \in [out : Seq(OutFrames), in : Seq(InFrames)]
        /\ app' = [app EXCEPT !.call.stage = "round"] /\ broker' = broker
        /\ Got.type = "brokerCancel"
        BY <1>10, ReceiveTypes DEF OnCancel
  <2>2. Got.tag \in Tags
        BY <2>1 DEF InFrames
  <2>3. AppType' /\ ChannelType' /\ BrokerType' /\ WireType'
        BY <1>10, <2>1, StageTypes DEF CallTypes, OnCancel, ChannelType, BrokerType, WireType
  <2>4. b \in [infos : [Tags -> Infos], generator : GeneratorTags \cup {None},
               genEvents : Seq(GeneratorEvents), pending : Seq(ChannelEvents),
               confirming : BOOLEAN, returned : 0..MaxCalls, onReturn : BOOLEAN,
               ready : [Kinds -> 0..MaxCalls], got : 0..MaxDeliveries,
               ackless : SUBSET Tags, used : SUBSET GeneratorTags]
        BY DEF CallTypes, BlockingType, Infos
  <2>5. BlockingType' /\ EventsType'
    <3>1. ToSink(b, Got.tag, Event("cancellation", Got.tag, 0))
          BY <1>10 DEF OnCancel
    <3>2. /\ Got.tag \in GeneratorTags
                => Event("cancellation", Got.tag, 0) \in GeneratorEvents
          /\ Got.tag \notin GeneratorTags
                => Event("cancellation", Got.tag, 0) \in ChannelEvents
          BY <2>2, EventTypes DEF Tags
    <3> HIDE DEF b
    <3> QED BY <2>4, <3>1, <3>2, ToSinkTypes
  <2> QED BY <2>3, <2>5 DEF CallTypes
<1>11. CASE OnChannelClose
  <2>1. Rest \in [out : Seq(OutFrames), in : Seq(InFrames)]
        /\ app' = [app EXCEPT !.call.stage = "round"] /\ broker' = broker
        BY <1>11, ReceiveTypes DEF OnChannelClose
  <2>2. AppType'
        BY <2>1, StageTypes DEF CallTypes
  <2>3. ChannelType'
        BY <1>11 DEF OnChannelClose, CallTypes, ChannelType
  <2>4. BlockingType'
    <3>1. [blocking.ready EXCEPT !["confirm"] = 0] \in [Kinds -> 0..MaxCalls]
          BY CallBoundsAssumption, ResultTypes DEF Kinds, CallTypes
    <3>2. blocking' = [blocking EXCEPT !.ready = [blocking.ready EXCEPT !["confirm"] = 0],
                           !.pending = <<>>, !.infos = [t \in Tags |-> "none"], !.generator = None]
          BY <1>11 DEF OnChannelClose, CallTypes, BlockingType
    <3>3. <<>> \in Seq(ChannelEvents) /\ [t \in Tags |-> "none"] \in [Tags -> Infos]
          BY DEF Infos
    <3> QED BY <3>1, <3>2, <3>3 DEF CallTypes, BlockingType
  <2>5. events.requested \cup {"wakeup"} \in SUBSET {"channel", "wakeup"}
        BY DEF CallTypes, EventsType
  <2>6. EventsType'
        BY <1>11, <2>5 DEF OnChannelClose, Request, CallTypes, EventsType
  <2>7. WireType' /\ BrokerType'
        BY <1>11, <2>1 DEF OnChannelClose, CallTypes, WireType, BrokerType
  <2> QED BY <2>2, <2>3, <2>4, <2>6, <2>7 DEF CallTypes
<1>12. CASE OnBlocked
  <2>1. Rest \in [out : Seq(OutFrames), in : Seq(InFrames)]
        /\ app' = [app EXCEPT !.call.stage = "round"] /\ broker' = broker
        BY <1>12, ReceiveTypes DEF OnBlocked
  <2>2. AppType'
        BY <2>1, StageTypes DEF CallTypes
  <2>3. Append(events.ready, "blocked") \in Seq(Timers \cup {"blocked"})
        BY StreamTypes DEF CallTypes, EventsType
  <2>4. EventsType'
        BY <1>12, <2>3 DEF OnBlocked, CallTypes, EventsType
  <2>5. ChannelType' /\ BlockingType' /\ WireType' /\ BrokerType'
        BY <1>12, <2>1 DEF OnBlocked, CallTypes, ChannelType, BlockingType, WireType, BrokerType
  <2> QED BY <2>2, <2>4, <2>5 DEF CallTypes
<1> QED BY <1>1, <1>3, <1>6, <1>7, <1>8, <1>9, <1>10, <1>11, <1>12 DEF Frames

\* What _remove_pending_deliveries splits the pending events into.
LEMMA PendingParts ==
    ASSUME BlockingType, NEW tag
    PROVE  /\ Of(tag) \in Seq(ChannelEvents) /\ Without(tag) \in Seq(ChannelEvents)
           /\ \A i \in DOMAIN Of(tag) :
                 /\ Of(tag)[i].type = "delivery" /\ Of(tag)[i].tag = tag
                 /\ Of(tag)[i].id \in Deliveries
           /\ \A i \in DOMAIN Without(tag) : Without(tag)[i].tag # tag
           /\ \A W : Within(Without(tag), blocking.pending, W)
           /\ \A id \in Deliveries :
                 CountOf(blocking.pending, id) = CountOf(Of(tag), id) + CountOf(Without(tag), id)
<1> DEFINE q == blocking.pending
           P == {i \in DOMAIN q : IsOf(q[i], tag)}
           R == {i \in DOMAIN q : q[i].tag # tag}
<1>1. q \in Seq(ChannelEvents)
      BY DEF BlockingType
<1>2. P \in SUBSET DOMAIN q /\ R \in SUBSET DOMAIN q
      OBVIOUS
<1>3. Of(tag) = Picked(q, P) /\ Without(tag) = Picked(q, R)
      BY DEF Of, Without
<1> HIDE DEF q
<1>4. Picked(q, P) \in Seq(ChannelEvents) /\ Picked(q, R) \in Seq(ChannelEvents)
      BY <1>1, <1>2, PickedProperties
<1>5. ASSUME NEW i \in DOMAIN Picked(q, P)
      PROVE  /\ Picked(q, P)[i].type = "delivery" /\ Picked(q, P)[i].tag = tag
             /\ Picked(q, P)[i].id \in Deliveries
      BY <1>1, <1>2, PickedProperties, CallBoundsAssumption DEF Bijection, Injection, IsOf,
         ChannelEvents, Deliveries
<1>6. ASSUME NEW i \in DOMAIN Picked(q, R)
      PROVE  Picked(q, R)[i].tag # tag
      BY <1>1, <1>2, PickedProperties DEF Bijection, Injection
<1>7. \A W : Within(Picked(q, R), q, W)
      BY <1>1, <1>2, WithinPicked
<1>8. ASSUME NEW id \in Deliveries
      PROVE  CountOf(q, id) = CountOf(Picked(q, P), id) + CountOf(Picked(q, R), id)
      BY <1>1, <1>2, CountPicked DEF IsOf, ChannelEvents, Deliveries
<1>9. /\ \A i \in DOMAIN Of(tag) :
            Of(tag)[i].type = "delivery" /\ Of(tag)[i].tag = tag /\ Of(tag)[i].id \in Deliveries
      /\ \A i \in DOMAIN Without(tag) : Without(tag)[i].tag # tag
      BY <1>3, <1>5, <1>6
<1>10. /\ \A W : Within(Without(tag), q, W)
       /\ \A id \in Deliveries : CountOf(q, id) = CountOf(Of(tag), id) + CountOf(Without(tag), id)
      BY <1>3, <1>7, <1>8
<1>11. Of(tag) \in Seq(ChannelEvents) /\ Without(tag) \in Seq(ChannelEvents)
      BY <1>3, <1>4
<1> QED BY <1>9, <1>10, <1>11 DEF q

\* The rejections of some deliveries.
LEMMA RejectTypes ==
    ASSUME NEW U, NEW evts \in Seq(U), \A i \in DOMAIN evts : evts[i].id \in Deliveries
    PROVE  /\ Rejects(evts) \in Seq(OutFrames) /\ Free(Rejects(evts), Asking)
           /\ \A id : CountOf(Rejects(evts), id) = CountOf(evts, id)
<1> DEFINE r == Rejects(evts)
<1>1. DOMAIN r = DOMAIN evts /\ \A i \in DOMAIN r : r[i] = Frame("settle", 0, None, evts[i].id)
      BY DEF Rejects
<1>2. DOMAIN evts = 1..Len(evts) /\ Len(evts) \in Nat
      BY LenProperties
<1>3. \A id \in Deliveries : Frame("settle", 0, None, id) \in OutFrames
      BY MadeTypes, CallBoundsAssumption DEF Deliveries
<1>4. r = [i \in 1..Len(evts) |-> Frame("settle", 0, None, evts[i].id)]
      BY <1>2 DEF Rejects
<1> HIDE DEF r
<1>5. r \in Seq(OutFrames)
      BY <1>1, <1>2, <1>3, <1>4
<1>6. \A i \in DOMAIN r : r[i].type = "settle" /\ r[i].id = evts[i].id
      BY <1>1, MadeTypes
<1>7. Free(r, Asking)
      BY <1>6 DEF Free, Asking
<1>8. ASSUME NEW id
      PROVE  CountOf(r, id) = CountOf(evts, id)
      BY <1>1, <1>6 DEF CountOf
<1> QED BY <1>5, <1>7, <1>8 DEF r

\* Deliveries wait for the generator, and a cancellation may come last.
LEMMA WaitingDeliveries ==
    ASSUME BlockingType, Lanes, channel.state = "open", blocking.generator # None
    PROVE  LET evts == blocking.genEvents
               n == WaitingCount
           IN  /\ n \in 0..Len(evts)
               /\ \A i \in DOMAIN SubSeq(evts, 1, n) : SubSeq(evts, 1, n)[i].id \in Deliveries
               /\ \A i \in DOMAIN SubSeq(evts, n + 1, Len(evts)) :
                     SubSeq(evts, n + 1, Len(evts))[i].type = "cancellation"
<1> DEFINE evts == blocking.genEvents
           n == WaitingCount
           g == blocking.generator
<1>1. evts \in Seq(GeneratorEvents) /\ g \in GeneratorTags
      BY DEF BlockingType
<1> DEFINE len == Len(evts)
<1>2. len \in Nat /\ DOMAIN evts = 1..len
      BY <1>1, LenProperties
<1>3. g \in Tags
      BY <1>1 DEF Tags
<1>4. NoneAfter(evts, Cancellations(g), Known(g))
      BY <1>3 DEF Lanes, Lane, EventLane
<1>5. ASSUME NEW i \in DOMAIN evts
      PROVE  /\ evts[i] \in Known(g) /\ evts[i] \in GeneratorEvents
             /\ evts[i].type \in {"delivery", "cancellation"}
             /\ evts[i].type = "delivery" => evts[i].id \in Deliveries
             /\ evts[i].type = "cancellation" => evts[i] \in Cancellations(g)
      BY <1>1, CallBoundsAssumption DEF Lanes, Free, GeneratorEvents, Known, Cancellations,
         EventsOf, Deliveries
<1>6. evts = <<>> <=> len = 0
      BY <1>1, EmptySeq
<1>7. n = IF evts # <<>> /\ evts[len].type = "cancellation" THEN len - 1 ELSE len
      BY DEF WaitingCount, Last
<1> HIDE DEF evts, n, g, len
<1>8. n \in 0..len /\ n \in Nat /\ (n # len => n = len - 1 /\ evts[len].type = "cancellation")
      BY <1>2, <1>6, <1>7
<1>9. ASSUME NEW i \in 1..n
      PROVE  evts[i].id \in Deliveries
      BY <1>2, <1>4, <1>5, <1>6, <1>7, <1>8 DEF NoneAfter
<1>10. ASSUME NEW i \in n + 1..len
       PROVE  evts[i].type = "cancellation"
      BY <1>2, <1>8
<1>11. /\ DOMAIN SubSeq(evts, 1, n) = 1..n
       /\ \A i \in 1..n : SubSeq(evts, 1, n)[i] = evts[i]
      BY <1>2, <1>5, <1>8, SubSeqProperties, LenProperties
<1>12. \A i \in DOMAIN SubSeq(evts, n + 1, len) :
           SubSeq(evts, n + 1, len)[i].type = "cancellation"
      BY <1>2, <1>5, <1>8, <1>10, SubSeqProperties, LenProperties
<1> QED BY <1>8, <1>9, <1>11, <1>12 DEF evts, n, len

\* The calls of the application.
LEMMA ConsumeTypes ==
    ASSUME CallTypes, NEW tag \in Tags, NEW ackless \in BOOLEAN, ConsumeImpl(tag, ackless)
    PROVE  /\ ChannelType' /\ AppType' /\ WireType' /\ EventsType' /\ BrokerType'
           /\ SetUp(tag, ackless) \in
                  [infos : [Tags -> Infos], generator : GeneratorTags \cup {None},
                   genEvents : Seq(GeneratorEvents), pending : Seq(ChannelEvents),
                   confirming : BOOLEAN, returned : 0..MaxCalls, onReturn : BOOLEAN,
                   ready : [Kinds -> 0..MaxCalls], got : 0..MaxDeliveries,
                   ackless : SUBSET Tags, used : SUBSET GeneratorTags]
           /\ Call("consume", tag) \in Calls /\ Call("consume", tag).tag = tag
           /\ Start(Call("consume", tag), "consume", 0) /\ CanCall
<1>1. Start(Call("consume", tag), "consume", 0) /\ CanCall
      BY DEF ConsumeImpl, Start
<1>2. Call("consume", tag) \in Calls /\ Call("consume", tag).tag = tag
      BY <1>1, NewCall DEF CallTypes, Answered
<1>3. AppType' /\ WireType'
      BY <1>1, <1>2, CallBoundsAssumption, StartTypes DEF Requests
<1>4. ChannelType'
      BY DEF ConsumeImpl, CallTypes, ChannelType
<1>5. EventsType' /\ BrokerType'
      BY DEF ConsumeImpl, CallTypes, EventsType, BrokerType
<1>6. SetUp(tag, ackless) \in
          [infos : [Tags -> Infos], generator : GeneratorTags \cup {None},
           genEvents : Seq(GeneratorEvents), pending : Seq(ChannelEvents),
           confirming : BOOLEAN, returned : 0..MaxCalls, onReturn : BOOLEAN,
           ready : [Kinds -> 0..MaxCalls], got : 0..MaxDeliveries,
           ackless : SUBSET Tags, used : SUBSET GeneratorTags]
      BY DEF SetUp, CallTypes, BlockingType, Infos
<1> QED BY <1>1, <1>2, <1>3, <1>4, <1>5, <1>6

\* What a consumer is cancelled with: the rejects, and one request.
LEMMA CancelTypes ==
    ASSUME CallTypes, NEW tag \in Tags, NEW n \in 0..Len(blocking.genEvents), CancelImpl(tag, n),
           \A i \in DOMAIN SubSeq(blocking.genEvents, 1, n) :
               SubSeq(blocking.genEvents, 1, n)[i].id \in Deliveries
    PROVE  /\ CallTypes'
           /\ Rejects(SubSeq(blocking.genEvents, 1, n) \o Of(tag)) \in Seq(OutFrames)
           /\ Free(Rejects(SubSeq(blocking.genEvents, 1, n) \o Of(tag)), Asking)
           /\ \A id : CountOf(Rejects(SubSeq(blocking.genEvents, 1, n) \o Of(tag)), id)
                          = CountOf(SubSeq(blocking.genEvents, 1, n), id) + CountOf(Of(tag), id)
           /\ Frame("cancel", Number, tag, 0) \in OutFrames
<1> DEFINE a == SubSeq(blocking.genEvents, 1, n)
           b == SubSeq(blocking.genEvents, n + 1, Len(blocking.genEvents))
           U == GeneratorEvents \cup ChannelEvents
           r == Rejects(a \o Of(tag))
           c == Frame("cancel", Number, tag, 0)
<1>1. blocking.genEvents \in Seq(GeneratorEvents) /\ wire.out \in Seq(OutFrames)
      BY DEF CallTypes, BlockingType, WireType
<1>2. a \in Seq(GeneratorEvents) /\ b \in Seq(GeneratorEvents)
      BY <1>1, CutProperties
<1>3. /\ Of(tag) \in Seq(ChannelEvents) /\ Without(tag) \in Seq(ChannelEvents)
      /\ \A i \in DOMAIN Of(tag) : Of(tag)[i].id \in Deliveries
      BY PendingParts DEF CallTypes
<1> HIDE DEF a, b
<1>4. a \in Seq(U) /\ Of(tag) \in Seq(U)
      BY <1>2, <1>3
<1>5. \A i \in DOMAIN a : a[i].id \in Deliveries
      BY DEF a
<1>6. /\ a \o Of(tag) \in Seq(U)
      /\ \A i \in DOMAIN (a \o Of(tag)) : (a \o Of(tag))[i].id \in Deliveries
      BY <1>3, <1>4, <1>5, StreamTypes, JoinPositions
<1>7. /\ r \in Seq(OutFrames) /\ Free(r, Asking)
      /\ \A id : CountOf(r, id) = CountOf(a \o Of(tag), id)
      BY <1>6, RejectTypes
<1>8. \A id : CountOf(a \o Of(tag), id) = CountOf(a, id) + CountOf(Of(tag), id)
      BY <1>4, CountJoin
<1>9. CanCall /\ Number \in 1..MaxCalls
      /\ Call("cancel", tag) \in Calls /\ app.calls + 1 = Number
      BY NewCall DEF CancelImpl, Answered, CallTypes
<1>10. c \in OutFrames
      BY <1>9, CallBoundsAssumption, MadeTypes DEF Requests
<1>11. AppType'
  <2>1. app' = [app EXCEPT !.call = Call("cancel", tag), !.calls = Number]
        BY <1>9 DEF CancelImpl, CallTypes, AppType
  <2>2. Number \in 0..MaxCalls
        BY <1>9, CallBoundsAssumption
  <2> QED BY <1>9, <2>1, <2>2 DEF CallTypes, AppType
<1> DEFINE rejects == IF tag \notin blocking.ackless THEN r ELSE <<>>
           cancels == IF channel.tags[tag] = "consuming" THEN <<c>> ELSE <<>>
<1>12. rejects \in Seq(OutFrames) /\ cancels \in Seq(OutFrames)
      BY <1>7, <1>10, OneFrame
<1>13. wire' = [wire EXCEPT !.out = wire.out \o rejects \o cancels]
      BY DEF CancelImpl, a
<1> HIDE DEF rejects, cancels, r, c
<1>14. WireType'
      BY <1>1, <1>12, <1>13, StreamTypes DEF CallTypes, WireType
<1>15. ChannelType' /\ EventsType' /\ BrokerType'
      BY DEF CancelImpl, CallTypes, ChannelType, EventsType, BrokerType
<1>16. BlockingType'
      BY <1>2, <1>3 DEF CancelImpl, CallTypes, BlockingType, b, Infos
<1> QED BY <1>7, <1>8, <1>10, <1>11, <1>14, <1>15, <1>16 DEF CallTypes, a, r, c

\* The steps of the application.
LEMMA ApplicationTypes ==
    ASSUME CallsInv, Application
    PROVE  CallTypes'
<1> USE CallBoundsAssumption DEF CallsInv
<1>1. ASSUME NEW op \in {"rpc", "select", "get", "publish"}, Start(Call(op, None), op, 0),
             ChannelType', blocking' = blocking, events' = events, broker' = broker
      PROVE  CallTypes'
  <2>1. Call(op, None) \in Calls
        BY <1>1, NewCall DEF Start, Answered, CallTypes
  <2>2. AppType' /\ WireType'
        BY <1>1, <2>1, StartTypes DEF Requests
  <2> QED BY <1>1, <2>2 DEF CallTypes, BlockingType, EventsType, BrokerType
<1>2. CASE Synchronous \/ ConfirmDelivery \/ BasicPublish
      BY <1>1, <1>2 DEF Synchronous, ConfirmDelivery, BasicPublish, CallTypes, ChannelType
<1>3. CASE BasicGet
      BY <1>1, <1>3 DEF BasicGet, CallTypes, ChannelType
<1>4. ASSUME NEW id \in Deliveries, Settle(id)
      PROVE  CallTypes'
  <2>1. Start(Call("send", None), "settle", id)
        BY <1>4 DEF Settle
  <2>2. Call("send", None) \in Calls
        BY <2>1, NewCall DEF Start, Answered, CallTypes
  <2>3. id \in 0..MaxDeliveries /\ id # 0
        BY DEF Deliveries
  <2>4. CallTypes /\ "settle" \in Requests \cup {"settle"}
        BY DEF CallsInv
  <2>5. AppType' /\ WireType'
        BY <2>1, <2>2, <2>3, <2>4, StartTypes
  <2> QED BY <1>4, <2>5 DEF Settle, CallTypes, ChannelType, BlockingType, EventsType, BrokerType
<1>5. ASSUME NEW tag \in Tags, NEW ackless \in BOOLEAN, BasicConsume(tag, ackless)
      PROVE  CallTypes'
      BY <1>5, ConsumeTypes DEF BasicConsume, CallTypes, BlockingType
<1>6. ASSUME NEW tag \in Tags, NEW ackless \in BOOLEAN, NewGenerator(tag, ackless)
      PROVE  CallTypes'
  <2>1. /\ ConsumeImpl(tag, ackless) /\ tag \in GeneratorTags
        /\ blocking' = [SetUp(tag, ackless) EXCEPT !.generator = tag, !.genEvents = <<>>,
                                                   !.used = @ \cup {tag}]
        BY <1>6 DEF NewGenerator
  <2>2. /\ ChannelType' /\ AppType' /\ WireType' /\ EventsType' /\ BrokerType'
        /\ SetUp(tag, ackless) \in
               [infos : [Tags -> Infos], generator : GeneratorTags \cup {None},
                genEvents : Seq(GeneratorEvents), pending : Seq(ChannelEvents),
                confirming : BOOLEAN, returned : 0..MaxCalls, onReturn : BOOLEAN,
                ready : [Kinds -> 0..MaxCalls], got : 0..MaxDeliveries,
                ackless : SUBSET Tags, used : SUBSET GeneratorTags]
        BY <2>1, ConsumeTypes
  <2>3. BlockingType'
        BY <2>1, <2>2, EmptySeq DEF BlockingType
  <2> QED BY <2>2, <2>3 DEF CallTypes
<1>7. ASSUME NEW tag \in Tags, BasicCancel(tag)
      PROVE  CallTypes'
      BY <1>7, LenProperties, SubSeqEmpty, CancelTypes DEF BasicCancel, CallTypes, BlockingType
<1>8. CASE CancelGenerator
      BY <1>8, WaitingDeliveries, CancelTypes DEF CancelGenerator, CancelImpl, CanCall,
         CallTypes, BlockingType, Tags
<1>9. ASSUME NEW op \in Processing, NEW limited \in BOOLEAN, StartProcessing(op, limited)
      PROVE  CallTypes'
  <2>1. Call(op, None) \in Calls /\ app.calls + 1 \in 0..MaxCalls /\ app.calls + 1 = Number
        BY <1>9, NewCall DEF StartProcessing, CallTypes
  <2>2. [Call(op, None) EXCEPT !.limited = limited, !.stage = "loop"] \in Calls
        BY <2>1 DEF Calls
  <2>3. AppType'
        BY <1>9, <2>1, <2>2 DEF StartProcessing, CallTypes, AppType
  <2> QED BY <1>9, <2>3 DEF StartProcessing, CallTypes, ChannelType, BlockingType, EventsType,
     WireType, BrokerType
<1>10. ASSUME NEW t \in Timers, CallLater(t)
       PROVE  CallTypes'
  <2>1. app.calls + 1 \in 0..MaxCalls
        BY <1>10 DEF CallLater, CanCall, CallTypes, AppType
  <2>2. AppType' /\ EventsType'
        BY <1>10, <2>1 DEF CallLater, CallTypes, AppType, EventsType
  <2> QED BY <1>10, <2>2 DEF CallLater, CallTypes, ChannelType, BlockingType, WireType,
     BrokerType
<1>11. ASSUME NEW t \in Timers, RemoveTimeout(t)
       PROVE  CallTypes'
  <2>1. app.calls + 1 \in 0..MaxCalls
        BY <1>11 DEF RemoveTimeout, CanCall, CallTypes, AppType
  <2>2. Picked(events.ready, {i \in DOMAIN events.ready : events.ready[i] # t})
            \in Seq(Timers \cup {"blocked"})
        BY PickedProperties DEF CallTypes, EventsType
  <2>3. AppType' /\ EventsType'
        BY <1>11, <2>1, <2>2 DEF RemoveTimeout, CallTypes, AppType, EventsType
  <2> QED BY <1>11, <2>3 DEF RemoveTimeout, CallTypes, ChannelType, BlockingType, WireType,
     BrokerType
<1>12. /\ Application => \/ Synchronous \/ ConfirmDelivery \/ BasicPublish
                         \/ BasicGet \/ CancelGenerator
                         \/ \E id \in Deliveries : Settle(id)
                         \/ \E t \in Tags : \/ BasicCancel(t)
                                            \/ \E a \in BOOLEAN :
                                                BasicConsume(t, a) \/ NewGenerator(t, a)
                         \/ \E op \in Processing, limited \in BOOLEAN : StartProcessing(op, limited)
                         \/ \E t \in Timers : CallLater(t) \/ RemoveTimeout(t)
      BY DEF Application, Processing, ExchangeMethod, QueueMethod, TxMethod, QosOrRecover, Flow
<1> QED BY <1>2, <1>3, <1>4, <1>5, <1>6, <1>7, <1>8, <1>9, <1>10, <1>11, <1>12

\* What the broker answers, and how it counts the delivery in it.
LEMMA AnswerFrames ==
    ASSUME CallTypes, NEW f \in OutFrames, NEW frames \in Answers(f)
    PROVE  \/ frames = <<>> /\ f.type = "settle"
           \/ frames = <<>> /\ f.type = "publish" /\ ~broker.confirms
           \/ /\ f.type = "publish" /\ ~broker.confirms
              /\ frames = <<Frame("return", f.n, f.tag, 0)>>
           \/ /\ f.type = "publish" /\ broker.confirms
              /\ \/ frames = <<Frame("confirm", f.n, f.tag, 0)>>
                 \/ frames = <<Frame("return", f.n, f.tag, 0)>>
                                  \o <<Frame("confirm", f.n, f.tag, 0)>>
           \/ f.type \in {"rpc", "select"} /\ frames = <<Frame("ok", f.n, f.tag, 0)>>
           \/ f.type = "consume" /\ frames = <<Frame("consumeOk", f.n, f.tag, 0)>>
           \/ f.type = "cancel" /\ frames = <<Frame("cancelOk", f.n, f.tag, 0)>>
           \/ f.type = "get" /\ frames = <<Frame("getEmpty", f.n, f.tag, 0)>>
           \/ /\ f.type = "get" /\ broker.sent + 1 \in Deliveries
              /\ frames = <<Frame("getOk", f.n, None, broker.sent + 1)>>
<1> DEFINE reply(type) == <<Frame(type, f.n, f.tag, 0)>>
<1>1. f.type \in Requests \cup {"settle"}
      BY DEF OutFrames
<1>2. CASE f.type \in {"rpc", "select"}
      BY <1>2 DEF Answers
<1>3. CASE f.type \in {"consume", "cancel"}
      BY <1>3 DEF Answers
<1>4. CASE f.type = "get"
      BY <1>4 DEF Answers
<1>5. CASE f.type = "settle"
      BY <1>5 DEF Answers
<1>6. CASE f.type = "publish"
  <2>1. CASE broker.confirms
        BY <1>6, <2>1 DEF Answers
  <2>2. CASE ~broker.confirms
        BY <1>6, <2>2, OneFrame, StreamTypes DEF Answers
  <2> QED BY <2>1, <2>2
<1> QED BY <1>1, <1>2, <1>3, <1>4, <1>5, <1>6 DEF Requests

\* The ids in what it answers.
GotIds(frames) == {frames[i].id : i \in DOMAIN frames} \ {0}

\* The ids in an answer of no frame, of one, and of two that hold none.
LEMMA AnswerIds ==
    ASSUME NEW frames, NEW x, NEW y
    PROVE  /\ frames = <<>> => GotIds(frames) = {}
           /\ frames = <<x>> => GotIds(frames) = {x.id} \ {0}
           /\ frames = <<x>> \o <<y>> /\ x.id = 0 /\ y.id = 0 => GotIds(frames) = {}
      BY JoinPositions DEF GotIds

\* What the broker answers is a stream of frames.
LEMMA AnswerTypes ==
    ASSUME CallTypes, NEW f \in OutFrames, NEW frames \in Answers(f)
    PROVE  /\ frames \in Seq(InFrames)
           /\ GotIds(frames) = IF f.type = "get" /\
                                   frames = <<Frame("getOk", f.n, None, broker.sent + 1)>>
                               THEN {broker.sent + 1} ELSE {}
           /\ f.type = "get" /\ frames = <<Frame("getOk", f.n, None, broker.sent + 1)>>
                  => broker.sent + 1 \in Deliveries
<1>1. /\ f.n \in 0..MaxCalls /\ f.tag \in Tags \cup {None}
      /\ f.type \in {"consume", "cancel"} => f.tag \in Tags
      BY DEF OutFrames
<1>2. ASSUME NEW type \in {"ok", "confirm", "return", "getEmpty", "consumeOk", "cancelOk"},
             type \in {"consumeOk", "cancelOk"} => f.tag \in Tags
      PROVE  Frame(type, f.n, f.tag, 0) \in InFrames /\ Frame(type, f.n, f.tag, 0).id = 0
      BY <1>1, <1>2, CallBoundsAssumption DEF Frame, InFrames, Kinds
<1>3. ASSUME broker.sent + 1 \in Deliveries
      PROVE  /\ Frame("getOk", f.n, None, broker.sent + 1) \in InFrames
             /\ Frame("getOk", f.n, None, broker.sent + 1).id = broker.sent + 1
             /\ broker.sent + 1 # 0
             /\ Frame("getOk", f.n, None, broker.sent + 1).type = "getOk"
      BY <1>1, <1>3, CallBoundsAssumption DEF Deliveries, Frame, InFrames, Kinds
<1>4. ASSUME NEW x \in InFrames, frames = <<x>>, x.id = 0
      PROVE  /\ frames \in Seq(InFrames) /\ GotIds(frames) = {}
             /\ x.type # "getOk" => frames # <<Frame("getOk", f.n, None, broker.sent + 1)>>
      BY <1>4, AnswerIds DEF Frame
<1> DEFINE got == <<Frame("getOk", f.n, None, broker.sent + 1)>>
           Goal == /\ frames \in Seq(InFrames)
                   /\ GotIds(frames) = IF f.type = "get" /\ frames = got
                                       THEN {broker.sent + 1} ELSE {}
                   /\ f.type = "get" /\ frames = got => broker.sent + 1 \in Deliveries
<1>5. CASE frames = <<>>
      BY <1>5, AnswerFrames, EmptySeq, AnswerIds
<1>6. CASE f.type = "publish" /\ frames # <<>>
  <2>1. /\ Frame("return", f.n, f.tag, 0) \in InFrames /\ Frame("return", f.n, f.tag, 0).id = 0
        /\ Frame("confirm", f.n, f.tag, 0) \in InFrames /\ Frame("confirm", f.n, f.tag, 0).id = 0
        BY <1>2
  <2> DEFINE x == Frame("return", f.n, f.tag, 0)
             y == Frame("confirm", f.n, f.tag, 0)
  <2>2. frames = <<x>> \/ frames = <<y>> \/ frames = <<x>> \o <<y>>
        BY <1>6, AnswerFrames
  <2> HIDE DEF x, y
  <2>3. x \in InFrames /\ x.id = 0 /\ y \in InFrames /\ y.id = 0
        BY <2>1 DEF x, y
  <2>4. GotIds(frames) = {}
        BY <2>2, <2>3, AnswerIds
  <2>5. frames \in Seq(InFrames)
    <3>1. <<x>> \in Seq(InFrames) /\ <<y>> \in Seq(InFrames)
          BY <2>3, OneFrame
    <3>2. <<x>> \o <<y>> \in Seq(InFrames)
          BY <3>1, StreamTypes
    <3> QED BY <2>2, <3>1, <3>2
  <2> QED BY <1>6, <2>4, <2>5
<1>7. CASE f.type \notin {"publish", "get"} /\ frames # <<>>
      BY <1>1, <1>2, <1>4, <1>7, AnswerFrames
<1>8. CASE f.type = "get"
  <2>1. CASE frames = <<Frame("getEmpty", f.n, f.tag, 0)>>
        BY <1>2, <1>4, <2>1 DEF Frame
  <2>2. CASE broker.sent + 1 \in Deliveries /\ frames = got
        BY <1>3, <1>8, <2>2, AnswerIds, OneFrame
  <2> QED BY <1>8, <2>1, <2>2, AnswerFrames
<1> HIDE DEF Goal
<1>9. Goal
      BY <1>5, <1>6, <1>7, <1>8 DEF Goal
<1> QED BY <1>9 DEF Goal, got

\* Two frames.
LEMMA TwoFrames ==
    ASSUME NEW U, NEW x \in U, NEW y \in U, NEW S, NEW T
    PROVE  /\ <<x>> \o <<y>> \in Seq(U)
           /\ \A i \in DOMAIN (<<x>> \o <<y>>) : (<<x>> \o <<y>>)[i] \in {x, y}
           /\ Free(<<x>> \o <<y>>, S) <=> x \notin S /\ y \notin S
           /\ NoneAfter(<<x>> \o <<y>>, S, T) <=> x \notin S \/ y \notin T
<1>1. /\ <<x>> \in Seq(U) /\ <<y>> \in Seq(U)
      /\ Free(<<x>>, S) <=> x \notin S
      /\ Free(<<y>>, S) <=> y \notin S
      /\ Free(<<y>>, T) <=> y \notin T
      /\ NoneAfter(<<x>>, S, T) /\ NoneAfter(<<y>>, S, T)
      BY OneFrame
<1>2. Free(<<x>> \o <<y>>, S) <=> x \notin S /\ y \notin S
      BY <1>1, JoinFree
<1>3. NoneAfter(<<x>> \o <<y>>, S, T) <=>
          /\ NoneAfter(<<x>>, S, T) /\ NoneAfter(<<y>>, S, T)
          /\ Free(<<x>>, S) \/ Free(<<y>>, T)
      BY <1>1, JoinNoneAfter
<1>4. <<x>> \o <<y>> \in Seq({x, y})
      BY StreamTypes, OneFrame
<1>5. <<x>> \o <<y>> \in Seq(U)
      BY <1>1, StreamTypes
<1> HIDE DEF Free, NoneAfter
<1> QED BY <1>1, <1>2, <1>3, <1>4, <1>5

\* What each frame answers, and that a reply comes last.
LEMMA AnswerShape ==
    ASSUME CallTypes, NEW f \in OutFrames, NEW frames \in Answers(f)
    PROVE  /\ \A i \in DOMAIN frames :
                 /\ frames[i].n = f.n /\ frames[i].tag \in {f.tag, None}
                 /\ \/ frames[i].type = "return" /\ f.type = "publish"
                    \/ frames[i].type = "confirm" /\ f.type = "publish" /\ broker.confirms
                    \/ frames[i].type = "ok" /\ f.type \in {"rpc", "select"}
                    \/ frames[i].type = "consumeOk" /\ f.type = "consume"
                    \/ frames[i].type = "cancelOk" /\ f.type = "cancel"
                    \/ frames[i].type \in {"getOk", "getEmpty"} /\ f.type = "get"
                 /\ frames[i].type # "getOk" => frames[i].tag = f.tag
           /\ NoneAfter(frames, Replying, Replying \cup Returns)
           /\ f.type = "settle" => frames = <<>>
<1>1. \A type, n, tag, id :
          /\ Frame(type, n, tag, id).type = type /\ Frame(type, n, tag, id).n = n
          /\ Frame(type, n, tag, id).tag = tag
      BY MadeTypes
<1>2. ASSUME NEW x, frames = <<x>>
      PROVE  /\ \A i \in DOMAIN frames : frames[i] = x
             /\ NoneAfter(frames, Replying, Replying \cup Returns)
  <2>1. \A i \in DOMAIN frames : frames[i] = x
        BY <1>2
  <2>2. NoneAfter(frames, Replying, Replying \cup Returns)
        BY <1>2, OneFrame
  <2> QED BY <2>1, <2>2
<1>3. ASSUME NEW x, NEW y, frames = <<x>> \o <<y>>, x.type = "return"
      PROVE  /\ \A i \in DOMAIN frames : frames[i] \in {x, y}
             /\ NoneAfter(frames, Replying, Replying \cup Returns)
  <2>1. x \notin Replying
        BY <1>3 DEF Replying, Kinds
  <2> DEFINE U == {x, y}
  <2>2. x \in U /\ y \in U
        OBVIOUS
  <2> HIDE DEF U
  <2>3. NoneAfter(<<x>> \o <<y>>, Replying, Replying \cup Returns) <=>
            x \notin Replying \/ y \notin Replying \cup Returns
        BY <2>2, TwoFrames
  <2>4. \A i \in DOMAIN (<<x>> \o <<y>>) : (<<x>> \o <<y>>)[i] \in {x, y}
        BY <2>2, TwoFrames
  <2> QED BY <1>3, <2>1, <2>3, <2>4
<1>4. CASE frames = <<>>
      BY <1>4 DEF NoneAfter
<1>5. CASE f.type = "publish" /\ frames # <<>>
  <2> DEFINE x == Frame("return", f.n, f.tag, 0)
             y == Frame("confirm", f.n, f.tag, 0)
  <2>1. x.type = "return" /\ x.n = f.n /\ x.tag = f.tag
        /\ y.type = "confirm" /\ y.n = f.n /\ y.tag = f.tag
        BY <1>1
  <2>2. \/ frames = <<x>>
        \/ broker.confirms /\ (frames = <<y>> \/ frames = <<x>> \o <<y>>)
        BY <1>5, AnswerFrames
  <2> HIDE DEF x, y
  <2>3. CASE frames = <<x>>
    <3>1. /\ \A i \in DOMAIN frames : frames[i] = x
          /\ NoneAfter(frames, Replying, Replying \cup Returns)
          BY <1>2, <2>3
    <3> QED BY <1>5, <2>1, <3>1
  <2>4. CASE broker.confirms /\ frames = <<y>>
    <3>1. /\ \A i \in DOMAIN frames : frames[i] = y
          /\ NoneAfter(frames, Replying, Replying \cup Returns)
          BY <1>2, <2>4
    <3> QED BY <1>5, <2>1, <2>4, <3>1
  <2>5. CASE broker.confirms /\ frames = <<x>> \o <<y>>
    <3>1. /\ \A i \in DOMAIN frames : frames[i] \in {x, y}
          /\ NoneAfter(frames, Replying, Replying \cup Returns)
          BY <1>3, <2>1, <2>5
    <3> QED BY <1>5, <2>1, <2>5, <3>1
  <2> QED BY <2>2, <2>3, <2>4, <2>5
<1>6. CASE f.type # "publish" /\ frames # <<>>
  <2> DEFINE Made(x) ==
              /\ x.n = f.n /\ x.tag \in {f.tag, None}
              /\ x.type # "getOk" => x.tag = f.tag
              /\ f.type # "settle"
              /\ \/ x.type = "ok" /\ f.type \in {"rpc", "select"}
                 \/ x.type = "consumeOk" /\ f.type = "consume"
                 \/ x.type = "cancelOk" /\ f.type = "cancel"
                 \/ x.type \in {"getOk", "getEmpty"} /\ f.type = "get"
  <2>1. \E x : frames = <<x>> /\ Made(x)
    <3>1. CASE f.type \in {"rpc", "select"} /\ frames = <<Frame("ok", f.n, f.tag, 0)>>
          BY <1>1, <3>1
    <3>2. CASE f.type = "consume" /\ frames = <<Frame("consumeOk", f.n, f.tag, 0)>>
          BY <1>1, <3>2
    <3>3. CASE f.type = "cancel" /\ frames = <<Frame("cancelOk", f.n, f.tag, 0)>>
          BY <1>1, <3>3
    <3>4. CASE f.type = "get" /\ frames = <<Frame("getEmpty", f.n, f.tag, 0)>>
          BY <1>1, <3>4
    <3>5. CASE f.type = "get" /\ frames = <<Frame("getOk", f.n, None, broker.sent + 1)>>
          BY <1>1, <3>5
    <3> HIDE DEF Made
    <3> QED BY <1>6, <3>1, <3>2, <3>3, <3>4, <3>5, AnswerFrames
  <2>2. PICK x : frames = <<x>> /\ Made(x)
        BY <2>1
  <2>3. /\ \A i \in DOMAIN frames : frames[i] = x
        /\ NoneAfter(frames, Replying, Replying \cup Returns)
        BY <1>2, <2>2
  <2>4. /\ x.n = f.n /\ x.tag \in {f.tag, None}
        /\ x.type # "getOk" => x.tag = f.tag
        /\ f.type # "settle"
        /\ \/ x.type = "ok" /\ f.type \in {"rpc", "select"}
           \/ x.type = "consumeOk" /\ f.type = "consume"
           \/ x.type = "cancelOk" /\ f.type = "cancel"
           \/ x.type \in {"getOk", "getEmpty"} /\ f.type = "get"
        BY <2>2
  <2>5. ASSUME NEW i \in DOMAIN frames
        PROVE  /\ frames[i].n = f.n /\ frames[i].tag \in {f.tag, None}
               /\ frames[i].type # "getOk" => frames[i].tag = f.tag
               /\ \/ frames[i].type = "ok" /\ f.type \in {"rpc", "select"}
                  \/ frames[i].type = "consumeOk" /\ f.type = "consume"
                  \/ frames[i].type = "cancelOk" /\ f.type = "cancel"
                  \/ frames[i].type \in {"getOk", "getEmpty"} /\ f.type = "get"
        BY <2>3, <2>4
  <2> HIDE DEF Made
  <2> QED BY <2>3, <2>4, <2>5
<1> QED BY <1>4, <1>5, <1>6

\* A frame that is written and answered.
LEMMA WriteTypes ==
    ASSUME CallTypes, Write
    PROVE  /\ CallTypes' /\ wire.out # <<>> /\ Head(wire.out) \in OutFrames /\ broker.open
           /\ Turn /\ app' = [app EXCEPT !.call.stage = "round"]
           /\ channel' = channel /\ blocking' = blocking /\ events' = events
           /\ wire'.out = Tail(wire.out) /\ Tail(wire.out) \in Seq(OutFrames)
           /\ broker'.open = broker.open /\ broker'.ackless = broker.ackless
           /\ broker'.confirms = (broker.confirms \/ Head(wire.out).type = "select")
           /\ broker'.consumers = CASE Head(wire.out).type = "consume" ->
                                           broker.consumers \cup {Head(wire.out).tag}
                                    [] Head(wire.out).type = "cancel" ->
                                           broker.consumers \ {Head(wire.out).tag}
                                    [] OTHER -> broker.consumers
           /\ \E frames \in Answers(Head(wire.out)) :
                 /\ frames \in Seq(InFrames) /\ wire'.in = wire.in \o frames
                 /\ \/ /\ GotIds(frames) = {} /\ broker'.sent = broker.sent
                       /\ broker'.unacked = IF Head(wire.out).type = "settle"
                                            THEN broker.unacked \ {Head(wire.out).id}
                                            ELSE broker.unacked
                    \/ /\ GotIds(frames) = {broker.sent + 1} /\ broker'.sent = broker.sent + 1
                       /\ Head(wire.out).type = "get" /\ broker.sent + 1 \in Deliveries
                       /\ frames = <<Frame("getOk", Head(wire.out).n, None, broker.sent + 1)>>
                       /\ broker'.unacked = broker.unacked \cup {broker.sent + 1}
<1> DEFINE f == Head(wire.out)
<1>1. /\ wire.out # <<>> /\ broker.open /\ Turn /\ app' = [app EXCEPT !.call.stage = "round"]
      /\ channel' = channel /\ blocking' = blocking /\ events' = events
      BY DEF Write, InTurn
<1>2. wire.out \in Seq(OutFrames) /\ wire.in \in Seq(InFrames)
      BY DEF CallTypes, WireType
<1>3. f \in OutFrames /\ Tail(wire.out) \in Seq(OutFrames)
      BY <1>1, <1>2, StreamTypes
<1>4. PICK frames \in Answers(f) :
          /\ wire' = [out |-> Tail(wire.out), in |-> wire.in \o frames]
          /\ broker' = [broker EXCEPT
                 !.consumers = CASE f.type = "consume" -> @ \cup {f.tag}
                                 [] f.type = "cancel" -> @ \ {f.tag}
                                 [] OTHER -> @,
                 !.confirms = @ \/ f.type = "select",
                 !.sent = @ + Cardinality(GotIds(frames)),
                 !.unacked = IF f.type = "settle" THEN @ \ {f.id} ELSE @ \cup GotIds(frames)]
      BY DEF Write, GotIds
<1>5. /\ frames \in Seq(InFrames)
      /\ \/ GotIds(frames) = {}
         \/ /\ GotIds(frames) = {broker.sent + 1} /\ f.type = "get"
            /\ frames = <<Frame("getOk", f.n, None, broker.sent + 1)>>
            /\ broker.sent + 1 \in Deliveries
      BY <1>3, AnswerTypes
<1> HIDE DEF f
<1>6. wire.in \o frames \in Seq(InFrames)
      BY <1>2, <1>5, StreamTypes
<1>7. wire'.out = Tail(wire.out) /\ wire'.in = wire.in \o frames /\ WireType'
      BY <1>3, <1>4, <1>6 DEF WireType
<1>8. /\ broker'.open = broker.open /\ broker'.ackless = broker.ackless
      /\ broker'.notices = broker.notices
      /\ broker'.confirms = (broker.confirms \/ f.type = "select")
      /\ broker'.consumers = CASE f.type = "consume" -> broker.consumers \cup {f.tag}
                               [] f.type = "cancel" -> broker.consumers \ {f.tag}
                               [] OTHER -> broker.consumers
      /\ broker'.sent = broker.sent + Cardinality(GotIds(frames))
      /\ broker'.unacked = IF f.type = "settle" THEN broker.unacked \ {f.id}
                           ELSE broker.unacked \cup GotIds(frames)
      BY <1>4 DEF CallTypes, BrokerType
<1>9. \/ /\ GotIds(frames) = {} /\ broker'.sent = broker.sent
         /\ broker'.unacked = IF f.type = "settle" THEN broker.unacked \ {f.id}
                              ELSE broker.unacked
      \/ /\ GotIds(frames) = {broker.sent + 1} /\ broker'.sent = broker.sent + 1
         /\ f.type = "get" /\ broker.sent + 1 \in Deliveries
         /\ frames = <<Frame("getOk", f.n, None, broker.sent + 1)>>
         /\ broker'.unacked = broker.unacked \cup {broker.sent + 1}
  <2>1. CASE GotIds(frames) = {}
        BY <1>8, <2>1, FS_EmptySet, CallBoundsAssumption DEF CallTypes, BrokerType
  <2>2. CASE /\ GotIds(frames) = {broker.sent + 1} /\ f.type = "get"
             /\ frames = <<Frame("getOk", f.n, None, broker.sent + 1)>>
             /\ broker.sent + 1 \in Deliveries
        BY <1>8, <2>2, FS_Singleton
  <2> QED BY <1>5, <2>1, <2>2
<1>10. BrokerType'
  <2>1. broker'.sent \in 0..MaxDeliveries /\ broker'.unacked \in SUBSET Deliveries
        BY <1>9, CallBoundsAssumption DEF CallTypes, BrokerType, Deliveries
  <2>2. broker'.consumers \in SUBSET Tags
        BY <1>3, <1>8 DEF OutFrames, f, CallTypes, BrokerType
  <2>3. broker' \in [open : BOOLEAN, consumers : {broker'.consumers}, confirms : BOOLEAN,
                     unacked : {broker'.unacked}, ackless : SUBSET Deliveries,
                     sent : {broker'.sent}, notices : 0..MaxNotices]
        BY <1>4 DEF CallTypes, BrokerType
  <2> QED BY <2>1, <2>2, <2>3 DEF BrokerType
<1>11. AppType'
      BY <1>1, StageTypes DEF CallTypes
<1>12. ChannelType' /\ BlockingType' /\ EventsType'
      BY <1>1 DEF CallTypes, ChannelType, BlockingType, EventsType
<1>13. CallTypes'
      BY <1>7, <1>10, <1>11, <1>12 DEF CallTypes
<1>14. \E fr \in Answers(f) :
           /\ fr \in Seq(InFrames) /\ wire'.in = wire.in \o fr
           /\ \/ /\ GotIds(fr) = {} /\ broker'.sent = broker.sent
                 /\ broker'.unacked = IF f.type = "settle" THEN broker.unacked \ {f.id}
                                      ELSE broker.unacked
              \/ /\ GotIds(fr) = {broker.sent + 1} /\ broker'.sent = broker.sent + 1
                 /\ f.type = "get" /\ broker.sent + 1 \in Deliveries
                 /\ fr = <<Frame("getOk", f.n, None, broker.sent + 1)>>
                 /\ broker'.unacked = broker.unacked \cup {broker.sent + 1}
      BY <1>5, <1>7, <1>9
<1> QED BY <1>1, <1>3, <1>7, <1>8, <1>13, <1>14 DEF f

\* A frame that the broker sends on its own.
LEMMA BrokerTypes ==
    ASSUME CallTypes,
           \/ BrokerCloses \/ BrokerBlocks
           \/ \E t \in Tags : BrokerDelivers(t) \/ BrokerCancels(t)
    PROVE  CallTypes'
<1> USE CallBoundsAssumption
<1>1. ASSUME NEW x \in InFrames, BrokerSends(x)
      PROVE  WireType'
      BY <1>1, StreamTypes DEF CallTypes, WireType, BrokerSends
<1>2. \A type \in {"brokerCancel", "blocked", "close"}, tag \in Tags \cup {None} :
          (type = "brokerCancel" => tag \in Tags) => Frame(type, 0, tag, 0) \in InFrames
      BY DEF Frame, InFrames
<1>3. \A tag \in Tags, id \in Deliveries : Frame("deliver", 0, tag, id) \in InFrames
      BY DEF Frame, InFrames, Deliveries
<1>4. channel' = channel /\ blocking' = blocking /\ events' = events /\ app' = app
      BY DEF BrokerCloses, BrokerBlocks, BrokerDelivers, BrokerCancels
<1>5. CASE BrokerCloses
  <2>1. Frame("close", 0, None, 0) \in InFrames
        BY <1>2
  <2>2. WireType'
        BY <1>1, <1>5, <2>1 DEF BrokerCloses
  <2>3. BrokerType'
        BY <1>5 DEF BrokerCloses, CallTypes, BrokerType
  <2> QED BY <1>4, <2>2, <2>3 DEF CallTypes, ChannelType, BlockingType, EventsType, AppType
<1>6. CASE BrokerBlocks
  <2>1. Frame("blocked", 0, None, 0) \in InFrames
        BY <1>2
  <2>2. WireType'
        BY <1>1, <1>6, <2>1 DEF BrokerBlocks
  <2>3. BrokerType'
        BY <1>6 DEF BrokerBlocks, CallTypes, BrokerType
  <2> QED BY <1>4, <2>2, <2>3 DEF CallTypes, ChannelType, BlockingType, EventsType, AppType
<1>7. ASSUME NEW t \in Tags, BrokerCancels(t)
      PROVE  CallTypes'
  <2>1. Frame("brokerCancel", 0, t, 0) \in InFrames
        BY <1>2
  <2>2. WireType'
        BY <1>1, <1>7, <2>1 DEF BrokerCancels
  <2>3. BrokerType'
    <3>1. broker.notices \in 0..MaxNotices /\ broker.notices < MaxNotices
          BY <1>7 DEF BrokerCancels, CallTypes, BrokerType
    <3>2. broker.notices + 1 \in 0..MaxNotices
          BY <3>1
    <3> QED BY <1>7, <3>2 DEF BrokerCancels, CallTypes, BrokerType
  <2> QED BY <1>4, <2>2, <2>3 DEF CallTypes, ChannelType, BlockingType, EventsType, AppType
<1>8. ASSUME NEW t \in Tags, BrokerDelivers(t)
      PROVE  CallTypes'
  <2>1. broker.sent + 1 \in Deliveries /\ broker.sent + 1 \in 0..MaxDeliveries
    <3>1. broker.sent \in 0..MaxDeliveries /\ broker.sent < MaxDeliveries
          BY <1>8 DEF BrokerDelivers, CallTypes, BrokerType
    <3> QED BY <3>1 DEF Deliveries
  <2>2. WireType'
        BY <1>1, <1>3, <1>8, <2>1 DEF BrokerDelivers
  <2>3. BrokerType'
        BY <1>8, <2>1 DEF BrokerDelivers, CallTypes, BrokerType
  <2> QED BY <1>4, <2>2, <2>3 DEF CallTypes, ChannelType, BlockingType, EventsType, AppType
<1> QED BY <1>5, <1>6, <1>7, <1>8

\* The frame that the broker sends on its own, and what becomes of its side.
LEMMA BrokerFrames ==
    ASSUME CallTypes,
           \/ BrokerCloses \/ BrokerBlocks
           \/ \E t \in Tags : BrokerDelivers(t) \/ BrokerCancels(t)
    PROVE  /\ channel' = channel /\ blocking' = blocking /\ events' = events /\ app' = app
           /\ wire'.out = wire.out /\ channel.state = "open" /\ broker.open
           /\ broker'.confirms = broker.confirms
           /\ \E x \in InFrames :
                 /\ wire'.in = Append(wire.in, x)
                 /\ \/ x.type = "close" /\ x.id = 0 /\ ~broker'.open /\ broker'.consumers = {}
                    \/ /\ x.type = "blocked" /\ x.id = 0
                       /\ broker'.consumers = broker.consumers /\ broker'.unacked = broker.unacked
                       /\ broker'.ackless = broker.ackless /\ broker'.sent = broker.sent
                    \/ /\ x.type = "brokerCancel" /\ x.id = 0 /\ x.tag \in broker.consumers
                       /\ broker'.consumers = broker.consumers \ {x.tag}
                       /\ broker'.unacked = broker.unacked
                       /\ broker'.ackless = broker.ackless /\ broker'.sent = broker.sent
                    \/ /\ x.type = "deliver" /\ x.id = broker.sent + 1 /\ x.tag \in broker.consumers
                       /\ broker.sent + 1 \in Deliveries
                       /\ broker'.consumers = broker.consumers /\ broker'.sent = broker.sent + 1
                       /\ IF x.tag \in blocking.ackless
                          THEN /\ broker'.unacked = broker.unacked
                               /\ broker'.ackless = broker.ackless \cup {x.id}
                          ELSE /\ broker'.unacked = broker.unacked \cup {x.id}
                               /\ broker'.ackless = broker.ackless
<1> USE CallBoundsAssumption
<1>1. \A type \in {"brokerCancel", "blocked", "close"}, tag \in Tags \cup {None} :
          (type = "brokerCancel" => tag \in Tags) => Frame(type, 0, tag, 0) \in InFrames
      BY DEF Frame, InFrames
<1>2. \A tag \in Tags, id \in Deliveries : Frame("deliver", 0, tag, id) \in InFrames
      BY DEF Frame, InFrames, Deliveries
<1>3. /\ channel' = channel /\ blocking' = blocking /\ events' = events /\ app' = app
      /\ channel.state = "open" /\ broker.open
      BY DEF BrokerCloses, BrokerBlocks, BrokerDelivers, BrokerCancels, BrokerSends
<1>4. ASSUME NEW x, BrokerSends(x)
      PROVE  wire'.in = Append(wire.in, x) /\ wire'.out = wire.out
      BY <1>4 DEF BrokerSends, CallTypes, WireType
<1>5. \A type, tag, id : /\ Frame(type, 0, tag, id).type = type
                         /\ Frame(type, 0, tag, id).tag = tag /\ Frame(type, 0, tag, id).id = id
      BY MadeTypes
<1>6. CASE BrokerCloses
      BY <1>1, <1>3, <1>4, <1>5, <1>6 DEF BrokerCloses, CallTypes, BrokerType
<1>7. CASE BrokerBlocks
      BY <1>1, <1>3, <1>4, <1>5, <1>7 DEF BrokerBlocks, CallTypes, BrokerType
<1>8. ASSUME NEW t \in Tags, BrokerCancels(t)
      PROVE  /\ wire'.out = wire.out /\ broker'.confirms = broker.confirms
             /\ \E x \in InFrames :
                   /\ wire'.in = Append(wire.in, x)
                   /\ x.type = "brokerCancel" /\ x.id = 0 /\ x.tag \in broker.consumers
                   /\ broker'.consumers = broker.consumers \ {x.tag}
                   /\ broker'.unacked = broker.unacked
                   /\ broker'.ackless = broker.ackless /\ broker'.sent = broker.sent
  <2> DEFINE x == Frame("brokerCancel", 0, t, 0)
  <2>1. x \in InFrames /\ x.type = "brokerCancel" /\ x.id = 0 /\ x.tag = t
        BY <1>1, <1>5
  <2>2. BrokerSends(x) /\ t \in broker.consumers
        BY <1>8 DEF BrokerCancels
  <2> HIDE DEF x
  <2>3. /\ broker'.consumers = broker.consumers \ {t} /\ broker'.unacked = broker.unacked
        /\ broker'.ackless = broker.ackless /\ broker'.sent = broker.sent
        /\ broker'.confirms = broker.confirms
        BY <1>8 DEF BrokerCancels, CallTypes, BrokerType
  <2> QED BY <1>4, <2>1, <2>2, <2>3
<1>9. ASSUME NEW t \in Tags, BrokerDelivers(t)
      PROVE  /\ wire'.out = wire.out /\ broker'.confirms = broker.confirms
             /\ \E x \in InFrames :
                   /\ wire'.in = Append(wire.in, x)
                   /\ x.type = "deliver" /\ x.id = broker.sent + 1 /\ x.tag \in broker.consumers
                   /\ broker.sent + 1 \in Deliveries
                   /\ broker'.consumers = broker.consumers /\ broker'.sent = broker.sent + 1
                   /\ IF x.tag \in blocking.ackless
                      THEN /\ broker'.unacked = broker.unacked
                           /\ broker'.ackless = broker.ackless \cup {x.id}
                      ELSE /\ broker'.unacked = broker.unacked \cup {x.id}
                           /\ broker'.ackless = broker.ackless
  <2> DEFINE x == Frame("deliver", 0, t, broker.sent + 1)
  <2>1. broker.sent + 1 \in Deliveries
    <3>1. broker.sent \in 0..MaxDeliveries /\ broker.sent < MaxDeliveries
          BY <1>9 DEF BrokerDelivers, CallTypes, BrokerType
    <3> QED BY <3>1 DEF Deliveries
  <2>2. x \in InFrames /\ x.type = "deliver" /\ x.id = broker.sent + 1 /\ x.tag = t
        BY <1>2, <1>5, <2>1
  <2>3. BrokerSends(x) /\ t \in broker.consumers
        BY <1>9 DEF BrokerDelivers
  <2> HIDE DEF x
  <2>4. /\ broker'.consumers = broker.consumers /\ broker'.sent = broker.sent + 1
        /\ broker'.confirms = broker.confirms
        /\ IF t \in blocking.ackless
           THEN /\ broker'.unacked = broker.unacked
                /\ broker'.ackless = broker.ackless \cup {broker.sent + 1}
           ELSE /\ broker'.unacked = broker.unacked \cup {broker.sent + 1}
                /\ broker'.ackless = broker.ackless
        BY <1>9 DEF BrokerDelivers, CallTypes, BrokerType
  <2> QED BY <1>4, <2>1, <2>2, <2>3, <2>4
<1> QED BY <1>3, <1>6, <1>7, <1>8, <1>9

\* The rounds of the I/O loop, and what ends the stream.
LEMMA RoundTypes ==
    ASSUME CallTypes,
           \/ EndRound \/ LimitExpires \/ WriteIgnored \/ OnConnectionClosed
           \/ \E t \in Timers : TimerReady(t)
    PROVE  CallTypes'
<1>1. CASE EndRound
      BY <1>1, StageTypes DEF EndRound, CallTypes, ChannelType, BlockingType, EventsType,
         WireType, BrokerType
<1>2. ASSUME app' = InTurn
      PROVE  AppType'
      BY <1>2, StageTypes DEF InTurn, CallTypes
<1>3. CASE LimitExpires
      BY <1>2, <1>3 DEF LimitExpires, CallTypes, ChannelType, BlockingType, EventsType,
         WireType, BrokerType
<1>4. CASE WriteIgnored
  <2>1. Tail(wire.out) \in Seq(OutFrames)
        BY <1>4, StreamTypes DEF WriteIgnored, CallTypes, WireType
  <2>2. WireType'
        BY <1>4, <2>1 DEF WriteIgnored, CallTypes, WireType
  <2> QED BY <1>2, <1>4, <2>2 DEF WriteIgnored, CallTypes, ChannelType, BlockingType,
     EventsType, BrokerType
<1>5. ASSUME NEW t \in Timers, TimerReady(t)
      PROVE  CallTypes'
      BY <1>2, <1>5, StreamTypes DEF CallTypes, EventsType, TimerReady, ChannelType,
         BlockingType, WireType, BrokerType
<1>6. CASE OnConnectionClosed
  <2>1. InTurn \in [call : Calls, dispatcher : Calls, calls : 0..MaxCalls,
                    given : SUBSET Deliveries, removed : SUBSET Timers, raised : BOOLEAN,
                    lost : BOOLEAN]
        BY DEF CallTypes, AppType, Calls, InTurn
  <2>2. app' = [InTurn EXCEPT !.lost = TRUE]
        BY <1>6 DEF OnConnectionClosed
  <2>3. AppType'
        BY <2>1, <2>2 DEF AppType
  <2>4. ChannelType'
        BY <1>6 DEF OnConnectionClosed, CallTypes, ChannelType
  <2>5. WireType'
        BY <1>6, EmptySeq DEF OnConnectionClosed, WireType
  <2> QED BY <1>6, <2>3, <2>4, <2>5 DEF OnConnectionClosed, CallTypes, BlockingType, EventsType,
     BrokerType
<1> QED BY <1>1, <1>3, <1>4, <1>5, <1>6

\* The results and finally clauses of a call.
LEMMA EndedTypes ==
    ASSUME BlockingType, app.call \in Calls, CallShape(app.call), NEW raised \in BOOLEAN
    PROVE  Ended(app.call, raised) \in
               [infos : [Tags -> Infos], generator : GeneratorTags \cup {None},
                genEvents : Seq(GeneratorEvents), pending : Seq(ChannelEvents),
                confirming : BOOLEAN, returned : 0..MaxCalls, onReturn : BOOLEAN,
                ready : [Kinds -> 0..MaxCalls], got : 0..MaxDeliveries,
                ackless : SUBSET Tags, used : SUBSET GeneratorTags]
<1> DEFINE c == app.call
<1>1. \A k \in Kinds : [blocking.ready EXCEPT ![k] = 0] \in [Kinds -> 0..MaxCalls]
      BY ResultTypes, CallBoundsAssumption
<1>2. {"ok", "getOk", "getEmpty", "confirm", "consumeOk", "cancelOk"} \subseteq Kinds
      /\ 0 \in 0..MaxCalls /\ 0 \in 0..MaxDeliveries
      BY CallBoundsAssumption DEF Kinds
<1>3. CASE c.op \in {"rpc", "select"}
      BY <1>1, <1>2, <1>3 DEF Ended, BlockingType
<1>4. CASE c.op = "get"
      BY <1>1, <1>2, <1>4 DEF Ended, BlockingType
<1>5. CASE c.op = "publish"
      BY <1>1, <1>2, <1>5 DEF Ended, BlockingType
<1>6. CASE c.op = "consume"
      BY <1>1, <1>2, <1>6 DEF Ended, CallShape, BlockingType, Infos
<1>7. CASE c.op = "cancel"
      BY <1>1, <1>2, <1>7, PendingParts DEF Ended, BlockingType, Infos
<1>8. CASE c.op \notin {"rpc", "select", "get", "publish", "consume", "cancel"}
      BY <1>8 DEF Ended, BlockingType
<1> QED BY <1>3, <1>4, <1>5, <1>6, <1>7, <1>8

\* A call that goes on, in the loop of its caller.
LEMMA AfterTypes ==
    ASSUME NEW c \in Calls
    PROVE  /\ After(c) \in Calls
           /\ \/ After(c) = NoCall
              \/ /\ After(c) = [c EXCEPT !.stage = "loop", !.acquired = FALSE]
                 /\ After(c).op = c.op /\ After(c).n = c.n /\ After(c).tag = c.tag
                 /\ After(c).stage = "loop" /\ ~After(c).acquired
      BY MadeTypes DEF Calls, After

\* A step that changes only what is known of the events.
LEMMA OnlyEvents ==
    ASSUME CallTypes, EventsType', UNCHANGED <<channel, blocking, app, wire, broker>>
    PROVE  CallTypes'
      BY DEF CallTypes, ChannelType, BlockingType, AppType, WireType, BrokerType

\* The steps of the library that end a call or a callback.
LEMMA LibraryTypes ==
    ASSUME CallsInv, Library \/ CallbackReturns \/ CallbackRaises
    PROVE  CallTypes'
<1> USE DEF CallsInv
<1>1. app.call \in Calls /\ app.dispatcher \in Calls /\ CallShape(app.call)
      BY DEF CallTypes, AppType, CallAndDispatch
<1>2. CASE CallReturns
  <2>1. BlockingType'
        BY <1>1, <1>2, EndedTypes DEF CallReturns, CallTypes, BlockingType
  <2>2. EventsType'
        BY <1>2 DEF CallTypes, EventsType, CallReturns, Woken, Request
  <2>3. AppType'
    <3>1. [app.call EXCEPT !.op = "next", !.tag = None, !.stage = "loop"] \in Calls
          BY <1>1 DEF Calls, Processing
    <3>2. Given(app.call) \in SUBSET Deliveries
          BY CallBoundsAssumption, PendingParts DEF CallTypes, BlockingType, Deliveries, Given
    <3>3. app' = [app EXCEPT
               !.call = IF app.call.op = "consume" /\ app.call.tag \in GeneratorTags
                        THEN [app.call EXCEPT !.op = "next", !.tag = None, !.stage = "loop"]
                        ELSE NoCall,
               !.given = app.given \cup Given(app.call)]
          BY <1>2 DEF CallReturns
    <3> HIDE DEF CallsInv
    <3> QED BY <3>1, <3>2, <3>3, MadeTypes DEF CallsInv, CallTypes, AppType
  <2> QED BY <1>2, <2>1, <2>2, <2>3 DEF CallReturns, CallTypes, ChannelType, WireType,
     BrokerType
<1>3. CASE CallRaises
  <2>1. BlockingType'
        BY <1>1, <1>3, EndedTypes DEF CallRaises, CallTypes, BlockingType
  <2>2. EventsType'
        BY <1>3, EmptySeq DEF CallTypes, EventsType, CallRaises, Request
  <2>3. AppType'
        BY <1>3, MadeTypes DEF CallRaises, CallTypes, AppType
  <2> QED BY <1>3, <2>1, <2>2, <2>3 DEF CallRaises, CallTypes, ChannelType, WireType, BrokerType
<1>4. CASE EnterProcessing
  <2>1. \A w \in BOOLEAN : [app.call EXCEPT !.stage = "flush", !.acquired = w] \in Calls
        BY <1>1 DEF Calls
  <2>2. AppType'
        BY <1>4, <2>1 DEF EnterProcessing, CallTypes, AppType
  <2>3. events.depth + 1 \in 0..2
        BY <1>4 DEF EnterProcessing, Resumes, Flushing, CallAndDispatch
  <2>4. EventsType'
        BY <1>4, <2>3 DEF EnterProcessing, CallTypes, EventsType
  <2> QED BY <1>4, <2>2, <2>4 DEF EnterProcessing, CallTypes, ChannelType, BlockingType,
     WireType, BrokerType
<1>5. CASE LoopEnds
  <2> DEFINE event == app.call.op = "next" /\ blocking.generator # None
                      /\ blocking.genEvents # <<>>
             e == Head(blocking.genEvents)
  <2>1. event => /\ e \in GeneratorEvents /\ Tail(blocking.genEvents) \in Seq(GeneratorEvents)
                 /\ e.type = "delivery" => e.id \in Deliveries
        BY StreamTypes, CallBoundsAssumption DEF CallTypes, BlockingType, GeneratorEvents,
           Deliveries
  <2>2. /\ app' = [app EXCEPT !.call = NoCall,
                       !.given = IF event /\ e.type = "delivery" THEN @ \cup {e.id} ELSE @]
        /\ blocking' = IF ~event THEN blocking
                       ELSE [blocking EXCEPT !.genEvents = Tail(@),
                                !.generator = IF e.type = "cancellation" THEN None ELSE @]
        BY <1>5 DEF LoopEnds
  <2> HIDE DEF event, e
  <2>3. AppType'
        BY <2>1, <2>2, MadeTypes DEF CallTypes, AppType
  <2>4. BlockingType'
        BY <2>1, <2>2 DEF CallTypes, BlockingType
  <2> QED BY <1>5, <2>3, <2>4 DEF LoopEnds, CallTypes, ChannelType, EventsType, WireType,
     BrokerType
<1>6. CASE FlushEnds
  <2>1. app.call.op \in Processing /\ Flushing
        BY <1>6 DEF FlushEnds
  <2>2. events.depth - 1 \in 0..2
        BY <2>1 DEF CallAndDispatch
  <2>3. AppType'
    <3>1. After(app.call) \in Calls /\ NoCall \in Calls
          BY <1>1, MadeTypes, AfterTypes
    <3>2. \/ app' = [app EXCEPT !.call = NoCall]
          \/ app' = [app EXCEPT !.call = NoCall, !.dispatcher = app.call]
          \/ app' = [app EXCEPT !.call = After(app.call)]
          BY <1>6 DEF FlushEnds
    <3> QED BY <1>1, <3>1, <3>2 DEF CallTypes, AppType
  <2>4. EventsType'
    <3>1. Len(events.ready) \in Nat /\ <<>> \in Seq(Timers \cup {"blocked"})
          BY LenProperties, EmptySeq DEF CallTypes, EventsType
    <3>2. \/ events' = [events EXCEPT !.depth = @ - 1, !.ready = <<>>]
          \/ events' = [events EXCEPT !.todo = Len(events.ready), !.phase = "connection"]
          \/ events' = [events EXCEPT !.depth = @ - 1]
          BY <1>6 DEF FlushEnds
    <3> QED BY <2>2, <3>1, <3>2 DEF CallTypes, EventsType
  <2> QED BY <1>6, <2>3, <2>4 DEF FlushEnds, CallTypes, ChannelType, BlockingType, WireType,
     BrokerType
<1>7. CASE DispatchReady
  <2>1. /\ Head(events.ready) \in Timers \cup {"blocked"}
        /\ Tail(events.ready) \in Seq(Timers \cup {"blocked"})
        BY <1>7, StreamTypes DEF DispatchReady, CallTypes, EventsType
  <2>2. events.todo - 1 \in Nat
        BY <1>7 DEF DispatchReady, CallTypes, EventsType
  <2>3. EventsType'
        BY <1>7, <2>1, <2>2 DEF DispatchReady, CallTypes, EventsType, Callbacks
  <2> QED BY <1>7, <2>3 DEF DispatchReady, CallTypes, ChannelType, BlockingType, AppType,
     WireType, BrokerType
<1>8. CASE DispatchChannel
  <2>1. events' = [events EXCEPT !.requested = {},
           !.phase = IF "channel" \in events.requested /\ channel.state = "open"
                     THEN "channel" ELSE "end"]
        BY <1>8 DEF DispatchChannel
  <2>2. EventsType'
        BY <2>1 DEF CallTypes, EventsType
  <2> QED BY <1>8, <2>2, OnlyEvents DEF DispatchChannel
<1>9. CASE DispatchEvent
  <2> DEFINE e == Head(blocking.pending)
  <2>1. e \in ChannelEvents /\ Tail(blocking.pending) \in Seq(ChannelEvents)
        BY <1>9, StreamTypes DEF DispatchEvent, CallTypes, BlockingType
  <2>2. /\ e.type \in {"delivery", "cancellation", "returned"}
        /\ e.type = "delivery" => e.id \in Deliveries
        BY <2>1, CallBoundsAssumption DEF ChannelEvents, Deliveries
  <2>3. /\ blocking' = [blocking EXCEPT !.pending = Tail(@),
              !.infos = IF e.type = "cancellation" THEN [@ EXCEPT ![e.tag] = "none"] ELSE @]
        /\ app' = [app EXCEPT !.given = IF e.type = "delivery" THEN @ \cup {e.id} ELSE @]
        /\ events' = [events EXCEPT !.callback = e.type]
        BY <1>9 DEF DispatchEvent
  <2> HIDE DEF e
  <2>4. BlockingType'
        BY <2>1, <2>3 DEF CallTypes, BlockingType, Infos
  <2>5. AppType'
        BY <2>2, <2>3 DEF CallTypes, AppType
  <2>6. EventsType'
        BY <2>2, <2>3 DEF CallTypes, EventsType, Callbacks
  <2> QED BY <1>9, <2>4, <2>5, <2>6 DEF DispatchEvent, CallTypes, ChannelType, WireType,
     BrokerType
<1>10. CASE EndDispatch
  <2>1. events.depth - 1 \in 0..2
        BY <1>10 DEF EndDispatch, BetweenCallbacks, CallAndDispatch
  <2>2. AppType'
        BY <1>1, <1>10, MadeTypes, AfterTypes DEF EndDispatch, CallTypes, AppType
  <2>3. EventsType'
        BY <1>10, <2>1 DEF EndDispatch, CallTypes, EventsType
  <2> QED BY <1>10, <2>2, <2>3 DEF EndDispatch, CallTypes, ChannelType, BlockingType, WireType,
     BrokerType
<1>11. CASE CallbackReturns
  <2>1. events' = [events EXCEPT !.callback = None] /\ None \in Callbacks
        BY <1>11 DEF CallbackReturns, Callbacks
  <2>2. EventsType'
        BY <2>1 DEF CallTypes, EventsType
  <2> QED BY <1>11, <2>2, OnlyEvents DEF CallbackReturns
<1>12. CASE CallbackRaises
  <2>1. AppType'
        BY <1>12, MadeTypes DEF CallbackRaises, CallTypes, AppType
  <2>2. EventsType'
    <3>1. None \in Callbacks /\ 0 \in 0..2
          BY DEF Callbacks
    <3> QED BY <1>12, <3>1 DEF CallbackRaises, CallTypes, EventsType
  <2> QED BY <1>12, <2>1, <2>2 DEF CallbackRaises, CallTypes, ChannelType, BlockingType,
     WireType, BrokerType
<1>13. CASE EndRound
      BY <1>13, RoundTypes
<1> QED BY <1>2, <1>3, <1>4, <1>5, <1>6, <1>7, <1>8, <1>9, <1>10, <1>11, <1>12, <1>13 DEF
   Library

-----------------------------------------------------------------------------
(* The call under way, and the dispatch around it.                         *)

SameDispatch ==
    /\ app'.dispatcher = app.dispatcher /\ events'.depth = events.depth
    /\ events'.phase = events.phase /\ events'.callback = events.callback

\* The same call goes on.
LEMMA CallGoesOn ==
    ASSUME AppType, CallAndDispatch, SameDispatch,
           app'.call = app.call \/ /\ Flushing
                                   /\ \E stage \in {"flush", "round"} :
                                         app' = [app EXCEPT !.call.stage = stage],
           app.calls <= app'.calls, app'.calls \in Nat
    PROVE  CallAndDispatch'
<1>1. app.call.n <= app'.calls /\ app.dispatcher.n <= app'.calls
      BY CallBoundsAssumption DEF AppType, CallAndDispatch, Calls
<1>2. CASE app'.call = app.call
      BY <1>1, <1>2 DEF CallAndDispatch, SameDispatch, Dispatching, Flushing
<1>3. ASSUME Flushing, NEW stage \in {"flush", "round"}, app' = [app EXCEPT !.call.stage = stage]
      PROVE  CallAndDispatch'
      BY <1>1, <1>3, StageTypes DEF Flushing, NoCall, CallAndDispatch, CallShape, SameDispatch,
         Dispatching
<1> QED BY <1>2, <1>3

\* The application calls, at the top or in a callback.
LEMMA CallStarts ==
    ASSUME AppType, CallAndDispatch, SameDispatch, CanCall, NEW c \in Calls, app'.call = c,
           app'.calls = Number, c.n = Number, c.op # "none", CallShape(c), ~c.acquired,
           c.op \in Processing => c.stage = "loop"
    PROVE  CallAndDispatch'
<1>1. /\ Number \in 1..MaxCalls /\ Number = app.calls + 1 /\ app.call = NoCall
      /\ Dispatching => events.callback # None
      BY CallBoundsAssumption DEF AppType, CanCall, Idle, Number
<1>2. app.dispatcher.n <= Number
      BY <1>1, CallBoundsAssumption DEF AppType, CallAndDispatch, Calls
<1>3. ~(app.call.op \in Processing /\ Flushing)
      BY <1>1, MadeTypes DEF Processing
<1>4. ~(c.op \in Processing /\ Flushing')
      BY DEF Flushing
<1>5. c # NoCall
      BY MadeTypes
<1> QED BY <1>1, <1>2, <1>3, <1>4, <1>5 DEF CallAndDispatch, SameDispatch, Dispatching

\* A call that is answered has its own number, tag and kind.
LEMMA CallFits ==
    ASSUME AppType, CanCall
    PROVE  /\ \A op \in Answered \ {"consume", "cancel"} : CallShape(Call(op, None))
           /\ \A op \in {"consume", "cancel"}, tag \in Tags : CallShape(Call(op, tag))
           /\ \A op \in Processing, limited \in BOOLEAN :
                 LET c == [Call(op, None) EXCEPT !.limited = limited, !.stage = "loop"]
                 IN  /\ CallShape(c) /\ c \in Calls /\ c.op = op /\ c.n = Number /\ c.tag = None
                     /\ c.stage = "loop" /\ ~c.acquired
<1>1. ASSUME NEW op \in Processing \cup Answered, NEW tag \in Tags \cup {None}
      PROVE  /\ Call(op, tag) \in Calls /\ Number \in 1..MaxCalls
             /\ Call(op, tag).op = op /\ Call(op, tag).n = Number /\ Call(op, tag).tag = tag
             /\ Call(op, tag).stage = "flush" /\ ~Call(op, tag).acquired
             /\ Call(op, tag) # NoCall /\ Number # 0
      BY NewCall, MadeTypes
<1>2. None \notin Tags
      BY MadeTypes
<1>3. ASSUME NEW op \in Answered \ {"consume", "cancel"}
      PROVE  CallShape(Call(op, None))
      BY <1>1, <1>2, <1>3 DEF CallShape, Answered, Processing
<1>4. ASSUME NEW op \in {"consume", "cancel"}, NEW tag \in Tags
      PROVE  CallShape(Call(op, tag))
      BY <1>1, <1>4 DEF CallShape, Answered, Processing
<1>5. ASSUME NEW op \in Processing, NEW limited \in BOOLEAN
      PROVE  LET c == [Call(op, None) EXCEPT !.limited = limited, !.stage = "loop"]
             IN  /\ CallShape(c) /\ c \in Calls /\ c.op = op /\ c.n = Number /\ c.tag = None
                 /\ c.stage = "loop" /\ ~c.acquired
  <2> DEFINE c == [Call(op, None) EXCEPT !.limited = limited, !.stage = "loop"]
  <2>1. c \in Calls /\ c.op = op /\ c.n = Number /\ c.tag = None /\ c.stage = "loop" /\ ~c.acquired
    <3>1. /\ Call(op, None) \in Calls
          /\ Call(op, None).op = op /\ Call(op, None).n = Number /\ Call(op, None).tag = None
          /\ ~Call(op, None).acquired
          BY <1>1
    <3> QED BY <3>1 DEF Calls
  <2> HIDE DEF c
  <2>2. CallShape(c)
        BY <1>1, <1>2, <2>1, MadeTypes DEF CallShape, Answered, Processing
  <2> QED BY <2>1, <2>2 DEF c
<1> QED BY <1>3, <1>4, <1>5

\* The calls nest: at most one waits under the dispatcher that runs a callback.
LEMMA CallsNest ==
    ASSUME CallsInv, Next, CallTypes'
    PROVE  CallAndDispatch'
<1> USE DEF CallsInv, CallTypes
<1>1. /\ AppType /\ AppType' /\ app'.calls \in Nat /\ app.calls \in Nat
      /\ app.calls <= app.calls /\ app.calls <= app.calls + 1
      BY CallBoundsAssumption DEF AppType
<1>2. ASSUME NEW op \in Answered \ {"consume", "cancel"}, NEW type, NEW id,
             Start(Call(op, None), type, id), events' = events
      PROVE  CallAndDispatch'
  <2>1. /\ CanCall /\ app'.call = Call(op, None) /\ app'.dispatcher = app.dispatcher
        /\ app'.calls = Number
        BY <1>2 DEF Start, AppType, Number
  <2>2. /\ Call(op, None) \in Calls /\ Call(op, None).n = Number /\ Call(op, None).op = op
        /\ ~Call(op, None).acquired
        BY <2>1, NewCall
  <2>3. CallShape(Call(op, None))
        BY <2>1, CallFits
  <2> QED BY <1>2, <2>1, <2>2, <2>3, CallStarts DEF SameDispatch, Answered, Processing
<1>3. ASSUME NEW op \in {"consume", "cancel"}, NEW tag \in Tags, CanCall, app'.call = Call(op, tag),
             app'.calls = Number, app'.dispatcher = app.dispatcher, events' = events
      PROVE  CallAndDispatch'
  <2>1. /\ Call(op, tag) \in Calls /\ Call(op, tag).n = Number /\ Call(op, tag).op = op
        /\ ~Call(op, tag).acquired
        BY <1>3, NewCall DEF Answered
  <2>2. CallShape(Call(op, tag))
        BY <1>3, CallFits
  <2> QED BY <1>3, <2>1, <2>2, CallStarts DEF SameDispatch, Processing
<1>4. ASSUME NEW op \in Processing, NEW limited \in BOOLEAN, StartProcessing(op, limited)
      PROVE  CallAndDispatch'
      BY <1>4, CallFits, CallStarts DEF StartProcessing, AppType, Number, SameDispatch,
         Processing
<1>5. CASE Application
  <2>1. CASE ExchangeMethod \/ QueueMethod \/ TxMethod \/ QosOrRecover \/ Flow
        BY <1>2, <2>1 DEF ExchangeMethod, QueueMethod, TxMethod, QosOrRecover, Flow,
           Synchronous, Answered
  <2>2. CASE ConfirmDelivery \/ BasicGet \/ BasicPublish
        BY <1>2, <2>2 DEF ConfirmDelivery, BasicGet, BasicPublish, Answered
  <2>3. CASE \E id \in Deliveries : Settle(id)
        BY <1>2, <2>3 DEF Settle, Answered
  <2>4. ASSUME NEW t \in Tags, NEW a \in BOOLEAN, ConsumeImpl(t, a)
        PROVE  CallAndDispatch'
        BY <1>3, <2>4 DEF ConsumeImpl, Start, AppType, Number
  <2>5. ASSUME NEW t \in Tags, NEW n, CancelImpl(t, n)
        PROVE  CallAndDispatch'
        BY <1>3, <2>5 DEF CancelImpl, AppType, Number
  <2>6. CASE CancelGenerator
        BY <2>5, <2>6 DEF CancelGenerator, BlockingType, Tags
  <2>7. CASE \E t \in Tags : \/ BasicCancel(t)
                             \/ \E a \in BOOLEAN : BasicConsume(t, a) \/ NewGenerator(t, a)
        BY <2>4, <2>5, <2>7 DEF BasicCancel, BasicConsume, NewGenerator
  <2>8. CASE \/ StartProcessing("consuming", FALSE)
             \/ \E op \in {"process", "next"}, limited \in BOOLEAN : StartProcessing(op, limited)
        BY <1>4, <2>8 DEF Processing
  <2>9. CASE \E t \in Timers : CallLater(t) \/ RemoveTimeout(t)
    <3>1. PICK t \in Timers : CallLater(t) \/ RemoveTimeout(t)
          BY <2>9
    <3> DEFINE Kept ==
              /\ \/ app' = [app EXCEPT !.calls = @ + 1]
                 \/ app' = [app EXCEPT !.removed = @ \cup {t}, !.calls = @ + 1]
              /\ \E scheduled, ready :
                     events' = [events EXCEPT !.scheduled = scheduled, !.ready = ready]
    <3>2. ASSUME CallLater(t)
          PROVE  Kept
      <4>1. /\ app' = [app EXCEPT !.calls = @ + 1]
            /\ events' = [events EXCEPT !.scheduled = @ \cup {t}]
            BY <3>2 DEF CallLater
      <4>2. events' = [events EXCEPT !.scheduled = @ \cup {t}, !.ready = events.ready]
            BY <4>1 DEF EventsType
      <4> QED BY <4>1, <4>2
    <3>3. ASSUME RemoveTimeout(t)
          PROVE  Kept
          BY <3>3 DEF RemoveTimeout
    <3>4. Kept
          BY <3>1, <3>2, <3>3
    <3>5. app'.call = app.call /\ app'.calls = app.calls + 1 /\ app'.dispatcher = app.dispatcher
          BY <3>4 DEF AppType
    <3>6. SameDispatch
          BY <3>4, <3>5 DEF EventsType, SameDispatch
    <3> QED BY <1>1, <3>5, <3>6, CallGoesOn
  <2> QED BY <1>5, <2>1, <2>2, <2>3, <2>6, <2>7, <2>8, <2>9 DEF Application
<1>6. ASSUME Flushing, NEW stage \in {"flush", "round"}, app' = [app EXCEPT !.call.stage = stage],
             events'.depth = events.depth, events'.phase = events.phase,
             events'.callback = events.callback
      PROVE  CallAndDispatch'
      BY <1>1, <1>6, StageTypes, CallGoesOn DEF SameDispatch
<1>7. CASE EndRound
      BY <1>6, <1>7 DEF EndRound, InRound
<1>8. CASE Write \/ WriteIgnored
      BY <1>6, <1>8 DEF Write, WriteIgnored, Turn, InTurn
<1>9. CASE LimitExpires \/ \E t \in Timers : TimerReady(t)
      BY <1>6, <1>9 DEF LimitExpires, TimerReady, Turn, InTurn, EventsType
<1>10. CASE Frames
      BY <1>6, <1>10 DEF Frames, OnReply, OnGetOk, OnGetEmpty, OnCancelOk, OnReturn, OnDeliver,
         OnCancel, OnChannelClose, OnBlocked, Receive, Turn, InTurn, ToSink, AddPending,
         Request, EventsType
<1>11. CASE OnConnectionClosed
      BY <1>11 DEF OnConnectionClosed, Turn, AppType, InTurn, Calls, Flushing, NoCall,
         CallAndDispatch, CallShape, Dispatching
<1>12. CASE \/ BrokerCloses \/ BrokerBlocks
            \/ \E t \in Tags : BrokerDelivers(t) \/ BrokerCancels(t)
      BY <1>1, <1>12, CallGoesOn DEF BrokerCloses, BrokerBlocks, BrokerDelivers, BrokerCancels,
         SameDispatch
<1>13. NoCall.op = "none" /\ CallShape(NoCall) /\ NoCall.n = 0 /\ ~NoCall.acquired
       /\ (app.call.op = "none" <=> app.call = NoCall) /\ None \notin Tags
       /\ app.call \in Calls /\ app.dispatcher \in Calls
      BY MadeTypes DEF CallShape, CallAndDispatch, Answered, Processing, AppType
<1>14. ASSUME app'.call = NoCall, app.call.op \notin Processing,
              app'.dispatcher = app.dispatcher, app'.calls = app.calls,
              events'.depth = events.depth, events'.phase = events.phase,
              events'.callback = events.callback
       PROVE  CallAndDispatch'
      BY <1>1, <1>13, <1>14 DEF Processing, CallAndDispatch, Dispatching
<1>15. CASE CallReturns
  <2>1. /\ app.call.op \in Answered /\ app.call.op \notin Processing
        /\ app'.dispatcher = app.dispatcher /\ app'.calls = app.calls
        /\ events'.depth = events.depth /\ events'.phase = events.phase
        /\ events'.callback = events.callback
        BY <1>15 DEF CallReturns, CallDone, Woken, Request, AppType, EventsType, Answered,
           Processing
  <2>2. CASE app.call.op = "consume" /\ app.call.tag \in GeneratorTags
    <3> DEFINE c == [app.call EXCEPT !.op = "next", !.tag = None, !.stage = "loop"]
    <3>1. app'.call = c
          BY <1>15, <2>2 DEF CallReturns, AppType
    <3>2. c.op = "next" /\ c.n = app.call.n /\ c.tag = None /\ c.stage = "loop"
          /\ c.acquired = app.call.acquired
          BY <1>13 DEF Calls
    <3>3. app.call.n # 0 /\ ~app.call.acquired /\ app.call # NoCall
          BY <1>13, <2>1, <2>2 DEF CallAndDispatch, CallShape, Answered, Processing
    <3> HIDE DEF c
    <3>4. CallShape(c) /\ c # NoCall /\ ~c.acquired /\ c.n = app.call.n
          BY <1>13, <3>2, <3>3 DEF CallShape, Answered, Processing
    <3>5. ~Flushing' /\ ~(app.call.op \in Processing /\ Flushing)
          BY <2>1, <3>1, <3>2 DEF Flushing
    <3> QED BY <2>1, <3>1, <3>3, <3>4, <3>5 DEF CallAndDispatch, Dispatching
  <2>3. CASE ~(app.call.op = "consume" /\ app.call.tag \in GeneratorTags)
        BY <1>14, <1>15, <2>1, <2>3 DEF CallReturns, AppType
  <2> QED BY <2>2, <2>3
<1>16. CASE CallRaises
      BY <1>14, <1>16 DEF CallRaises, CallDone, AppType, Answered, Processing, Request,
         EventsType
<1>17. CASE EnterProcessing
  <2> DEFINE c == [app.call EXCEPT !.stage = "flush", !.acquired = (events.depth = 0)]
  <2>1. app.call.op \in Processing /\ app.call.stage = "loop"
        BY <1>17 DEF EnterProcessing, Resumes
  <2>2. /\ app'.call = c /\ app'.dispatcher = app.dispatcher /\ app'.calls = app.calls
        /\ events'.depth = events.depth + 1 /\ events'.phase = events.phase
        /\ events'.callback = events.callback
        BY <1>17 DEF EnterProcessing, AppType, EventsType
  <2>3. c.op = app.call.op /\ c.n = app.call.n /\ c.tag = app.call.tag /\ c.stage = "flush"
        /\ (c.acquired <=> events.depth = 0)
        BY <1>13 DEF Calls
  <2> HIDE DEF c
  <2>4. app.call # NoCall /\ c # NoCall /\ CallShape(c)
        BY <1>13, <2>1, <2>3 DEF Processing, CallAndDispatch, CallShape
  <2>5. ~Flushing /\ Flushing'
        BY <2>1, <2>2, <2>3 DEF Flushing, Processing
  <2>6. c.acquired => ~Dispatching
        BY <2>3, <2>5 DEF CallAndDispatch
  <2> QED BY <2>1, <2>2, <2>3, <2>4, <2>5, <2>6 DEF CallAndDispatch, Dispatching
<1>18. CASE LoopEnds
  <2>1. app.call.op \in Processing /\ app.call.stage = "loop"
        BY <1>18 DEF LoopEnds, Resumes
  <2>2. /\ app'.call = NoCall /\ app'.dispatcher = app.dispatcher /\ app'.calls = app.calls
        /\ events' = events
        BY <1>18 DEF LoopEnds, AppType
  <2>3. ~Flushing /\ ~Flushing'
        BY <1>13, <2>1, <2>2 DEF Flushing
  <2> QED BY <1>1, <1>13, <2>2, <2>3 DEF CallAndDispatch, Dispatching
<1>19. ASSUME NEW c \in Calls, c.acquired, c.op \in Processing, c # NoCall, c.n <= app.calls,
              c.tag \notin Tags, c.n # 0
       PROVE  /\ CallShape(After(c)) /\ ~After(c).acquired /\ After(c).n <= app.calls
              /\ After(c).stage = "loop" \/ After(c).op = "none"
  <2>1. CASE After(c) = NoCall
        BY <1>1, <1>13, <2>1
  <2>2. CASE /\ After(c).op = c.op /\ After(c).n = c.n /\ After(c).tag = c.tag
             /\ After(c).stage = "loop" /\ ~After(c).acquired
        BY <1>13, <1>19, <2>2 DEF Processing, CallShape, Answered
  <2> QED BY <1>19, <2>1, <2>2, AfterTypes
<1>20. CASE FlushEnds
  <2>1. app.call.op \in Processing /\ Flushing /\ app.call.n # 0 /\ app.call # NoCall
        /\ app.call.tag \notin Tags /\ app.call.n <= app.calls
        BY <1>13, <1>20 DEF FlushEnds, CallAndDispatch, CallShape, Processing
  <2>2. CASE app.lost
    <3>1. /\ app'.call = NoCall /\ app'.dispatcher = app.dispatcher /\ app'.calls = app.calls
          /\ events'.depth = events.depth - 1 /\ events'.phase = events.phase
          /\ events'.callback = events.callback
          BY <1>20, <2>2 DEF FlushEnds, AppType, EventsType
    <3>2. ~Flushing'
          BY <1>13, <3>1 DEF Flushing
    <3> QED BY <1>1, <1>13, <2>1, <3>1, <3>2 DEF CallAndDispatch, Dispatching
  <2>3. CASE ~app.lost /\ app.call.acquired
    <3> DEFINE queued == Len(events.ready)
    <3>1. /\ app' = [app EXCEPT !.call = NoCall, !.dispatcher = app.call]
          /\ events' = [events EXCEPT !.todo = queued, !.phase = "connection"]
          BY <1>20, <2>3 DEF FlushEnds
    <3> HIDE DEF queued
    <3>2. /\ app'.call = NoCall /\ app'.dispatcher = app.call /\ app'.calls = app.calls
          /\ events'.depth = events.depth /\ events'.phase = "connection"
          /\ events'.callback = events.callback
          BY <3>1 DEF AppType, EventsType
    <3>3. ~Flushing' /\ ~Dispatching /\ Dispatching' /\ app.call.stage \in {"flush", "round"}
          BY <1>13, <2>1, <2>3, <3>2 DEF Flushing, CallAndDispatch, Dispatching
    <3> QED BY <1>1, <1>13, <2>1, <2>3, <3>2, <3>3 DEF CallAndDispatch
  <2>4. CASE ~app.lost /\ ~app.call.acquired
    <3>1. /\ app'.call = After(app.call) /\ app'.dispatcher = app.dispatcher
          /\ app'.calls = app.calls
          /\ events'.depth = events.depth - 1 /\ events'.phase = events.phase
          /\ events'.callback = events.callback
          BY <1>20, <2>4 DEF FlushEnds, AppType, EventsType
    <3>2. CASE After(app.call) = NoCall
          BY <1>1, <1>13, <2>1, <3>1, <3>2 DEF Flushing, CallAndDispatch, Dispatching
    <3>3. CASE /\ After(app.call).op = app.call.op /\ After(app.call).n = app.call.n
               /\ After(app.call).tag = app.call.tag
               /\ After(app.call).stage = "loop" /\ ~After(app.call).acquired
          BY <1>13, <2>1, <3>1, <3>3 DEF Processing, CallShape, Answered, Flushing,
             CallAndDispatch, Dispatching
    <3> QED BY <1>13, <3>2, <3>3, AfterTypes
  <2> QED BY <2>2, <2>3, <2>4
<1>21. CASE DispatchReady \/ DispatchChannel \/ DispatchEvent
  <2>1. /\ app'.call = NoCall /\ app.call = NoCall /\ app'.dispatcher = app.dispatcher
        /\ app'.calls = app.calls /\ Dispatching
        /\ events'.depth = events.depth
        BY <1>21 DEF DispatchReady, DispatchChannel, DispatchEvent, BetweenCallbacks, AppType,
           EventsType
  <2>2. /\ events'.phase # "none"
        /\ events'.callback # None => events'.phase \in {"connection", "channel"}
        BY <1>21 DEF DispatchReady, DispatchChannel, DispatchEvent, BetweenCallbacks, EventsType
  <2>3. ~Flushing' /\ ~Flushing
        BY <1>13, <2>1 DEF Flushing
  <2> QED BY <1>1, <1>13, <2>1, <2>2, <2>3 DEF CallAndDispatch, Dispatching
<1>22. CASE EndDispatch
      BY <1>1, <1>13, <1>19, <1>22 DEF EndDispatch, BetweenCallbacks, AppType, EventsType,
         CallAndDispatch, CallShape, Dispatching, Processing, Flushing
<1>23. CASE CallbackReturns
      BY <1>13, <1>23 DEF CallbackReturns, Idle, EventsType, Flushing, CallAndDispatch,
         Dispatching
<1>24. CASE CallbackRaises
      BY <1>1, <1>13, <1>24 DEF CallbackRaises, Idle, EventsType, AppType, Flushing,
         Dispatching, CallAndDispatch
<1> QED BY <1>5, <1>7, <1>8, <1>9, <1>10, <1>11, <1>12, <1>15, <1>16, <1>17, <1>18, <1>20,
   <1>21, <1>22, <1>23, <1>24 DEF Next, Library

-----------------------------------------------------------------------------
(* The closing of the channel.                                             *)

\* A step that adds nothing after the end of the channel keeps it the end.
LEMMA EndKept ==
    ASSUME WireType, AtTheEnd, Within(wire'.in, wire.in, InFrames),
           app'.lost = app.lost, channel'.state = channel.state,
           broker'.open => broker.open,
           channel.state # "open" => wire'.in = wire.in /\ channel'.tags = channel.tags,
           app.lost => wire'.out = wire.out
    PROVE  AtTheEnd'
      BY DEF Closes, Within, AtTheEnd

\* What no step of the library turns back.
LEMMA ChannelEnds ==
    ASSUME CallsInv, Next, CallTypes'
    PROVE  AtTheEnd'
<1> USE DEF CallsInv, CallTypes
<1>1. wire.in \in Seq(InFrames) /\ wire.out \in Seq(OutFrames)
      BY DEF WireType
<1>2. Within(wire.in, wire.in, InFrames)
      BY <1>1, WithinBasics
<1>3. ASSUME wire' = wire, channel' = channel, app'.lost = app.lost, broker' = broker
      PROVE  AtTheEnd'
      BY <1>2, <1>3, EndKept
<1>4. ASSUME CanCall, wire'.in = wire.in, app'.lost = app.lost, broker' = broker,
             channel'.state = channel.state
      PROVE  AtTheEnd'
      BY <1>2, <1>4, EndKept DEF CanCall
<1>5. CASE Application
  <2>1. CanCall /\ wire'.in = wire.in /\ app'.lost = app.lost /\ broker' = broker
        /\ channel'.state = channel.state
    <3>1. ASSUME NEW c, NEW type, NEW id, Start(c, type, id)
          PROVE  CanCall /\ wire'.in = wire.in /\ app'.lost = app.lost
          BY <3>1 DEF Start, WireType, AppType
    <3>2. CASE \/ ExchangeMethod \/ QueueMethod \/ TxMethod \/ QosOrRecover \/ Flow
               \/ ConfirmDelivery \/ BasicPublish \/ \E id \in Deliveries : Settle(id)
          BY <3>1, <3>2 DEF ExchangeMethod, QueueMethod, TxMethod, QosOrRecover, Flow,
             Synchronous, ConfirmDelivery, BasicPublish, Settle
    <3>3. CASE BasicGet
          BY <3>1, <3>3 DEF BasicGet, ChannelType
    <3>4. ASSUME NEW t, NEW a, ConsumeImpl(t, a)
          PROVE  CanCall /\ wire'.in = wire.in /\ app'.lost = app.lost /\ broker' = broker
                 /\ channel'.state = channel.state
          BY <3>1, <3>4 DEF ConsumeImpl, ChannelType
    <3>5. ASSUME NEW t, NEW n, CancelImpl(t, n)
          PROVE  CanCall /\ wire'.in = wire.in /\ app'.lost = app.lost /\ broker' = broker
                 /\ channel'.state = channel.state
          BY <3>5 DEF CancelImpl, ChannelType, WireType, AppType
    <3>6. CASE \/ CancelGenerator
               \/ \E t \in Tags : \/ BasicCancel(t)
                                  \/ \E a \in BOOLEAN : BasicConsume(t, a) \/ NewGenerator(t, a)
          BY <3>4, <3>5, <3>6 DEF CancelGenerator, BasicCancel, BasicConsume, NewGenerator
    <3>7. CASE \/ \E op \in Processing, limited \in BOOLEAN : StartProcessing(op, limited)
               \/ \E t \in Timers : CallLater(t) \/ RemoveTimeout(t)
          BY <3>7 DEF StartProcessing, CallLater, RemoveTimeout, AppType
    <3> QED BY <1>5, <3>2, <3>3, <3>6, <3>7 DEF Application, Processing
  <2> QED BY <1>4, <2>1
<1>6. ASSUME NEW stage \in {"flush", "round"}, app' = [app EXCEPT !.call.stage = stage]
      PROVE  app'.lost = app.lost
      BY <1>6, StageTypes
<1>7. CASE EndRound \/ LimitExpires \/ \E t \in Timers : TimerReady(t)
      BY <1>3, <1>6, <1>7 DEF EndRound, LimitExpires, TimerReady, InTurn
<1>8. CASE WriteIgnored
      BY <1>2, <1>6, <1>8, EndKept DEF WriteIgnored, InTurn, WireType, AtTheEnd
<1>9. CASE Write
  <2> DEFINE f == Head(wire.out)
  <2>1. /\ wire.out # <<>> /\ f \in OutFrames /\ broker.open /\ broker'.open = broker.open
        /\ app' = [app EXCEPT !.call.stage = "round"] /\ channel' = channel
        /\ \E frames \in Answers(f) : frames \in Seq(InFrames) /\ wire'.in = wire.in \o frames
        BY <1>9, WriteTypes
  <2>2. PICK frames \in Answers(f) : frames \in Seq(InFrames) /\ wire'.in = wire.in \o frames
        BY <2>1
  <2>3. ~app.lost /\ app'.lost = app.lost /\ channel.state = "open"
        BY <1>6, <2>1 DEF AtTheEnd
  <2>4. Free(frames, Closes)
        BY <2>1, AnswerShape DEF Free, Closes
  <2>5. Free(wire'.in, Closes)
        BY <1>1, <2>1, <2>2, <2>4, JoinFree DEF AtTheEnd
  <2>6. NoneAfter(wire'.in, Closes, InFrames)
        BY <2>5 DEF NoneAfter, Free
  <2> QED BY <2>1, <2>3, <2>5, <2>6 DEF AtTheEnd
<1>10. ASSUME NEW type, Receive(type), wire'.in = Tail(wire.in), channel'.state = channel.state
       PROVE  AtTheEnd'
      BY <1>1, <1>6, <1>10, ReceiveTypes, WithinBasics, EndKept DEF AtTheEnd
<1>11. CASE OnChannelClose
  <2>1. /\ Receive("close") /\ wire' = Rest /\ channel'.state = "closedByBroker"
        /\ channel'.tags = [t \in Tags |-> "none"]
        BY <1>11 DEF OnChannelClose, ChannelType
  <2>2. /\ wire.in # <<>> /\ Got \in InFrames /\ Got.type = "close" /\ Got = Head(wire.in)
        /\ Rest.in = Tail(wire.in) /\ Rest.out = wire.out /\ Tail(wire.in) \in Seq(InFrames)
        /\ app' = [app EXCEPT !.call.stage = "round"] /\ broker' = broker
        BY <2>1, ReceiveTypes
  <2>3. Head(wire.in) \in Closes
        BY <2>2 DEF Closes
  <2>4. Free(Tail(wire.in), InFrames) /\ ~Free(wire.in, Closes)
        BY <1>1, <2>2, <2>3, HeadFrame DEF AtTheEnd
  <2>5. Tail(wire.in) = <<>>
        BY <2>2, <2>4 DEF Free
  <2>6. ~broker.open /\ ~app.lost
        BY <2>2, <2>4 DEF AtTheEnd
  <2>7. Free(<<>>, Closes) /\ NoneAfter(<<>>, Closes, InFrames)
        BY DEF Free, NoneAfter
  <2> QED BY <1>6, <2>1, <2>2, <2>5, <2>6, <2>7 DEF AtTheEnd
<1>12. CASE Frames
      BY <1>10, <1>11, <1>12, ReceiveTypes DEF OnReply, OnGetOk, OnGetEmpty, OnCancelOk,
         OnReturn, OnCancel, OnBlocked, ChannelType, OnDeliver, Frames
<1>13. CASE OnConnectionClosed
      BY <1>13 DEF OnConnectionClosed, ChannelType, AppType, InTurn, Free, NoneAfter, AtTheEnd
<1>14. CASE Library \/ CallbackReturns \/ CallbackRaises
  <2>1. CASE EndRound
        BY <1>7, <2>1
  <2> QED BY <1>3, <1>14, <2>1 DEF Library, CallReturns, CallRaises, EnterProcessing, LoopEnds,
     FlushEnds, DispatchReady, DispatchChannel, DispatchEvent, EndDispatch, CallbackReturns,
     CallbackRaises, AppType
<1>15. CASE \/ BrokerCloses \/ BrokerBlocks
            \/ \E t \in Tags : BrokerDelivers(t) \/ BrokerCancels(t)
  <2>1. /\ channel' = channel /\ app' = app /\ wire'.out = wire.out
        /\ channel.state = "open" /\ broker.open
        BY <1>15, BrokerFrames
  <2>2. PICK x \in InFrames : wire'.in = Append(wire.in, x) /\ (x.type = "close" => ~broker'.open)
        BY <1>15, BrokerFrames
  <2>3. Free(wire.in, Closes) /\ ~app.lost
        BY <2>1 DEF AtTheEnd
  <2>4. /\ Free(Append(wire.in, x), Closes) <=> Free(wire.in, Closes) /\ x \notin Closes
        /\ NoneAfter(Append(wire.in, x), Closes, InFrames) <=>
               NoneAfter(wire.in, Closes, InFrames) /\ (Free(wire.in, Closes) \/ x \notin InFrames)
        BY <1>1, AppendFrame
  <2>5. x \in Closes => x.type = "close"
        BY DEF Closes
  <2> QED BY <2>1, <2>2, <2>3, <2>4, <2>5 DEF AtTheEnd
<1> QED BY <1>5, <1>7, <1>8, <1>9, <1>12, <1>13, <1>14, <1>15 DEF Next

-----------------------------------------------------------------------------
(* What the steps change.                                                  *)

Rounds ==
    \/ EndRound \/ Write \/ WriteIgnored \/ Frames \/ LimitExpires \/ OnConnectionClosed
    \/ \E t \in Timers : TimerReady(t)
Broker ==
    \/ BrokerCloses \/ BrokerBlocks
    \/ \E t \in Tags : BrokerDelivers(t) \/ BrokerCancels(t)
Dispatches ==
    \/ EnterProcessing \/ LoopEnds \/ FlushEnds \/ DispatchReady \/ DispatchChannel
    \/ DispatchEvent \/ EndDispatch \/ CallbackReturns \/ CallbackRaises
AppTimers == \E t \in Timers : CallLater(t) \/ RemoveTimeout(t)
AppCalls ==
    \/ ExchangeMethod \/ QueueMethod \/ TxMethod \/ QosOrRecover \/ Flow
    \/ ConfirmDelivery \/ BasicGet \/ BasicPublish \/ CancelGenerator
    \/ \E id \in Deliveries : Settle(id)
    \/ \E t \in Tags : \/ BasicCancel(t)
                       \/ \E a \in BOOLEAN : BasicConsume(t, a) \/ NewGenerator(t, a)
    \/ StartProcessing("consuming", FALSE)
    \/ \E op \in {"process", "next"}, limited \in BOOLEAN : StartProcessing(op, limited)

\* The steps by who takes them.
LEMMA StepKinds ==
    ASSUME Next
    PROVE  \/ AppCalls \/ AppTimers \/ Rounds \/ Broker \/ Dispatches
           \/ CallReturns \/ CallRaises
      BY DEF Application, AppCalls, AppTimers, Library, Rounds, Dispatches, Next, Broker

\* In a round the call stays the same.
LEMMA RoundKeeps ==
    ASSUME CallTypes, Rounds
    PROVE  /\ app'.call.op = app.call.op /\ app'.call.n = app.call.n
           /\ app'.call.tag = app.call.tag /\ app'.dispatcher = app.dispatcher
           /\ app'.calls = app.calls /\ app'.given = app.given /\ app'.removed = app.removed
           /\ app'.raised = app.raised
           /\ app.call.op # "none"
<1> USE DEF CallTypes
<1>1. ASSUME NEW stage \in {"flush", "round"}, app' = [app EXCEPT !.call.stage = stage]
      PROVE  /\ app'.call.op = app.call.op /\ app'.call.n = app.call.n
             /\ app'.call.tag = app.call.tag /\ app'.dispatcher = app.dispatcher
             /\ app'.calls = app.calls /\ app'.given = app.given /\ app'.removed = app.removed
             /\ app'.raised = app.raised
      BY <1>1, StageTypes
<1>2. CASE EndRound
      BY <1>1, <1>2 DEF EndRound, InRound, Flushing
<1>3. CASE Write \/ WriteIgnored \/ LimitExpires \/ \E t \in Timers : TimerReady(t)
      BY <1>1, <1>3 DEF Write, WriteIgnored, LimitExpires, TimerReady, InTurn, Turn, Flushing
<1>4. CASE Frames
      BY <1>1, <1>4 DEF Frames, OnReply, OnGetOk, OnGetEmpty, OnCancelOk, OnReturn, OnDeliver,
         OnCancel, OnChannelClose, OnBlocked, Receive, InTurn, Turn, Flushing
<1>5. CASE OnConnectionClosed
      BY <1>5 DEF OnConnectionClosed, Turn, Flushing, InTurn, AppType, Calls
<1> QED BY <1>2, <1>3, <1>4, <1>5 DEF Rounds

\* The processing of events neither sends nor hears, and keeps all results.
LEMMA DispatchKeeps ==
    ASSUME CallTypes, CallAndDispatch, Dispatches
    PROVE  /\ channel' = channel /\ wire' = wire /\ broker' = broker
           /\ app.call.op \in Processing \cup {"none"}
           /\ app'.call.op \in Processing \cup {"none"}
           /\ blocking'.ready = blocking.ready /\ blocking'.got = blocking.got
           /\ blocking'.confirming = blocking.confirming
           /\ blocking'.returned = blocking.returned /\ blocking'.ackless = blocking.ackless
           /\ blocking'.used = blocking.used
           /\ app'.removed = app.removed /\ app'.lost = app.lost
           /\ \A t \in Tags : blocking'.infos[t] \in {"none", blocking.infos[t]}
<1> USE DEF CallTypes
<1>1. channel' = channel /\ wire' = wire /\ broker' = broker
      BY DEF Dispatches, EnterProcessing, LoopEnds, FlushEnds, DispatchReady, DispatchChannel,
         DispatchEvent, EndDispatch, CallbackReturns, CallbackRaises
<1>2. NoCall.op = "none"
      BY DEF NoCall
<1>3. ASSUME NEW c \in Calls, c.op \in Processing
      PROVE  After(c).op \in Processing \cup {"none"}
      BY <1>2, <1>3, AfterTypes
<1>4. /\ app.call.op \in Processing \cup {"none"}
      /\ app'.call.op \in Processing \cup {"none"}
  <2>1. CASE EnterProcessing
        BY <2>1 DEF EnterProcessing, Resumes, AppType, Calls
  <2>2. CASE LoopEnds
        BY <1>2, <2>2 DEF LoopEnds, Resumes, AppType
  <2>3. CASE FlushEnds
        BY <1>2, <1>3, <2>3 DEF FlushEnds, AppType
  <2>4. CASE DispatchReady \/ DispatchChannel \/ DispatchEvent
        BY <1>2, <2>4 DEF DispatchReady, DispatchChannel, DispatchEvent, BetweenCallbacks,
           AppType
  <2>5. CASE EndDispatch
        BY <1>2, <1>3, <2>5 DEF EndDispatch, BetweenCallbacks, AppType, CallAndDispatch,
           CallShape, Dispatching
  <2>6. CASE CallbackReturns \/ CallbackRaises
        BY <1>2, <2>6 DEF CallbackReturns, CallbackRaises, Idle, AppType
  <2> QED BY <2>1, <2>2, <2>3, <2>4, <2>5, <2>6 DEF Dispatches
<1>5. /\ blocking'.ready = blocking.ready /\ blocking'.got = blocking.got
      /\ blocking'.confirming = blocking.confirming
      /\ blocking'.returned = blocking.returned /\ blocking'.ackless = blocking.ackless
      /\ blocking'.used = blocking.used
  <2>1. \/ blocking' = blocking
        \/ \E w, v : blocking' = [blocking EXCEPT !.genEvents = w, !.generator = v]
        \/ \E w, v : blocking' = [blocking EXCEPT !.pending = w, !.infos = v]
    <3>1. CASE LoopEnds
          BY <3>1 DEF LoopEnds
    <3>2. CASE DispatchEvent
          BY <3>2 DEF DispatchEvent
    <3> QED BY <3>1, <3>2 DEF Dispatches, EnterProcessing, FlushEnds, DispatchReady,
       DispatchChannel, EndDispatch, CallbackReturns, CallbackRaises
  <2> QED BY <2>1 DEF BlockingType
<1>6. app'.removed = app.removed /\ app'.lost = app.lost
      BY DEF Dispatches, EnterProcessing, LoopEnds, FlushEnds, DispatchReady, DispatchChannel,
         DispatchEvent, EndDispatch, CallbackReturns, CallbackRaises, AppType
<1>7. \A t \in Tags : blocking'.infos[t] \in {"none", blocking.infos[t]}
  <2>1. CASE DispatchEvent
        BY <2>1 DEF DispatchEvent, BlockingType
  <2>2. CASE LoopEnds
        BY <2>2 DEF LoopEnds, BlockingType
  <2> QED BY <2>1, <2>2 DEF Dispatches, EnterProcessing, FlushEnds, DispatchReady,
     DispatchChannel, EndDispatch, CallbackReturns, CallbackRaises
<1> QED BY <1>1, <1>4, <1>5, <1>6, <1>7

\* What is left of a call.
LEMMA EndedFields ==
    ASSUME BlockingType, app.call \in Calls, CallShape(app.call), app.call.op \in Answered,
           NEW raised \in BOOLEAN, NEW b, b = Ended(app.call, raised)
    PROVE  /\ b.ready = [k \in Kinds |->
                             IF k \in KindsOf(app.call.op) THEN 0 ELSE blocking.ready[k]]
           /\ b.infos = [t \in Tags |->
                  IF app.call.op = "consume" /\ t = app.call.tag
                  THEN IF raised THEN "none"
                       ELSE IF blocking.infos[t] = "setting" THEN "active" ELSE blocking.infos[t]
                  ELSE IF app.call.op = "cancel" /\ t = app.call.tag THEN "none"
                  ELSE blocking.infos[t]]
           /\ b.pending = IF app.call.op = "cancel" /\ ~raised THEN Without(app.call.tag)
                          ELSE blocking.pending
           /\ b.generator = IF /\ blocking.generator = app.call.tag
                               /\ app.call.op = "cancel" \/ (app.call.op = "consume" /\ raised)
                            THEN None ELSE blocking.generator
           /\ b.genEvents = blocking.genEvents /\ b.ackless = blocking.ackless
           /\ b.used = blocking.used
           /\ b.got = (IF app.call.op = "get" THEN 0 ELSE blocking.got)
           /\ b.confirming = (blocking.confirming \/ (app.call.op = "select" /\ ~raised))
           /\ b.returned = (IF app.call.op = "publish" /\ ~raised /\ blocking.confirming THEN 0
                            ELSE blocking.returned)
<1> DEFINE c == app.call
<1>1. CASE c.op \in {"rpc", "select"}
      BY <1>1 DEF Ended, KindsOf, BlockingType, Kinds
<1>2. CASE c.op = "get"
      BY <1>2 DEF Ended, KindsOf, BlockingType, Kinds
<1>3. CASE c.op = "publish"
      BY <1>3 DEF Ended, KindsOf, BlockingType, Kinds
<1>4. CASE c.op = "consume"
      BY <1>4 DEF Ended, CallShape, KindsOf, BlockingType, Kinds
<1>5. CASE c.op = "cancel"
      BY <1>5 DEF Ended, CallShape, KindsOf, BlockingType, Kinds
<1>6. CASE c.op = "send"
      BY <1>6 DEF Ended, BlockingType, KindsOf, Kinds
<1> QED BY <1>1, <1>2, <1>3, <1>4, <1>5, <1>6 DEF Answered

\* The calls by what they do.
Plain(op) ==
    /\ Start(Call(op, None), op, 0) /\ blocking' = blocking /\ events' = events /\ broker' = broker
    /\ channel'.state = channel.state /\ channel'.tags = channel.tags
    /\ channel'.ackless = channel.ackless /\ channel'.getting = (channel.getting \/ op = "get")
    /\ op = "get" => ~channel.getting /\ blocking.ready["getEmpty"] = 0
Consumes(tag, ackless) ==
    /\ ConsumeImpl(tag, ackless)
    /\ \/ tag \in CallbackTags /\ blocking' = SetUp(tag, ackless)
       \/ NewGenerator(tag, ackless)
Cancels(tag, n) ==
    /\ CancelImpl(tag, n)
    /\ \/ tag # blocking.generator /\ n = 0
       \/ tag = blocking.generator /\ n = WaitingCount
    /\ \A i \in DOMAIN SubSeq(blocking.genEvents, 1, n) :
           SubSeq(blocking.genEvents, 1, n)[i].id \in Deliveries

\* Every call is one of these.
LEMMA AppKinds ==
    ASSUME CallsInv, AppCalls
    PROVE  /\ CanCall /\ app.call = NoCall /\ app.call.op = "none" /\ channel.state = "open"
           /\ ~app.lost
           /\ \/ \E op \in {"rpc", "select", "get", "publish"} : Plain(op)
              \/ \E id \in Deliveries : Settle(id)
              \/ \E tag \in Tags, ackless \in BOOLEAN : Consumes(tag, ackless)
              \/ \E tag \in Tags, n \in 0..Len(blocking.genEvents) : Cancels(tag, n)
              \/ \E op \in Processing, limited \in BOOLEAN : StartProcessing(op, limited)
<1> USE DEF CallsInv, CallTypes
<1>1. CanCall => app.call = NoCall /\ app.call.op = "none" /\ channel.state = "open" /\ ~app.lost
      BY DEF CanCall, Idle, NoCall
<1>2. CASE ExchangeMethod \/ QueueMethod \/ TxMethod \/ QosOrRecover \/ Flow
      BY <1>2 DEF ExchangeMethod, QueueMethod, TxMethod, QosOrRecover, Flow, Synchronous, Plain,
         ChannelType, Start, CanCall, Idle, NoCall
<1>3. CASE ConfirmDelivery \/ BasicPublish
      BY <1>3 DEF ConfirmDelivery, BasicPublish, Plain, ChannelType, Start, CanCall, Idle,
         NoCall
<1>4. CASE BasicGet
  <2>1. Plain("get")
        BY <1>4 DEF BasicGet, Plain, ChannelType
  <2> QED BY <2>1 DEF Plain, Start, CanCall, Idle, NoCall
<1>5. CASE \E id \in Deliveries : Settle(id)
      BY <1>5, <1>1 DEF Settle, Start
<1>6. ASSUME NEW t \in Tags, NEW a \in BOOLEAN, BasicConsume(t, a) \/ NewGenerator(t, a)
      PROVE  Consumes(t, a) /\ CanCall
      BY <1>6 DEF BasicConsume, NewGenerator, Consumes, ConsumeImpl, Start
<1>7. ASSUME NEW t \in Tags, BasicCancel(t)
      PROVE  0 \in 0..Len(blocking.genEvents) /\ Cancels(t, 0) /\ CanCall
      BY <1>7, LenProperties, SubSeqEmpty DEF BlockingType, BasicCancel, Cancels, CancelImpl
<1>8. CASE CancelGenerator
  <2>1. blocking.generator # None /\ CancelImpl(blocking.generator, WaitingCount)
        /\ channel.state = "open" /\ CanCall
        BY <1>8 DEF CancelGenerator, CancelImpl, CanCall
  <2>2. blocking.generator \in Tags
        BY <2>1 DEF BlockingType, Tags
  <2>3. /\ WaitingCount \in 0..Len(blocking.genEvents)
        /\ \A i \in DOMAIN SubSeq(blocking.genEvents, 1, WaitingCount) :
              SubSeq(blocking.genEvents, 1, WaitingCount)[i].id \in Deliveries
        BY <2>1, WaitingDeliveries
  <2>4. Cancels(blocking.generator, WaitingCount)
        BY <2>1, <2>3 DEF Cancels
  <2> QED BY <2>1, <2>2, <2>3, <2>4 DEF CanCall, Idle, NoCall
<1>9. CASE \E op \in Processing, limited \in BOOLEAN : StartProcessing(op, limited)
      BY <1>9, <1>1 DEF StartProcessing
<1> QED BY <1>2, <1>3, <1>4, <1>5, <1>6, <1>7, <1>8, <1>9, <1>1 DEF AppCalls, Processing

\* A consumer that is set up.
LEMMA ConsumeFields ==
    ASSUME CallsInv, NEW tag \in Tags, NEW ackless \in BOOLEAN, Consumes(tag, ackless)
    PROVE  /\ blocking.infos[tag] = "none" /\ channel.tags[tag] = "none" /\ CanCall
           /\ app'.call = Call("consume", tag) /\ app'.call.op = "consume"
           /\ app'.call.tag = tag /\ app'.call.n = Number
           /\ Frame("consume", Number, tag, 0) \in OutFrames
           /\ wire'.out = Append(wire.out, Frame("consume", Number, tag, 0)) /\ wire'.in = wire.in
           /\ channel'.state = channel.state /\ channel'.getting = channel.getting
           /\ channel'.tags = [channel.tags EXCEPT ![tag] = "consuming"]
           /\ tag \in channel'.ackless <=> tag \in blocking'.ackless
           /\ \A x \in Tags \ {tag} : /\ x \in channel'.ackless <=> x \in channel.ackless
                                      /\ x \in blocking'.ackless <=> x \in blocking.ackless
           /\ events' = events /\ broker' = broker
           /\ blocking'.infos = [blocking.infos EXCEPT ![tag] = "setting"]
           /\ blocking'.ready = blocking.ready /\ blocking'.got = blocking.got
           /\ blocking'.pending = blocking.pending
           /\ blocking'.confirming = blocking.confirming
           /\ blocking'.returned = blocking.returned
           /\ app'.given = app.given \ {0} /\ app'.removed = app.removed
           /\ app'.raised = app.raised
           /\ \/ /\ tag \in CallbackTags /\ blocking'.generator = blocking.generator
                 /\ blocking'.genEvents = blocking.genEvents
              \/ /\ tag \in GeneratorTags /\ blocking.generator = None
                 /\ blocking'.generator = tag /\ blocking'.genEvents = <<>>
<1> USE DEF CallsInv, CallTypes
<1>1. /\ ConsumeImpl(tag, ackless) /\ CanCall /\ Call("consume", tag).tag = tag
      /\ Call("consume", tag) \in Calls /\ Start(Call("consume", tag), "consume", 0)
      BY ConsumeTypes DEF Consumes
<1>2. /\ Call("consume", tag).op = "consume" /\ Call("consume", tag).n = Number
      BY <1>1, NewCall DEF Answered
<1>3. /\ Frame("consume", Number, tag, 0) \in OutFrames
      /\ wire'.out = Append(wire.out, Frame("consume", Number, tag, 0)) /\ wire'.in = wire.in
      BY <1>1, CallBoundsAssumption, StartTypes DEF Requests
<1>4. /\ app'.call = Call("consume", tag) /\ app'.given = app.given \ {0}
      /\ app'.removed = app.removed /\ app'.raised = app.raised
      BY <1>1 DEF Start, AppType
<1>5. /\ blocking.infos[tag] = "none" /\ channel.tags[tag] = "none"
      /\ channel'.state = channel.state /\ channel'.getting = channel.getting
      /\ channel'.tags = [channel.tags EXCEPT ![tag] = "consuming"]
      /\ channel'.ackless = (IF ackless THEN channel.ackless \cup {tag}
                             ELSE channel.ackless \ {tag})
      /\ events' = events /\ broker' = broker
      BY <1>1 DEF ConsumeImpl, ChannelType
<1> DEFINE b == SetUp(tag, ackless)
<1>6. /\ b.infos = [blocking.infos EXCEPT ![tag] = "setting"]
      /\ b.ackless = (IF ackless THEN blocking.ackless \cup {tag} ELSE blocking.ackless \ {tag})
      /\ b.ready = blocking.ready /\ b.got = blocking.got /\ b.pending = blocking.pending
      /\ b.confirming = blocking.confirming /\ b.returned = blocking.returned
      /\ b.generator = blocking.generator /\ b.genEvents = blocking.genEvents
      BY DEF SetUp, BlockingType
<1>7. b \in [infos : [Tags -> Infos], generator : GeneratorTags \cup {None},
             genEvents : Seq(GeneratorEvents), pending : Seq(ChannelEvents),
             confirming : BOOLEAN, returned : 0..MaxCalls, onReturn : BOOLEAN,
             ready : [Kinds -> 0..MaxCalls], got : 0..MaxDeliveries,
             ackless : SUBSET Tags, used : SUBSET GeneratorTags]
      BY <1>1, ConsumeTypes
<1>8. \/ tag \in CallbackTags /\ blocking' = b
      \/ /\ tag \in GeneratorTags /\ blocking.generator = None
         /\ blocking' = [b EXCEPT !.generator = tag, !.genEvents = <<>>, !.used = @ \cup {tag}]
      BY DEF Consumes, NewGenerator
<1> HIDE DEF b
<1>9. /\ tag \in channel'.ackless <=> tag \in b.ackless
      /\ \A x \in Tags \ {tag} : /\ x \in channel'.ackless <=> x \in channel.ackless
                                 /\ x \in b.ackless <=> x \in blocking.ackless
      BY <1>5, <1>6
<1>10. CASE tag \in CallbackTags /\ blocking' = b
      BY <1>1, <1>2, <1>3, <1>4, <1>5, <1>6, <1>9, <1>10
<1>11. CASE /\ tag \in GeneratorTags /\ blocking.generator = None
            /\ blocking' = [b EXCEPT !.generator = tag, !.genEvents = <<>>, !.used = @ \cup {tag}]
      BY <1>1, <1>2, <1>3, <1>4, <1>5, <1>6, <1>7, <1>9, <1>11
<1> QED BY <1>8, <1>10, <1>11

\* A consumer that is torn down: what is rejected, and the request.
Rejected(tag, n) ==
    IF tag \notin blocking.ackless THEN Rejects(SubSeq(blocking.genEvents, 1, n) \o Of(tag))
    ELSE <<>>
CancelFrames(tag) ==
    IF channel.tags[tag] = "consuming" THEN <<Frame("cancel", Number, tag, 0)>> ELSE <<>>

\* What cancelling a consumer changes.
LEMMA CancelFields ==
    ASSUME CallsInv, NEW tag \in Tags, NEW n \in 0..Len(blocking.genEvents), Cancels(tag, n)
    PROVE  /\ CanCall /\ blocking.infos[tag] \in {"active", "cancelled"}
           /\ app'.call = Call("cancel", tag) /\ app'.call.op = "cancel"
           /\ app'.call.tag = tag /\ app'.call.n = Number
           /\ Frame("cancel", Number, tag, 0) \in OutFrames
           /\ Rejected(tag, n) \in Seq(OutFrames) /\ CancelFrames(tag) \in Seq(OutFrames)
           /\ Free(Rejected(tag, n), Asking) /\ wire'.in = wire.in
           /\ wire'.out = wire.out \o Rejected(tag, n) \o CancelFrames(tag)
           /\ channel'.state = channel.state /\ channel'.getting = channel.getting
           /\ channel'.ackless = channel.ackless
           /\ channel'.tags = (IF channel.tags[tag] = "consuming"
                               THEN [channel.tags EXCEPT ![tag] = "cancelling"] ELSE channel.tags)
           /\ events' = events /\ broker' = broker
           /\ blocking'.infos = [blocking.infos EXCEPT ![tag] = "tearing"]
           /\ blocking'.ackless = blocking.ackless
           /\ blocking'.ready = blocking.ready /\ blocking'.got = blocking.got
           /\ blocking'.pending = (IF tag \notin blocking.ackless THEN Without(tag)
                                   ELSE blocking.pending)
           /\ blocking'.genEvents = (IF tag \notin blocking.ackless
                                     THEN SubSeq(blocking.genEvents, n + 1, Len(blocking.genEvents))
                                     ELSE blocking.genEvents)
           /\ blocking'.generator = blocking.generator
           /\ blocking'.confirming = blocking.confirming
           /\ blocking'.returned = blocking.returned
           /\ app'.given = app.given /\ app'.removed = app.removed /\ app'.raised = app.raised
<1> USE DEF CallsInv, CallTypes
<1>1. /\ CancelImpl(tag, n) /\ CanCall
      /\ \A i \in DOMAIN SubSeq(blocking.genEvents, 1, n) :
            SubSeq(blocking.genEvents, 1, n)[i].id \in Deliveries
      BY DEF Cancels, CancelImpl
<1>2. Call("cancel", tag).op = "cancel" /\ Call("cancel", tag).n = Number
      /\ Call("cancel", tag).tag = tag
  <2>1. "cancel" \in Processing \cup Answered /\ tag \in Tags \cup {None}
        BY DEF Answered
  <2> QED BY <1>1, <2>1, NewCall
<1>3. app'.call = Call("cancel", tag) /\ app'.given = app.given /\ app'.removed = app.removed
      /\ app'.raised = app.raised /\ blocking.infos[tag] \in {"active", "cancelled"}
      BY <1>1 DEF CancelImpl, AppType
<1>4. /\ Rejects(SubSeq(blocking.genEvents, 1, n) \o Of(tag)) \in Seq(OutFrames)
      /\ Free(Rejects(SubSeq(blocking.genEvents, 1, n) \o Of(tag)), Asking)
      /\ Frame("cancel", Number, tag, 0) \in OutFrames
      BY <1>1, CancelTypes
<1>5. /\ Rejected(tag, n) \in Seq(OutFrames) /\ CancelFrames(tag) \in Seq(OutFrames)
      /\ Free(Rejected(tag, n), Asking)
      BY <1>4, EmptySeq, OneFrame DEF Free, Rejected, CancelFrames
<1>6. wire'.in = wire.in /\ wire'.out = wire.out \o Rejected(tag, n) \o CancelFrames(tag)
      BY <1>1 DEF CancelImpl, WireType, Rejected, CancelFrames
<1>7. /\ channel'.state = channel.state /\ channel'.getting = channel.getting
      /\ channel'.ackless = channel.ackless
      /\ channel'.tags = (IF channel.tags[tag] = "consuming"
                          THEN [channel.tags EXCEPT ![tag] = "cancelling"] ELSE channel.tags)
      /\ events' = events /\ broker' = broker
      BY <1>1 DEF CancelImpl, ChannelType
<1>8. /\ blocking'.infos = [blocking.infos EXCEPT ![tag] = "tearing"]
      /\ blocking'.ackless = blocking.ackless
      /\ blocking'.ready = blocking.ready /\ blocking'.got = blocking.got
      /\ blocking'.pending = (IF tag \notin blocking.ackless THEN Without(tag)
                              ELSE blocking.pending)
      /\ blocking'.genEvents = (IF tag \notin blocking.ackless
                                THEN SubSeq(blocking.genEvents, n + 1, Len(blocking.genEvents))
                                ELSE blocking.genEvents)
      /\ blocking'.generator = blocking.generator
      /\ blocking'.confirming = blocking.confirming
      /\ blocking'.returned = blocking.returned
      BY <1>1 DEF CancelImpl, BlockingType
<1> QED BY <1>1, <1>2, <1>3, <1>4, <1>5, <1>6, <1>7, <1>8

\* The other calls.
LEMMA PlainFields ==
    ASSUME CallsInv, AppCalls
    PROVE  /\ \A op \in {"rpc", "select", "get", "publish"} : Plain(op) =>
                 /\ app'.call.op = op /\ app'.call.n = Number /\ app'.call.tag = None
                 /\ Frame(op, Number, None, 0) \in OutFrames
                 /\ wire'.out = Append(wire.out, Frame(op, Number, None, 0))
                 /\ wire'.in = wire.in /\ app'.given = app.given \ {0}
                 /\ app'.removed = app.removed /\ app'.raised = app.raised
           /\ \A id \in Deliveries : Settle(id) =>
                 /\ app'.call.op = "send" /\ app'.call.n = Number /\ app'.call.tag = None
                 /\ Frame("settle", Number, None, id) \in OutFrames
                 /\ wire'.out = Append(wire.out, Frame("settle", Number, None, id))
                 /\ wire'.in = wire.in /\ app'.given = app.given \ {id}
                 /\ app'.removed = app.removed /\ app'.raised = app.raised
                 /\ id \in app.given /\ id \notin broker.ackless
                 /\ UNCHANGED <<channel, blocking, events, broker>>
           /\ \A op \in Processing, limited \in BOOLEAN : StartProcessing(op, limited) =>
                 /\ app'.call.op = op /\ app'.call.n = Number /\ app'.call.tag = None
                 /\ app'.given = app.given
                 /\ app'.removed = app.removed /\ app'.raised = app.raised
                 /\ UNCHANGED <<channel, blocking, events, wire, broker>>
           /\ app'.dispatcher = app.dispatcher /\ app'.calls = Number /\ Number \in 1..MaxCalls
<1> USE DEF CallsInv, CallTypes
<1>1. CanCall /\ 0 \in 0..MaxDeliveries
      BY AppKinds, CallBoundsAssumption
<1>2. \A op \in Processing \cup Answered :
          /\ Call(op, None) \in Calls /\ Call(op, None).op = op /\ Call(op, None).n = Number
          /\ Call(op, None).tag = None
      BY <1>1, NewCall
<1>3. ASSUME NEW op \in {"rpc", "select", "get", "publish"}, Plain(op)
      PROVE  /\ app'.call.op = op /\ app'.call.n = Number /\ app'.call.tag = None
             /\ Frame(op, Number, None, 0) \in OutFrames
             /\ wire'.out = Append(wire.out, Frame(op, Number, None, 0))
             /\ wire'.in = wire.in /\ app'.given = app.given \ {0}
             /\ app'.removed = app.removed /\ app'.raised = app.raised
  <2>1. Start(Call(op, None), op, 0) /\ op \in Answered /\ op \in Requests
        BY <1>3 DEF Plain, Answered, Requests
  <2>2. /\ app'.call = Call(op, None) /\ app'.given = app.given \ {0}
        /\ app'.removed = app.removed /\ app'.raised = app.raised
        BY <2>1 DEF Start, AppType
  <2>3. /\ Frame(op, Number, Call(op, None).tag, 0) \in OutFrames
        /\ wire'.out = Append(wire.out, Frame(op, Number, Call(op, None).tag, 0))
        /\ wire'.in = wire.in
        BY <1>1, <1>2, <1>3, <2>1, StartTypes
  <2> QED BY <1>2, <2>1, <2>2, <2>3
<1>4. ASSUME NEW id \in Deliveries, Settle(id)
      PROVE  /\ app'.call.op = "send" /\ app'.call.n = Number /\ app'.call.tag = None
             /\ Frame("settle", Number, None, id) \in OutFrames
             /\ wire'.out = Append(wire.out, Frame("settle", Number, None, id))
             /\ wire'.in = wire.in /\ app'.given = app.given \ {id}
             /\ app'.removed = app.removed /\ app'.raised = app.raised
             /\ id \in app.given /\ id \notin broker.ackless
             /\ UNCHANGED <<channel, blocking, events, broker>>
  <2>1. /\ Start(Call("send", None), "settle", id) /\ "send" \in Answered
        /\ id \in app.given /\ id \notin broker.ackless
        /\ UNCHANGED <<channel, blocking, events, broker>>
        BY <1>4 DEF Settle, Answered
  <2>2. /\ app'.call = Call("send", None) /\ app'.given = app.given \ {id}
        /\ app'.removed = app.removed /\ app'.raised = app.raised
        BY <2>1 DEF Start, AppType
  <2>3. id \in 0..MaxDeliveries /\ id # 0
        BY CallBoundsAssumption DEF Deliveries
  <2> DEFINE call == Call("send", None)
  <2>4. CallTypes /\ "settle" \in Requests \cup {"settle"} /\ Start(call, "settle", id)
        /\ call \in Calls
        BY <1>2, <2>1
  <2> HIDE DEF call
  <2>5. /\ Frame("settle", Number, call.tag, id) \in OutFrames
        /\ wire'.out = Append(wire.out, Frame("settle", Number, call.tag, id))
        /\ wire'.in = wire.in
        BY <2>3, <2>4, StartTypes
  <2>6. /\ Frame("settle", Number, Call("send", None).tag, id) \in OutFrames
        /\ wire'.out = Append(wire.out, Frame("settle", Number, Call("send", None).tag, id))
        /\ wire'.in = wire.in
        BY <2>5 DEF call
  <2> QED BY <1>2, <2>1, <2>2, <2>6
<1>5. ASSUME NEW op \in Processing, NEW limited \in BOOLEAN, StartProcessing(op, limited)
      PROVE  /\ app'.call.op = op /\ app'.call.n = Number /\ app'.call.tag = None
             /\ app'.given = app.given /\ app'.removed = app.removed /\ app'.raised = app.raised
             /\ UNCHANGED <<channel, blocking, events, wire, broker>>
      BY <1>2, <1>5 DEF StartProcessing, AppType, Calls
<1>6. Number \in 1..MaxCalls
      BY <1>1, NewCall DEF Answered
<1>7. app'.dispatcher = app.dispatcher /\ app'.calls = Number
  <2> DEFINE Changes ==
              \E call, given : app' = [app EXCEPT !.call = call, !.calls = @ + 1, !.given = given]
  <2>1. ASSUME NEW call, NEW type, NEW id, Start(call, type, id)
        PROVE  Changes
        BY <2>1 DEF Start
  <2>2. ASSUME NEW call, app' = [app EXCEPT !.call = call, !.calls = @ + 1]
        PROVE  Changes
    <3>1. app' = [app EXCEPT !.call = call, !.calls = @ + 1, !.given = app.given]
          BY <2>2 DEF AppType
    <3> QED BY <3>1
  <2> HIDE DEF Changes
  <2>3. ASSUME NEW tag, NEW n, CancelImpl(tag, n)
        PROVE  Changes
        BY <2>2, <2>3 DEF CancelImpl
  <2>4. ASSUME NEW op, NEW limited, StartProcessing(op, limited)
        PROVE  Changes
        BY <2>2, <2>4 DEF StartProcessing
  <2>5. Changes
        BY <2>1, <2>3, <2>4 DEF AppCalls, ExchangeMethod, QueueMethod, TxMethod, QosOrRecover,
           Flow, Synchronous, ConfirmDelivery, BasicGet, BasicPublish, CancelGenerator, Settle,
           BasicCancel, BasicConsume, NewGenerator, ConsumeImpl
  <2> QED BY <2>5 DEF Changes, AppType, Number
<1> QED BY <1>3, <1>4, <1>5, <1>6, <1>7

-----------------------------------------------------------------------------
(* What each frame changes.                                                *)

SameQueues ==
    blocking'.pending = blocking.pending /\ blocking'.genEvents = blocking.genEvents
SameConsumers ==
    /\ blocking'.infos = blocking.infos /\ blocking'.generator = blocking.generator
    /\ blocking'.ackless = blocking.ackless
SameResults ==
    /\ blocking'.ready = blocking.ready /\ blocking'.got = blocking.got
    /\ blocking'.confirming = blocking.confirming
SameEvents ==
    /\ events'.ready = events.ready /\ events'.scheduled = events.scheduled
    /\ events'.phase = events.phase /\ events'.callback = events.callback
Added(tag, e) ==
    IF tag \in GeneratorTags
    THEN /\ blocking'.genEvents = Append(blocking.genEvents, e) /\ e \in GeneratorEvents
         /\ blocking'.pending = blocking.pending
         /\ events'.requested = events.requested \cup {"wakeup"}
    ELSE /\ blocking'.pending = Append(blocking.pending, e) /\ e \in ChannelEvents
         /\ blocking'.genEvents = blocking.genEvents
         /\ events'.requested = events.requested \cup {"channel"}

GotReply(x) ==
    /\ x.type \in Kinds /\ wire'.out = wire.out /\ events' = events
    /\ SameQueues /\ SameConsumers
    /\ blocking'.ready = [blocking.ready EXCEPT ![x.type] = x.n]
    /\ blocking'.got = (IF x.type = "getOk" THEN x.id ELSE blocking.got)
    /\ blocking'.confirming = blocking.confirming /\ blocking'.returned = blocking.returned
    /\ channel'.state = channel.state
    /\ channel'.getting = (channel.getting /\ x.type \notin {"getOk", "getEmpty"})
    /\ IF x.type = "cancelOk"
       THEN /\ x.tag \in Tags /\ channel'.tags = [channel.tags EXCEPT ![x.tag] = "none"]
            /\ channel'.ackless = channel.ackless \ {x.tag}
       ELSE channel'.tags = channel.tags /\ channel'.ackless = channel.ackless
GotReturn(x) ==
    /\ x.type = "return" /\ wire'.out = wire.out /\ channel' = channel
    /\ SameConsumers /\ SameResults /\ SameEvents
    /\ blocking'.returned = (IF blocking.confirming THEN x.n ELSE blocking.returned)
    /\ \/ SameQueues /\ events'.requested = events.requested
       \/ Added(None, Event("returned", None, 0))
GotDelivery(x) ==
    /\ x.type = "deliver" /\ x.tag \in Tags /\ x.id \in Deliveries /\ channel' = channel
    /\ SameConsumers /\ SameResults /\ SameEvents /\ blocking'.returned = blocking.returned
    /\ \/ /\ channel.tags[x.tag] = "cancelling" /\ SameQueues
          /\ events'.requested = events.requested
          /\ Frame("settle", 0, None, x.id) \in OutFrames
          /\ wire'.out = (IF x.tag \in channel.ackless THEN wire.out
                          ELSE Append(wire.out, Frame("settle", 0, None, x.id)))
       \/ /\ channel.tags[x.tag] = "none" /\ SameQueues /\ wire'.out = wire.out
          /\ events'.requested = events.requested
       \/ /\ channel.tags[x.tag] = "consuming" /\ wire'.out = wire.out
          /\ Added(x.tag, Event("delivery", x.tag, x.id))
GotCancel(x) ==
    /\ x.type = "brokerCancel" /\ x.tag \in Tags /\ wire'.out = wire.out
    /\ SameResults /\ SameEvents /\ blocking'.returned = blocking.returned
    /\ blocking'.generator = blocking.generator /\ blocking'.ackless = blocking.ackless
    /\ channel'.state = channel.state /\ channel'.getting = channel.getting
    /\ IF channel.tags[x.tag] = "cancelling"
       THEN channel'.tags = channel.tags /\ channel'.ackless = channel.ackless
       ELSE /\ channel'.tags = [channel.tags EXCEPT ![x.tag] = "none"]
            /\ channel'.ackless = channel.ackless \ {x.tag}
    /\ blocking'.infos = [blocking.infos EXCEPT ![x.tag] = IF @ = "tearing" THEN @ ELSE "cancelled"]
    /\ Added(x.tag, Event("cancellation", x.tag, 0))
GotClose(x) ==
    /\ x.type = "close" /\ wire'.out = wire.out /\ SameEvents
    /\ events'.requested = events.requested \cup {"wakeup"}
    /\ channel'.state = "closedByBroker" /\ channel'.tags = [t \in Tags |-> "none"]
    /\ channel'.ackless = channel.ackless /\ channel'.getting = channel.getting
    /\ blocking'.ready = [blocking.ready EXCEPT !["confirm"] = 0] /\ blocking'.got = blocking.got
    /\ blocking'.confirming = blocking.confirming /\ blocking'.returned = blocking.returned
    /\ blocking'.pending = <<>> /\ blocking'.infos = [t \in Tags |-> "none"]
    /\ blocking'.generator = None
GotBlocked(x) ==
    /\ x.type = "blocked" /\ wire'.out = wire.out /\ channel' = channel /\ blocking' = blocking
    /\ events'.ready = Append(events.ready, "blocked") /\ events'.scheduled = events.scheduled
    /\ events'.requested = events.requested
    /\ events'.phase = events.phase /\ events'.callback = events.callback

\* A frame is taken from the stream, and handled by its type.
LEMMA FrameFields ==
    ASSUME CallTypes, Frames
    PROVE  /\ wire.in # <<>> /\ Head(wire.in) \in InFrames /\ wire'.in = Tail(wire.in)
           /\ Tail(wire.in) \in Seq(InFrames) /\ broker' = broker /\ Turn
           /\ app'.lost = app.lost
           /\ \/ GotReply(Head(wire.in)) \/ GotReturn(Head(wire.in)) \/ GotDelivery(Head(wire.in))
              \/ GotCancel(Head(wire.in)) \/ GotClose(Head(wire.in)) \/ GotBlocked(Head(wire.in))
<1> DEFINE x == Head(wire.in)
<1> USE DEF CallTypes
<1>1. ASSUME NEW type, Receive(type)
      PROVE  /\ wire.in # <<>> /\ Got \in InFrames /\ Got.type = type /\ Got = x
             /\ Tail(wire.in) \in Seq(InFrames) /\ Rest.in = Tail(wire.in)
             /\ Rest.out = wire.out /\ Turn /\ app'.lost = app.lost /\ broker' = broker
      BY <1>1, ReceiveTypes, StageTypes DEF Receive
<1>2. ASSUME NEW k \in Kinds, Receive(k), blocking'.ready = [blocking.ready EXCEPT ![k] = Got.n]
      PROVE  blocking'.ready = [blocking.ready EXCEPT ![x.type] = x.n] /\ x.type = k
      BY <1>1, <1>2
<1>3. CASE OnReply
  <2>1. PICK k \in {"ok", "consumeOk", "confirm"} : Receive(k) /\ blocking' = Set(k)
        BY <1>3 DEF OnReply
  <2>2. /\ wire' = Rest /\ channel' = channel /\ events' = events
        BY <1>3 DEF OnReply
  <2>3. k \in Kinds
        BY DEF Kinds
  <2>4. /\ blocking'.ready = [blocking.ready EXCEPT ![k] = Got.n]
        /\ SameQueues /\ SameConsumers /\ blocking'.got = blocking.got
        /\ blocking'.confirming = blocking.confirming /\ blocking'.returned = blocking.returned
        BY <2>1 DEF Set, BlockingType, SameQueues, SameConsumers
  <2>5. x.type = k /\ x.type \in Kinds /\ blocking'.ready = [blocking.ready EXCEPT ![x.type] = x.n]
        BY <1>2, <2>1, <2>3, <2>4
  <2>6. channel.getting \in BOOLEAN
        BY DEF ChannelType
  <2>7. GotReply(x)
        BY <1>1, <2>1, <2>2, <2>4, <2>5, <2>6 DEF GotReply
  <2> QED BY <1>1, <2>1, <2>2, <2>7
<1>4. CASE OnGetOk
  <2>1. Receive("getOk") /\ wire' = Rest /\ events' = events
        BY <1>4 DEF OnGetOk
  <2>2. /\ blocking'.ready = [blocking.ready EXCEPT !["getOk"] = Got.n]
        /\ SameQueues /\ SameConsumers /\ blocking'.got = Got.id
        /\ blocking'.confirming = blocking.confirming /\ blocking'.returned = blocking.returned
        BY <1>4 DEF OnGetOk, Set, BlockingType, SameQueues, SameConsumers
  <2>3. /\ channel'.state = channel.state /\ ~channel'.getting /\ channel'.tags = channel.tags
        /\ channel'.ackless = channel.ackless /\ channel'.getting \in BOOLEAN
        BY <1>4 DEF OnGetOk, ChannelType
  <2>4. x.type = "getOk" /\ x.type \in Kinds /\ blocking'.got = x.id
        BY <1>1, <2>1, <2>2 DEF Kinds
  <2>5. blocking'.ready = [blocking.ready EXCEPT ![x.type] = x.n]
        BY <1>2, <2>1, <2>2, <2>4
  <2>6. channel'.getting = (channel.getting /\ x.type \notin {"getOk", "getEmpty"})
        BY <2>3, <2>4
  <2>7. GotReply(x)
        BY <1>1, <2>1, <2>2, <2>3, <2>4, <2>5, <2>6 DEF GotReply
  <2> QED BY <1>1, <2>1, <2>7
<1>5. CASE OnGetEmpty
  <2>1. Receive("getEmpty") /\ wire' = Rest /\ events' = events
        BY <1>5 DEF OnGetEmpty
  <2>2. /\ blocking'.ready = [blocking.ready EXCEPT !["getEmpty"] = Got.n]
        /\ SameQueues /\ SameConsumers /\ blocking'.got = blocking.got
        /\ blocking'.confirming = blocking.confirming /\ blocking'.returned = blocking.returned
        BY <1>5 DEF OnGetEmpty, Set, BlockingType, SameQueues, SameConsumers
  <2>3. /\ channel'.state = channel.state /\ ~channel'.getting /\ channel'.tags = channel.tags
        /\ channel'.ackless = channel.ackless /\ channel'.getting \in BOOLEAN
        BY <1>5 DEF OnGetEmpty, ChannelType
  <2>4. x.type = "getEmpty" /\ x.type \in Kinds
        BY <1>1, <2>1, <2>2 DEF Kinds
  <2>5. blocking'.ready = [blocking.ready EXCEPT ![x.type] = x.n]
        BY <1>2, <2>1, <2>2, <2>4
  <2>6. channel'.getting = (channel.getting /\ x.type \notin {"getOk", "getEmpty"})
        BY <2>3, <2>4
  <2>7. GotReply(x)
        BY <1>1, <2>1, <2>2, <2>3, <2>4, <2>5, <2>6 DEF GotReply
  <2> QED BY <1>1, <2>1, <2>7
<1>6. CASE OnCancelOk
  <2>1. Receive("cancelOk") /\ wire' = Rest /\ events' = events
        BY <1>6 DEF OnCancelOk
  <2>2. /\ blocking'.ready = [blocking.ready EXCEPT !["cancelOk"] = Got.n]
        /\ SameQueues /\ SameConsumers /\ blocking'.got = blocking.got
        /\ blocking'.confirming = blocking.confirming /\ blocking'.returned = blocking.returned
        BY <1>6 DEF OnCancelOk, Set, BlockingType, SameQueues, SameConsumers
  <2>3. x.type = "cancelOk" /\ x.type \in Kinds /\ x.tag \in Tags /\ Got = x
        BY <1>1, <2>1 DEF Kinds, InFrames
  <2>4. /\ channel'.state = channel.state /\ channel'.getting = channel.getting
        /\ channel'.tags = [channel.tags EXCEPT ![x.tag] = "none"]
        /\ channel'.ackless = channel.ackless \ {x.tag} /\ channel.getting \in BOOLEAN
        BY <1>6, <2>3 DEF OnCancelOk, ChannelType
  <2>5. blocking'.ready = [blocking.ready EXCEPT ![x.type] = x.n]
        BY <1>2, <2>1, <2>2, <2>3
  <2>6. channel'.getting = (channel.getting /\ x.type \notin {"getOk", "getEmpty"})
        BY <2>3, <2>4
  <2>7. GotReply(x)
        BY <1>1, <2>1, <2>2, <2>3, <2>4, <2>5, <2>6 DEF GotReply
  <2> QED BY <1>1, <2>1, <2>7
<1>7. ASSUME NEW b, NEW tag, NEW e, ToSink(b, tag, e) \/ (tag = None /\ AddPending(b, e)),
             tag \in GeneratorTags => e \in GeneratorEvents,
             tag \notin GeneratorTags => e \in ChannelEvents,
             b \in [infos : [Tags -> Infos], generator : GeneratorTags \cup {None},
                    genEvents : Seq(GeneratorEvents), pending : Seq(ChannelEvents),
                    confirming : BOOLEAN, returned : 0..MaxCalls, onReturn : BOOLEAN,
                    ready : [Kinds -> 0..MaxCalls], got : 0..MaxDeliveries,
                    ackless : SUBSET Tags, used : SUBSET GeneratorTags],
             b.pending = blocking.pending, b.genEvents = blocking.genEvents
      PROVE  /\ Added(tag, e) /\ SameEvents
             /\ blocking'.infos = b.infos /\ blocking'.generator = b.generator
             /\ blocking'.confirming = b.confirming /\ blocking'.returned = b.returned
             /\ blocking'.ready = b.ready /\ blocking'.got = b.got
             /\ blocking'.ackless = b.ackless
  <2>1. CASE ToSink(b, tag, e) /\ tag \in GeneratorTags
        BY <1>7, <2>1 DEF ToSink, Added, SameEvents, Request, EventsType
  <2>2. CASE AddPending(b, e) /\ tag \notin GeneratorTags
        BY <1>7, <2>2 DEF AddPending, Added, SameEvents, Request, EventsType
  <2>3. None \notin GeneratorTags
        BY CallNamesAssumption
  <2> QED BY <1>7, <2>1, <2>2, <2>3 DEF ToSink
<1>8. CASE OnReturn
  <2> DEFINE b == [blocking EXCEPT !.returned = IF blocking.confirming THEN Got.n ELSE @]
  <2>1. /\ Receive("return") /\ wire' = Rest /\ channel' = channel
        /\ \/ AddPending(b, Event("returned", None, 0))
           \/ blocking' = b /\ events' = events
        BY <1>8 DEF OnReturn
  <2>2. x.type = "return" /\ Got = x /\ x.n \in 0..MaxCalls
        BY <1>1, <2>1 DEF InFrames
  <2>3. /\ b \in [infos : [Tags -> Infos], generator : GeneratorTags \cup {None},
                  genEvents : Seq(GeneratorEvents), pending : Seq(ChannelEvents),
                  confirming : BOOLEAN, returned : 0..MaxCalls, onReturn : BOOLEAN,
                  ready : [Kinds -> 0..MaxCalls], got : 0..MaxDeliveries,
                  ackless : SUBSET Tags, used : SUBSET GeneratorTags]
        /\ b.pending = blocking.pending /\ b.genEvents = blocking.genEvents
        /\ b.infos = blocking.infos /\ b.generator = blocking.generator
        /\ b.confirming = blocking.confirming /\ b.ready = blocking.ready /\ b.got = blocking.got
        /\ b.ackless = blocking.ackless
        /\ b.returned = (IF blocking.confirming THEN x.n ELSE blocking.returned)
        BY <2>2 DEF BlockingType
  <2> HIDE DEF b
  <2>4. CASE AddPending(b, Event("returned", None, 0))
    <3>1. Event("returned", None, 0) \in ChannelEvents /\ None \notin GeneratorTags
          BY EventTypes, CallNamesAssumption
    <3>2. /\ Added(None, Event("returned", None, 0)) /\ SameEvents
          /\ blocking'.infos = b.infos /\ blocking'.generator = b.generator
          /\ blocking'.confirming = b.confirming /\ blocking'.returned = b.returned
          /\ blocking'.ready = b.ready /\ blocking'.got = b.got
          /\ blocking'.ackless = b.ackless
          BY <1>7, <2>3, <2>4, <3>1
    <3>3. GotReturn(x)
          BY <1>1, <2>1, <2>2, <2>3, <3>2 DEF GotReturn, SameConsumers, SameResults
    <3> QED BY <1>1, <2>1, <3>3
  <2>5. CASE blocking' = b /\ events' = events
        BY <1>1, <2>1, <2>2, <2>3, <2>5 DEF GotReturn, SameConsumers, SameResults, SameQueues,
           SameEvents
  <2> QED BY <2>1, <2>4, <2>5
<1>9. CASE OnDeliver
  <2>1. Receive("deliver") /\ channel' = channel
        BY <1>9 DEF OnDeliver
  <2>2. /\ x.type = "deliver" /\ x.tag \in Tags /\ x.id \in 0..MaxDeliveries /\ x.id # 0 /\ Got = x
        /\ Rest.in = Tail(wire.in) /\ Rest.out = wire.out
        /\ Rest \in [out : Seq(OutFrames), in : Seq(InFrames)]
        BY <1>1, <2>1, ReceiveTypes DEF InFrames
  <2>3. x.id \in Deliveries
        BY <2>2, CallBoundsAssumption DEF Deliveries
  <2>4. Frame("settle", 0, None, x.id) \in OutFrames
    <3>1. 0 \in 0..MaxCalls
          BY CallBoundsAssumption
    <3> QED BY <2>2, <3>1, MadeTypes
  <2>5. CASE channel.tags[x.tag] = "cancelling"
        BY <1>1, <1>9, <2>1, <2>2, <2>3, <2>4, <2>5 DEF OnDeliver, GotDelivery, SameConsumers,
           SameResults, SameQueues, SameEvents
  <2>6. CASE channel.tags[x.tag] = "none"
        BY <1>1, <1>9, <2>1, <2>2, <2>3, <2>6 DEF OnDeliver, GotDelivery, SameConsumers,
           SameResults, SameQueues, SameEvents
  <2>7. CASE channel.tags[x.tag] = "consuming"
    <3> DEFINE e == Event("delivery", x.tag, x.id)
    <3>1. wire' = Rest /\ ToSink(blocking, x.tag, e)
          BY <1>9, <2>2, <2>7 DEF OnDeliver
    <3>2. /\ x.tag \in GeneratorTags => e \in GeneratorEvents
          /\ x.tag \notin GeneratorTags => e \in ChannelEvents
          BY <2>2, <2>3, EventTypes DEF Tags
    <3> HIDE DEF e
    <3>3. /\ Added(x.tag, e) /\ SameEvents
          /\ blocking'.infos = blocking.infos /\ blocking'.generator = blocking.generator
          /\ blocking'.confirming = blocking.confirming
          /\ blocking'.returned = blocking.returned
          /\ blocking'.ready = blocking.ready /\ blocking'.got = blocking.got
          /\ blocking'.ackless = blocking.ackless
          BY <1>7, <3>1, <3>2 DEF BlockingType
    <3>4. GotDelivery(x)
          BY <2>1, <2>2, <2>3, <2>7, <3>1, <3>3 DEF GotDelivery, SameConsumers, SameResults, e
    <3> QED BY <1>1, <2>1, <2>2, <3>1, <3>4
  <2> QED BY <2>2, <2>5, <2>6, <2>7 DEF ChannelType
<1>10. CASE OnCancel
  <2> DEFINE b == [blocking EXCEPT !.infos[x.tag] = IF @ = "tearing" THEN @ ELSE "cancelled"]
             e == Event("cancellation", x.tag, 0)
  <2>1. /\ Receive("brokerCancel") /\ wire' = Rest
        BY <1>10 DEF OnCancel
  <2>2. x.type = "brokerCancel" /\ x.tag \in Tags /\ Got = x
        BY <1>1, <2>1 DEF InFrames
  <2>3. ToSink(b, x.tag, e)
        BY <1>10, <2>2 DEF OnCancel
  <2>4. /\ channel'.state = channel.state /\ channel'.getting = channel.getting
        /\ IF channel.tags[x.tag] = "cancelling"
           THEN channel'.tags = channel.tags /\ channel'.ackless = channel.ackless
           ELSE /\ channel'.tags = [channel.tags EXCEPT ![x.tag] = "none"]
                /\ channel'.ackless = channel.ackless \ {x.tag}
        BY <1>10, <2>2 DEF OnCancel, ChannelType
  <2>5. /\ x.tag \in GeneratorTags => e \in GeneratorEvents
        /\ x.tag \notin GeneratorTags => e \in ChannelEvents
        BY <2>2, EventTypes DEF Tags
  <2>6. /\ b \in [infos : [Tags -> Infos], generator : GeneratorTags \cup {None},
                  genEvents : Seq(GeneratorEvents), pending : Seq(ChannelEvents),
                  confirming : BOOLEAN, returned : 0..MaxCalls, onReturn : BOOLEAN,
                  ready : [Kinds -> 0..MaxCalls], got : 0..MaxDeliveries,
                  ackless : SUBSET Tags, used : SUBSET GeneratorTags]
        /\ b.pending = blocking.pending /\ b.genEvents = blocking.genEvents
        /\ b.generator = blocking.generator
        /\ b.confirming = blocking.confirming /\ b.ready = blocking.ready /\ b.got = blocking.got
        /\ b.ackless = blocking.ackless /\ b.returned = blocking.returned
        /\ b.infos = [blocking.infos EXCEPT ![x.tag] = IF @ = "tearing" THEN @ ELSE "cancelled"]
        BY <2>2 DEF BlockingType, Infos
  <2> HIDE DEF b, e
  <2>7. /\ Added(x.tag, e) /\ SameEvents
        /\ blocking'.infos = b.infos /\ blocking'.generator = b.generator
        /\ blocking'.confirming = b.confirming /\ blocking'.returned = b.returned
        /\ blocking'.ready = b.ready /\ blocking'.got = b.got
        /\ blocking'.ackless = b.ackless
        BY <1>7, <2>3, <2>5, <2>6
  <2>8. GotCancel(x)
        BY <1>1, <2>1, <2>2, <2>4, <2>6, <2>7 DEF GotCancel, SameResults, e
  <2> QED BY <1>1, <2>1, <2>8
<1>11. CASE OnChannelClose
  <2>1. Receive("close") /\ wire' = Rest /\ events' = Request(events, "wakeup")
        BY <1>11 DEF OnChannelClose
  <2>2. x.type = "close"
        BY <1>1, <2>1
  <2>3. /\ channel'.state = "closedByBroker" /\ channel'.tags = [t \in Tags |-> "none"]
        /\ channel'.ackless = channel.ackless /\ channel'.getting = channel.getting
        BY <1>11 DEF OnChannelClose, ChannelType
  <2>4. "confirm" \in Kinds
        BY DEF Kinds
  <2>5. /\ blocking'.ready = [blocking.ready EXCEPT !["confirm"] = 0]
        /\ blocking'.got = blocking.got
        /\ blocking'.confirming = blocking.confirming /\ blocking'.returned = blocking.returned
        /\ blocking'.pending = <<>> /\ blocking'.infos = [t \in Tags |-> "none"]
        /\ blocking'.generator = None
        BY <1>11, <2>4 DEF OnChannelClose, BlockingType
  <2>6. SameEvents /\ events'.requested = events.requested \cup {"wakeup"}
        BY <2>1 DEF Request, EventsType, SameEvents
  <2>7. GotClose(x)
        BY <1>1, <2>1, <2>2, <2>3, <2>5, <2>6 DEF GotClose
  <2> QED BY <1>1, <2>1, <2>7
<1>12. CASE OnBlocked
      BY <1>1, <1>12 DEF OnBlocked, GotBlocked, EventsType
<1> QED BY <1>3, <1>4, <1>5, <1>6, <1>8, <1>9, <1>10, <1>11, <1>12 DEF Frames

-----------------------------------------------------------------------------
(* The reply that comes next.                                              *)

\* It is the reply to the call under way, the only one, and no result waits.
LEMMA HeadReply ==
    ASSUME WireType, OneReply(app.call, wire.out, wire.in, blocking.ready), wire.in # <<>>,
           Head(wire.in).type \in Kinds
    PROVE  /\ Head(wire.in) \in Replying /\ Head(wire.in) \in RepliesTo(app.call)
           /\ \A k \in Kinds : blocking.ready[k] = 0
           /\ Free(wire.out, Asking) /\ Free(Tail(wire.in), Replying)
<1> DEFINE x == Head(wire.in)
           r == Tail(wire.in)
           others == Replying \ RepliesTo(app.call)
<1>1. wire.in \in Seq(InFrames) /\ x \in InFrames
      BY StreamTypes DEF WireType
<1>2. x \in Replying
      BY <1>1 DEF Replying
<1>3. /\ Free(wire.in, others) <=> x \notin others /\ Free(r, others)
      /\ Free(wire.in, Replying) <=> x \notin Replying /\ Free(r, Replying)
      /\ NoneAfter(wire.in, Replying, Replying) <=>
             NoneAfter(r, Replying, Replying) /\ (x \notin Replying \/ Free(r, Replying))
      BY <1>1, HeadFrame
<1> HIDE DEF x, r
<1>4. x \in RepliesTo(app.call) /\ Free(r, Replying) /\ ~Free(wire.in, Replying)
      BY <1>2, <1>3 DEF OneReply
<1>5. Free(wire.out, Asking) /\ \A k \in Kinds : blocking.ready[k] = 0
      BY <1>4 DEF OneReply
<1> QED BY <1>2, <1>4, <1>5 DEF x, r

-----------------------------------------------------------------------------
(* Consumers that are set up or torn down.                                 *)

\* No consumer is left between two states by another call.
LEMMA ConsumersOwned ==
    ASSUME CallsInv, Next, CallTypes'
    PROVE  OwnConsumer'
<1> USE DEF CallsInv, CallTypes
<1>1. ASSUME app'.call.op = app.call.op, app'.call.tag = app.call.tag,
             \A t \in Tags : blocking'.infos[t] \in {"setting", "tearing"} =>
                                 blocking'.infos[t] = blocking.infos[t]
      PROVE  OwnConsumer'
      BY <1>1 DEF OwnConsumer
<1>2. ASSUME \A t \in Tags : blocking'.infos[t] \notin {"setting", "tearing"}
      PROVE  OwnConsumer'
      BY <1>2 DEF OwnConsumer
<1>3. app.call.op \notin {"consume", "cancel"} =>
          \A t \in Tags : blocking.infos[t] \notin {"setting", "tearing"}
      BY DEF OwnConsumer
<1>4. CASE AppCalls
  <2>1. /\ app.call.op = "none"
        /\ \/ \E op \in {"rpc", "select", "get", "publish"} : Plain(op)
           \/ \E id \in Deliveries : Settle(id)
           \/ \E tag \in Tags, ackless \in BOOLEAN : Consumes(tag, ackless)
           \/ \E tag \in Tags, n \in 0..Len(blocking.genEvents) : Cancels(tag, n)
           \/ \E op \in Processing, limited \in BOOLEAN : StartProcessing(op, limited)
        BY <1>4, AppKinds
  <2>2. \A t \in Tags : blocking.infos[t] \notin {"setting", "tearing"}
        BY <1>3, <2>1
  <2>3. CASE \/ \E op \in {"rpc", "select", "get", "publish"} : Plain(op)
             \/ \E id \in Deliveries : Settle(id)
             \/ \E op \in Processing, limited \in BOOLEAN : StartProcessing(op, limited)
        BY <1>2, <2>2, <2>3 DEF Plain, Settle, StartProcessing
  <2>4. CASE \E tag \in Tags, ackless \in BOOLEAN : Consumes(tag, ackless)
    <3>1. PICK tag \in Tags, ackless \in BOOLEAN : Consumes(tag, ackless)
          BY <2>4
    <3>2. /\ app'.call.op = "consume" /\ app'.call.tag = tag
          /\ blocking'.infos = [blocking.infos EXCEPT ![tag] = "setting"]
          BY <3>1, ConsumeFields
    <3> QED BY <2>2, <3>2 DEF OwnConsumer, BlockingType
  <2>5. CASE \E tag \in Tags, n \in 0..Len(blocking.genEvents) : Cancels(tag, n)
    <3>1. PICK tag \in Tags, n \in 0..Len(blocking.genEvents) : Cancels(tag, n)
          BY <2>5
    <3>2. /\ app'.call.op = "cancel" /\ app'.call.tag = tag
          /\ blocking'.infos = [blocking.infos EXCEPT ![tag] = "tearing"]
          BY <3>1, CancelFields
    <3> QED BY <2>2, <3>2 DEF OwnConsumer, BlockingType
  <2> QED BY <2>1, <2>3, <2>4, <2>5
<1>5. CASE AppTimers
      BY <1>1, <1>5 DEF AppTimers, CallLater, RemoveTimeout, AppType
<1>6. CASE Rounds
  <2>1. app'.call.op = app.call.op /\ app'.call.tag = app.call.tag
        BY <1>6, RoundKeeps
  <2>2. CASE Frames
        BY <1>1, <2>1, <2>2, FrameFields DEF GotReply, GotReturn, GotDelivery, GotCancel,
           GotClose, GotBlocked, SameConsumers, BlockingType
  <2>3. CASE ~Frames
        BY <1>1, <1>6, <2>1, <2>3 DEF Rounds, EndRound, Write, WriteIgnored, LimitExpires,
           OnConnectionClosed, TimerReady
  <2> QED BY <2>2, <2>3
<1>7. CASE Broker
      BY <1>1, <1>7 DEF Broker, BrokerCloses, BrokerBlocks, BrokerDelivers, BrokerCancels
<1>8. CASE Dispatches
      BY <1>2, <1>3, <1>8, DispatchKeeps DEF Processing
<1>9. CASE CallReturns \/ CallRaises
  <2>1. /\ app.call.op \in Answered /\ app.call \in Calls /\ CallShape(app.call)
        /\ \E raised \in BOOLEAN : blocking' = Ended(app.call, raised)
        BY <1>9 DEF CallReturns, CallRaises, CallDone, AppType, CallAndDispatch
  <2> HIDE DEF CallsInv, CallTypes
  <2>2. PICK raised \in BOOLEAN : blocking' = Ended(app.call, raised)
        BY <2>1
  <2>3. BlockingType /\ OwnConsumer
        BY DEF CallsInv, CallTypes
  <2>4. ASSUME NEW t \in Tags
        PROVE  blocking'.infos[t] \notin {"setting", "tearing"}
    <3>1. CASE app.call.op = "consume"
      <4>1. blocking'.infos = [blocking.infos EXCEPT ![app.call.tag] =
                IF raised THEN "none" ELSE IF @ = "setting" THEN "active" ELSE @]
            BY <2>2, <2>3, <3>1 DEF Ended, BlockingType
      <4> QED BY <2>3, <3>1, <4>1 DEF OwnConsumer, BlockingType
    <3>2. CASE app.call.op = "cancel"
      <4>1. blocking'.infos = [blocking.infos EXCEPT ![app.call.tag] = "none"]
            BY <2>2, <2>3, <3>2 DEF Ended, BlockingType
      <4> QED BY <2>3, <3>2, <4>1 DEF OwnConsumer, BlockingType
    <3>3. CASE app.call.op \notin {"consume", "cancel"}
      <4>1. blocking'.infos = blocking.infos
            BY <2>2, <2>3, <3>3 DEF Ended, BlockingType
      <4> QED BY <2>3, <3>3, <4>1 DEF OwnConsumer
    <3> QED BY <3>1, <3>2, <3>3
  <2> QED BY <1>2, <2>4
<1> QED BY <1>4, <1>5, <1>6, <1>7, <1>8, <1>9, StepKinds

-----------------------------------------------------------------------------
(* basic_get.                                                              *)

\* The channel's callback for basic_get is that of the call under way.
LEMMA GetsMatch ==
    ASSUME CallsInv, Next, CallTypes'
    PROVE  Getting'
<1> USE DEF CallsInv, CallTypes
<1>1. "getOk" \in Kinds /\ "getEmpty" \in Kinds /\ "confirm" \in Kinds
      BY DEF Kinds
<1>2. \A k \in {"getOk", "getEmpty"} : blocking.ready[k] # 0 => app.call.op = "get"
      BY <1>1 DEF OneReply, KindsOf
<1>3. ASSUME app'.call.op = app.call.op, blocking'.ready = blocking.ready,
             blocking'.got = blocking.got, channel'.getting = channel.getting,
             channel.state # "open" => channel'.state # "open"
      PROVE  Getting'
      BY <1>3 DEF Getting
<1>4. CASE AppCalls
      BY <1>2, <1>4, AppKinds, PlainFields, ConsumeFields, CancelFields DEF Getting, Plain,
         Settle, StartProcessing
<1>5. CASE AppTimers
      BY <1>3, <1>5 DEF AppTimers, CallLater, RemoveTimeout, AppType
<1>6. CASE Rounds
  <2>1. app'.call.op = app.call.op
        BY <1>6, RoundKeeps
  <2>2. CASE Frames
    <3> DEFINE x == Head(wire.in)
    <3>1. \/ GotReply(x) \/ GotReturn(x) \/ GotDelivery(x)
          \/ GotCancel(x) \/ GotClose(x) \/ GotBlocked(x)
          BY <2>2, FrameFields
    <3>2. wire.in \in Seq(InFrames) /\ wire.in # <<>> /\ x \in InFrames
          BY <2>2, FrameFields DEF WireType
    <3> HIDE DEF x
    <3>3. CASE GotReply(x)
      <4>1. x.type \notin {"getOk", "getEmpty"} =>
                /\ blocking'.ready["getOk"] = blocking.ready["getOk"]
                /\ blocking'.ready["getEmpty"] = blocking.ready["getEmpty"]
                /\ channel'.getting = channel.getting /\ blocking'.got = blocking.got
            BY <1>1, <3>3 DEF GotReply, BlockingType, ChannelType
      <4>2. x.type \in {"getOk", "getEmpty"} =>
                /\ ~channel'.getting
                /\ blocking'.got # 0 => blocking'.ready["getOk"] # 0
        <5>1. ASSUME x.type = "getOk"
              PROVE  blocking'.ready["getOk"] # 0
          <6>1. blocking'.ready["getOk"] = x.n
                BY <1>1, <3>3, <5>1 DEF GotReply, BlockingType
          <6>2. x \in RepliesTo(app.call)
                BY <1>1, <3>2, <5>1, HeadReply DEF x
          <6>3. x.n = app.call.n
                BY <6>2 DEF RepliesTo
          <6>4. app.call.n # 0
                BY <1>6, RoundKeeps DEF CallAndDispatch, CallShape
          <6> QED BY <6>1, <6>3, <6>4
        <5>2. ASSUME x.type = "getEmpty"
              PROVE  blocking'.got # 0 => blocking'.ready["getOk"] # 0
              BY <1>1, <3>3, <5>2 DEF GotReply, BlockingType, Getting
        <5> QED BY <3>3, <5>1, <5>2 DEF GotReply
      <4>3. channel'.state = channel.state
            BY <3>3 DEF GotReply
      <4> QED BY <2>1, <4>1, <4>2, <4>3 DEF Getting
    <3>4. CASE GotReturn(x) \/ GotDelivery(x) \/ GotCancel(x) \/ GotBlocked(x)
          BY <1>3, <2>1, <3>4 DEF GotReturn, GotDelivery, GotCancel, GotBlocked, SameResults
    <3>5. CASE GotClose(x)
          BY <1>1, <2>1, <3>5 DEF GotClose, BlockingType, Getting
    <3> QED BY <3>1, <3>3, <3>4, <3>5
  <2>3. CASE ~Frames
        BY <1>3, <1>6, <2>1, <2>3 DEF Rounds, EndRound, Write, WriteIgnored, LimitExpires,
           OnConnectionClosed, TimerReady, ChannelType
  <2> QED BY <2>2, <2>3
<1>7. CASE Broker
      BY <1>3, <1>7 DEF Broker, BrokerCloses, BrokerBlocks, BrokerDelivers, BrokerCancels
<1>8. CASE Dispatches
      BY <1>2, <1>8, DispatchKeeps DEF Processing, Getting
<1>9. CASE CallReturns \/ CallRaises
  <2>1. /\ app.call.op \in Answered /\ app.call \in Calls /\ CallShape(app.call)
        /\ \E raised \in BOOLEAN : blocking' = Ended(app.call, raised)
        /\ channel' = channel
        BY <1>9 DEF CallReturns, CallRaises, CallDone, AppType, CallAndDispatch
  <2>2. PICK raised \in BOOLEAN : blocking' = Ended(app.call, raised)
        BY <2>1
  <2>3. /\ blocking'.ready = [k \in Kinds |-> IF k \in KindsOf(app.call.op) THEN 0
                                              ELSE blocking.ready[k]]
        /\ blocking'.got = (IF app.call.op = "get" THEN 0 ELSE blocking.got)
        BY <2>1, <2>2, EndedFields
  <2>4. blocking'.ready["getOk"] = 0 /\ blocking'.ready["getEmpty"] = 0
        BY <1>1, <1>2, <2>3 DEF KindsOf
  <2>5. blocking'.got = 0
        BY <1>2, <2>3 DEF Getting
  <2>6. channel'.getting => channel'.state # "open"
        BY <1>9, <2>1 DEF CallRaises, CallReturns, CallDone, IsDone, WaiterReady, Ready,
           AtTheEnd, Getting
  <2> QED BY <2>4, <2>5, <2>6 DEF Getting
<1> QED BY <1>4, <1>5, <1>6, <1>7, <1>8, <1>9, StepKinds

-----------------------------------------------------------------------------
(* One reply at a time.                                                    *)

NoReply(out, in, ready) ==
    Free(out, Asking) /\ Free(in, Replying) /\ \A k \in Kinds : ready[k] = 0

\* Nothing is asked or replied to by a call that waits for no reply.
LEMMA QuietCall ==
    ASSUME OneReply(app.call, wire.out, wire.in, blocking.ready),
           app.call.op \in Processing \cup {"none", "send"}
    PROVE  NoReply(wire.out, wire.in, blocking.ready)
      BY DEF KindsOf, Processing, RepliesTo, AskedBy, OutFrames, Requests, OneReply, NoReply

\* The other way round.
LEMMA NoReplyIsOne ==
    ASSUME NEW call, NEW out, NEW in, NEW ready, NoReply(out, in, ready)
    PROVE  OneReply(call, out, in, ready)
      BY DEF NoReply, Free, NoneAfter, OneReply

\* A request is sent.
LEMMA RequestSent ==
    ASSUME NEW call, NEW out \in Seq(OutFrames), NEW s \in Seq(OutFrames), NEW in, NEW ready,
           NoReply(out, in, ready), Free(s, Asking), NEW a,
           a = <<>> \/ \E f \in AskedBy(call) : a = <<f>>
    PROVE  OneReply(call, (out \o s) \o a, in, ready)
<1>1. out \o s \in Seq(OutFrames)
      BY StreamTypes
<1>2. Free(out \o s, Asking)
      BY JoinFree DEF NoReply
<1>3. CASE a = <<>>
      BY <1>1, <1>2, <1>3, StreamTypes, NoReplyIsOne DEF NoReply
<1>4. ASSUME NEW f \in AskedBy(call), a = <<f>>
      PROVE  OneReply(call, (out \o s) \o a, in, ready)
      BY <1>1, <1>2, <1>4, OneFrame, JoinFree, JoinNoneAfter DEF AskedBy, Free, NoneAfter,
         NoReply, OneReply
<1> QED BY <1>3, <1>4

\* The same call, with no more asked, replied or ready.
LEMMA OneReplyKept ==
    ASSUME OneReply(app.call, wire.out, wire.in, blocking.ready),
           app'.call.op = app.call.op, app'.call.n = app.call.n, app'.call.tag = app.call.tag,
           Within(wire'.out, wire.out, Asking), Within(wire'.in, wire.in, Replying),
           \A k \in Kinds : blocking'.ready[k] # 0 => blocking'.ready[k] = blocking.ready[k]
    PROVE  OneReply(app.call, wire.out, wire.in, blocking.ready)'
      BY DEF AskedBy, RepliesTo, KindsOf, Within, OneReply

\* A request is written and answered.
LEMMA RequestWritten ==
    ASSUME CallTypes, CallAndDispatch, OneReply(app.call, wire.out, wire.in, blocking.ready),
           wire.out # <<>>, Head(wire.out) \in Asking,
           NEW frames \in Answers(Head(wire.out)), frames \in Seq(InFrames)
    PROVE  /\ NoReply(Tail(wire.out), wire.in, blocking.ready)
           /\ Head(wire.out) \in AskedBy(app.call)
           /\ Free(frames, Replying \ RepliesTo(app.call))
           /\ NoneAfter(frames, Replying, Replying \cup Returns)
           /\ OneReply(app.call, Tail(wire.out), wire.in \o frames, blocking.ready)
<1> DEFINE f == Head(wire.out)
           o == Tail(wire.out)
           others == Asking \ AskedBy(app.call)
<1>1. f \in OutFrames /\ o \in Seq(OutFrames) /\ wire.out \in Seq(OutFrames)
      BY StreamTypes DEF CallTypes, WireType
<1>2. /\ Free(wire.out, others) <=> f \notin others /\ Free(o, others)
      /\ Free(wire.out, Asking) <=> f \notin Asking /\ Free(o, Asking)
      /\ NoneAfter(wire.out, Asking, Asking) <=>
             NoneAfter(o, Asking, Asking) /\ (f \notin Asking \/ Free(o, Asking))
      BY <1>1, HeadFrame
<1> HIDE DEF o, others
<1>3. f \in AskedBy(app.call) /\ Free(o, Asking) /\ ~Free(wire.out, Asking)
      BY <1>2 DEF OneReply, others
<1>4. Free(wire.in, Replying) /\ \A k \in Kinds : blocking.ready[k] = 0
      BY <1>3 DEF OneReply
<1>5. f.type = app.call.op /\ f.n = app.call.n /\ f.tag = app.call.tag
      BY <1>3 DEF AskedBy
<1>6. /\ \A i \in DOMAIN frames :
            /\ frames[i].n = f.n /\ frames[i].tag \in {f.tag, None}
            /\ \/ frames[i].type = "return" /\ f.type = "publish"
               \/ frames[i].type = "confirm" /\ f.type = "publish" /\ broker.confirms
               \/ frames[i].type = "ok" /\ f.type \in {"rpc", "select"}
               \/ frames[i].type = "consumeOk" /\ f.type = "consume"
               \/ frames[i].type = "cancelOk" /\ f.type = "cancel"
               \/ frames[i].type \in {"getOk", "getEmpty"} /\ f.type = "get"
            /\ frames[i].type # "getOk" => frames[i].tag = f.tag
      /\ NoneAfter(frames, Replying, Replying \cup Returns)
      BY <1>1, AnswerShape
<1> HIDE DEF f
<1>7. ASSUME NEW i \in DOMAIN frames, frames[i] \in Replying
      PROVE  frames[i] \in RepliesTo(app.call)
      BY <1>5, <1>6, <1>7 DEF KindsOf, Replying, Kinds, CallTypes, AppType, Calls,
         CallAndDispatch, CallShape, RepliesTo
<1>8. Free(frames, Replying \ RepliesTo(app.call))
      BY <1>7 DEF Free
<1>9. NoneAfter(frames, Replying, Replying)
      BY <1>6, UnionFree
<1> DEFINE in == wire.in
           strange == Replying \ RepliesTo(app.call)
<1>10. in \in Seq(InFrames)
      BY DEF CallTypes, WireType
<1>11. Free(in, strange) /\ Free(frames, strange)
      BY <1>4, <1>8 DEF Free
<1> HIDE DEF in, strange
<1>12. Free(in \o frames, strange) <=> Free(in, strange) /\ Free(frames, strange)
      BY <1>10, JoinFree
<1>13. NoneAfter(in \o frames, Replying, Replying) <=>
           /\ NoneAfter(in, Replying, Replying) /\ NoneAfter(frames, Replying, Replying)
           /\ Free(in, Replying) \/ Free(frames, Replying)
      BY <1>10, JoinNoneAfter
<1>14. NoneAfter(in, Replying, Replying)
      BY <1>4 DEF Free, NoneAfter, in
<1>15. Free(in \o frames, strange) /\ NoneAfter(in \o frames, Replying, Replying)
      BY <1>4, <1>9, <1>11, <1>12, <1>13, <1>14 DEF in
<1>16. Free(o, Asking \ AskedBy(app.call)) /\ NoneAfter(o, Asking, Asking)
      BY <1>3 DEF Free, NoneAfter
<1>17. OneReply(app.call, o, in \o frames, blocking.ready)
      BY <1>3, <1>4, <1>15, <1>16 DEF OneReply, strange
<1> QED BY <1>3, <1>4, <1>6, <1>8, <1>17 DEF NoReply, o, in, f

\* When a call is over, nothing of it is left on the wire.
LEMMA NothingLeft ==
    ASSUME CallsInv, CallReturns \/ CallRaises
    PROVE  NoReply(wire.out, wire.in, blocking'.ready)
<1> USE DEF CallsInv, CallTypes
<1>1. /\ app.call.op \in Answered /\ app.call \in Calls /\ CallShape(app.call)
      /\ \E raised \in BOOLEAN : blocking' = Ended(app.call, raised)
      BY DEF CallReturns, CallRaises, CallDone, AppType, CallAndDispatch
<1>2. PICK raised \in BOOLEAN : blocking' = Ended(app.call, raised)
      BY <1>1
<1>3. blocking'.ready = [k \in Kinds |-> IF k \in KindsOf(app.call.op) THEN 0
                                         ELSE blocking.ready[k]]
      BY <1>1, <1>2, EndedFields
<1>4. \A k \in Kinds : blocking'.ready[k] = 0
      BY <1>3 DEF OneReply
<1>5. Free(<<>>, Asking) /\ Free(<<>>, Replying)
      BY DEF Free
<1>6. IsDone
      BY DEF CallReturns, CallRaises, CallDone
<1>7. wire.out = <<>>
      BY <1>6 DEF IsDone, AtTheEnd
<1>8. CASE CallRaises
      BY <1>4, <1>5, <1>7, <1>8 DEF CallRaises, AtTheEnd, NoReply
<1>9. CASE CallReturns
  <2>1. channel.state = "open" /\ ~app.lost /\ WaiterReady
        BY <1>6, <1>9 DEF CallReturns, AtTheEnd, IsDone
  <2>2. \A k \in Kinds : Ready(k) => Free(wire.in, Replying)
        BY DEF OneReply, Ready
  <2>3. ASSUME Free(wire.in, RepliesTo(app.call))
        PROVE  Free(wire.in, Replying)
        BY <2>3 DEF OneReply, Free
  <2>4. Free(wire.in, Replying)
        BY <1>1, <2>1, <2>2, <2>3, QuietCall DEF WaiterReady, Kinds, Returning, RepliesTo,
           KindsOf, Free, CallShape, Lanes, Lane, WireLane, About, FramesOf, NoReply, Answered
  <2> QED BY <1>4, <1>5, <1>7, <2>4 DEF NoReply
<1> QED BY <1>8, <1>9

\* The calls of the application ask for one reply at most.
LEMMA CallsAsk ==
    ASSUME CallsInv, AppCalls
    PROVE  /\ wire'.in = wire.in /\ blocking'.ready = blocking.ready
           /\ OneReply(app'.call, wire'.out, wire.in, blocking.ready)
<1> USE DEF CallsInv, CallTypes
<1>1. /\ app.call.op = "none"
      /\ \/ \E op \in {"rpc", "select", "get", "publish"} : Plain(op)
         \/ \E id \in Deliveries : Settle(id)
         \/ \E tag \in Tags, ackless \in BOOLEAN : Consumes(tag, ackless)
         \/ \E tag \in Tags, n \in 0..Len(blocking.genEvents) : Cancels(tag, n)
         \/ \E op \in Processing, limited \in BOOLEAN : StartProcessing(op, limited)
      BY AppKinds
<1>2. NoReply(wire.out, wire.in, blocking.ready) /\ wire.out \in Seq(OutFrames)
      BY <1>1, QuietCall DEF WireType
<1>3. /\ <<>> \in Seq(OutFrames) /\ wire.out \o <<>> = wire.out /\ Free(<<>>, Asking)
      /\ \A f \in OutFrames : Append(wire.out, f) = wire.out \o <<f>>
      BY <1>2, StreamTypes DEF Free
<1>4. ASSUME NEW op \in {"rpc", "select", "get", "publish"}, Plain(op)
      PROVE  /\ wire'.in = wire.in /\ blocking'.ready = blocking.ready
             /\ OneReply(app'.call, wire'.out, wire.in, blocking.ready)
  <2> DEFINE f == Frame(op, Number, None, 0)
  <2>1. /\ app'.call.op = op /\ app'.call.n = Number /\ app'.call.tag = None
        /\ f \in OutFrames /\ wire'.out = Append(wire.out, f) /\ wire'.in = wire.in
        BY <1>4, PlainFields
  <2>2. f \in AskedBy(app'.call)
        BY <2>1, MadeTypes DEF AskedBy
  <2> HIDE DEF f
  <2>3. wire'.out = (wire.out \o <<>>) \o <<f>>
        BY <1>3, <2>1
  <2>4. OneReply(app'.call, (wire.out \o <<>>) \o <<f>>, wire.in, blocking.ready)
        BY <1>2, <1>3, <2>2, RequestSent
  <2> QED BY <1>4, <2>1, <2>3, <2>4 DEF Plain
<1>5. ASSUME NEW id \in Deliveries, Settle(id)
      PROVE  /\ wire'.in = wire.in /\ blocking'.ready = blocking.ready
             /\ OneReply(app'.call, wire'.out, wire.in, blocking.ready)
  <2> DEFINE f == Frame("settle", Number, None, id)
  <2>1. /\ f \in OutFrames /\ wire'.out = Append(wire.out, f) /\ wire'.in = wire.in
        /\ blocking' = blocking
        BY <1>5, PlainFields
  <2>2. f \notin Asking
        BY MadeTypes DEF Asking
  <2> HIDE DEF f
  <2>3. <<f>> \in Seq(OutFrames) /\ Free(<<f>>, Asking)
        BY <2>1, <2>2, OneFrame
  <2>4. wire'.out = (wire.out \o <<f>>) \o <<>>
        BY <1>2, <1>3, <2>1, <2>3, StreamTypes
  <2>5. OneReply(app'.call, (wire.out \o <<f>>) \o <<>>, wire.in, blocking.ready)
        BY <1>2, <2>3, RequestSent
  <2> QED BY <2>1, <2>4, <2>5
<1>6. ASSUME NEW tag \in Tags, NEW ackless \in BOOLEAN, Consumes(tag, ackless)
      PROVE  /\ wire'.in = wire.in /\ blocking'.ready = blocking.ready
             /\ OneReply(app'.call, wire'.out, wire.in, blocking.ready)
  <2> DEFINE f == Frame("consume", Number, tag, 0)
  <2>1. /\ app'.call.op = "consume" /\ app'.call.n = Number /\ app'.call.tag = tag
        /\ f \in OutFrames /\ wire'.out = Append(wire.out, f) /\ wire'.in = wire.in
        /\ blocking'.ready = blocking.ready
        BY <1>6, ConsumeFields
  <2>2. f \in AskedBy(app'.call)
        BY <2>1, MadeTypes DEF AskedBy
  <2> HIDE DEF f
  <2>3. wire'.out = (wire.out \o <<>>) \o <<f>>
        BY <1>3, <2>1
  <2>4. OneReply(app'.call, (wire.out \o <<>>) \o <<f>>, wire.in, blocking.ready)
        BY <1>2, <1>3, <2>2, RequestSent
  <2> QED BY <2>1, <2>3, <2>4
<1>7. ASSUME NEW tag \in Tags, NEW n \in 0..Len(blocking.genEvents), Cancels(tag, n)
      PROVE  /\ wire'.in = wire.in /\ blocking'.ready = blocking.ready
             /\ OneReply(app'.call, wire'.out, wire.in, blocking.ready)
  <2> DEFINE f == Frame("cancel", Number, tag, 0)
  <2>1. /\ app'.call.op = "cancel" /\ app'.call.n = Number /\ app'.call.tag = tag
        /\ f \in OutFrames /\ wire'.in = wire.in
        /\ Rejected(tag, n) \in Seq(OutFrames) /\ Free(Rejected(tag, n), Asking)
        /\ wire'.out = wire.out \o Rejected(tag, n) \o CancelFrames(tag)
        /\ blocking'.ready = blocking.ready
        BY <1>7, CancelFields
  <2>2. f \in AskedBy(app'.call)
        BY <2>1, MadeTypes DEF AskedBy
  <2>3. CancelFrames(tag) = <<>> \/ CancelFrames(tag) = <<f>>
        BY DEF CancelFrames
  <2> HIDE DEF f
  <2>4. CancelFrames(tag) = <<>> \/ \E g \in AskedBy(app'.call) : CancelFrames(tag) = <<g>>
        BY <2>2, <2>3
  <2>5. OneReply(app'.call, (wire.out \o Rejected(tag, n)) \o CancelFrames(tag), wire.in,
                 blocking.ready)
        BY <1>2, <2>1, <2>4, RequestSent
  <2> QED BY <2>1, <2>5
<1>8. ASSUME NEW op \in Processing, NEW limited \in BOOLEAN, StartProcessing(op, limited)
      PROVE  /\ wire'.in = wire.in /\ blocking'.ready = blocking.ready
             /\ OneReply(app'.call, wire'.out, wire.in, blocking.ready)
      BY <1>2, <1>8, NoReplyIsOne DEF StartProcessing
<1> QED BY <1>1, <1>4, <1>5, <1>6, <1>7, <1>8

\* Whatever is asked, on its way or ready belongs to the call under way.
LEMMA RepliesKept ==
    ASSUME CallsInv, Next, CallTypes'
    PROVE  OneReply(app.call, wire.out, wire.in, blocking.ready)'
<1> USE DEF CallsInv, CallTypes
<1>1. wire.in \in Seq(InFrames) /\ wire.out \in Seq(OutFrames)
      BY DEF WireType
<1>2. /\ Within(wire.out, wire.out, Asking) /\ Within(wire.in, wire.in, Replying)
      /\ Within(<<>>, wire.out, Asking) /\ Within(<<>>, wire.in, Replying)
      /\ wire.out # <<>> => Within(Tail(wire.out), wire.out, Asking)
      /\ wire.in # <<>> => Within(Tail(wire.in), wire.in, Replying)
      /\ \A f \in OutFrames : f \notin Asking => Within(Append(wire.out, f), wire.out, Asking)
      /\ \A x \in InFrames : x \notin Replying => Within(Append(wire.in, x), wire.in, Replying)
      BY <1>1, WithinBasics
<1>3. CASE AppCalls
      BY <1>3, CallsAsk
<1>4. CASE AppTimers
      BY <1>2, <1>4, OneReplyKept DEF AppTimers, CallLater, RemoveTimeout, AppType
<1>5. CASE Rounds
  <2>1. /\ app'.call.op = app.call.op /\ app'.call.n = app.call.n /\ app'.call.tag = app.call.tag
        BY <1>5, RoundKeeps
  <2>2. CASE EndRound \/ LimitExpires \/ \E t \in Timers : TimerReady(t)
        BY <1>2, <2>1, <2>2, OneReplyKept DEF EndRound, LimitExpires, TimerReady
  <2>3. CASE WriteIgnored \/ OnConnectionClosed
    <3>1. /\ blocking' = blocking
          /\ \/ wire.out # <<>> /\ wire'.out = Tail(wire.out) /\ wire'.in = wire.in
             \/ wire'.out = <<>> /\ wire'.in = <<>>
          BY <2>3 DEF WriteIgnored, OnConnectionClosed, WireType
    <3> QED BY <1>2, <2>1, <3>1, OneReplyKept
  <2>4. CASE Write
    <3> DEFINE f == Head(wire.out)
    <3>1. /\ wire.out # <<>> /\ f \in OutFrames /\ blocking' = blocking
          /\ wire'.out = Tail(wire.out)
          /\ \E frames \in Answers(f) : frames \in Seq(InFrames) /\ wire'.in = wire.in \o frames
          BY <2>4, WriteTypes
    <3>2. PICK frames \in Answers(f) : frames \in Seq(InFrames) /\ wire'.in = wire.in \o frames
          BY <3>1
    <3>3. CASE f \in Asking
      <4>1. OneReply(app.call, Tail(wire.out), wire.in \o frames, blocking.ready)
            BY <3>1, <3>2, <3>3, RequestWritten
      <4>2. /\ AskedBy(app'.call) = AskedBy(app.call) /\ RepliesTo(app'.call) = RepliesTo(app.call)
            /\ KindsOf(app'.call.op) = KindsOf(app.call.op)
            BY <2>1 DEF AskedBy, RepliesTo, KindsOf
      <4>3. OneReply(app'.call, Tail(wire.out), wire.in \o frames, blocking.ready)
            BY <2>1, <4>1, <4>2 DEF OneReply
      <4>4. OneReply(app'.call, wire'.out, wire'.in, blocking'.ready)
            BY <3>1, <3>2, <4>3
      <4> QED BY <4>4
    <3>4. CASE f \notin Asking
      <4>1. f.type = "settle"
            BY <3>1, <3>4 DEF Asking
      <4>2. frames = <<>>
            BY <3>1, <4>1, AnswerShape
      <4>3. wire'.in = wire.in
            BY <1>1, <3>2, <4>2, StreamTypes
      <4> QED BY <1>2, <2>1, <3>1, <4>3, OneReplyKept
    <3> QED BY <3>3, <3>4
  <2>5. CASE Frames
    <3> DEFINE x == Head(wire.in)
    <3>1. /\ wire.in # <<>> /\ x \in InFrames /\ wire'.in = Tail(wire.in)
          /\ \/ GotReply(x) \/ GotReturn(x) \/ GotDelivery(x)
             \/ GotCancel(x) \/ GotClose(x) \/ GotBlocked(x)
          BY <2>5, FrameFields
    <3>2. CASE GotReply(x)
      <4>1. /\ x \in RepliesTo(app.call) /\ \A k \in Kinds : blocking.ready[k] = 0
            /\ Free(wire.out, Asking) /\ Free(Tail(wire.in), Replying)
            BY <3>1, <3>2, HeadReply DEF GotReply
      <4> HIDE DEF x
      <4>2. /\ x.type \in KindsOf(app.call.op) /\ x.n = app.call.n /\ wire'.out = wire.out
            /\ \A k \in Kinds : blocking'.ready[k] # 0 => k = x.type /\ blocking'.ready[k] = x.n
            BY <3>2, <4>1 DEF GotReply, RepliesTo, BlockingType
      <4>3. NoReply(wire'.out, wire'.in, NoResults)
            BY <3>1, <4>1, <4>2 DEF NoReply, NoResults
      <4>4. OneReply(app'.call, wire'.out, wire'.in, NoResults)
            BY <4>3, NoReplyIsOne
      <4>5. OneReply(app'.call, wire'.out, wire'.in, blocking'.ready)
            BY <2>1, <4>2, <4>3, <4>4 DEF OneReply, NoReply
      <4> QED BY <4>5
    <3>3. CASE ~GotReply(x)
      <4> HIDE DEF x
      <4>1. Within(wire'.out, wire.out, Asking)
            BY <1>2, <3>1, <3>3, MadeTypes DEF Asking, GotReturn, GotDelivery, GotCancel,
               GotClose, GotBlocked
      <4>2. \A k \in Kinds : blocking'.ready[k] # 0 => blocking'.ready[k] = blocking.ready[k]
            BY <3>1, <3>3 DEF GotReturn, GotDelivery, GotCancel, GotClose, GotBlocked,
               SameResults, BlockingType
      <4> QED BY <1>2, <2>1, <3>1, <4>1, <4>2, OneReplyKept
    <3> QED BY <3>2, <3>3
  <2> QED BY <1>5, <2>2, <2>3, <2>4, <2>5 DEF Rounds
<1>6. CASE Broker
      BY <1>2, <1>6, BrokerFrames, OneReplyKept DEF Broker, Replying, Kinds
<1>7. CASE Dispatches
      BY <1>7, DispatchKeeps, QuietCall, NoReplyIsOne
<1>8. CASE CallReturns \/ CallRaises
      BY <1>8, NothingLeft, NoReplyIsOne DEF CallReturns, CallRaises
<1> QED BY <1>3, <1>4, <1>5, <1>6, <1>7, <1>8, StepKinds

-----------------------------------------------------------------------------
(* Returned messages.                                                      *)

\* Nothing is returned or replied, and the call stays the same.
LEMMA ReturningKept ==
    ASSUME Returning, Within(wire'.in, wire.in, Replying \cup Returns),
           app'.call.op = app.call.op, app'.call.n = app.call.n,
           HasResult(blocking'.ready) => HasResult(blocking.ready),
           blocking'.confirming = blocking.confirming, blocking'.returned = blocking.returned,
           channel'.state = "open" => channel.state = "open",
           broker'.confirms = broker.confirms
    PROVE  Returning'
      BY DEF Within, Replying, Kinds, Returning

\* A call begins, or goes on, between calls that publish.
LEMMA ReturningBetween ==
    ASSUME Returning, wire'.in = wire.in,
           app.call.op \notin {"publish", "select"},
           app'.call.op # "publish" \/ channel.state = "open",
           HasResult(blocking'.ready) => HasResult(blocking.ready),
           blocking'.confirming = blocking.confirming, blocking'.returned = blocking.returned,
           channel'.state = channel.state, broker'.confirms = broker.confirms
    PROVE  Returning'
      BY DEF Returning, Free

\* The end of a call takes what was returned to it.
LEMMA ReturningEnded ==
    ASSUME CallsInv, CallReturns \/ CallRaises
    PROVE  Returning'
<1> USE DEF CallsInv, CallTypes
<1>1. /\ CallDone /\ wire' = wire /\ channel' = channel /\ broker' = broker
      /\ app.call \in Calls /\ CallShape(app.call) /\ app.call.op \in Answered
      BY DEF CallReturns, CallRaises, CallDone, AppType, CallAndDispatch
<1>2. \A k \in Kinds : blocking'.ready[k] = 0
      BY NothingLeft DEF NoReply
<1>3. ~HasResult(blocking'.ready)
      BY <1>2 DEF HasResult
<1>4. app'.call.op \notin Answered
  <2>1. NoCall.op = "none"
        BY DEF NoCall
  <2>2. CASE CallReturns
        BY <2>1, <2>2 DEF CallReturns, AppType, Calls, Answered
  <2>3. CASE CallRaises
        BY <2>1, <2>3 DEF CallRaises, AppType, Calls, Answered
  <2> QED BY <2>2, <2>3
<1>5. channel.state # "open" => wire.in = <<>>
      BY DEF AtTheEnd
<1>6. PICK raised \in BOOLEAN : /\ blocking' = Ended(app.call, raised)
                                /\ raised <=> channel.state # "open"
      BY DEF CallReturns, CallRaises
<1>7. /\ blocking'.confirming = (blocking.confirming \/ (app.call.op = "select" /\ ~raised))
      /\ blocking'.returned = (IF app.call.op = "publish" /\ ~raised /\ blocking.confirming THEN 0
                               ELSE blocking.returned)
      BY <1>1, <1>6, EndedFields
<1>8. channel.state = "open" /\ app.call.op = "select" => Free(wire.in, Returns)
      BY <1>1 DEF Returning, CallDone, IsDone, AtTheEnd, WaiterReady, Ready, HasResult, Kinds
<1>9. channel.state = "open" /\ app.call.op = "publish" /\ blocking.confirming =>
          Free(wire.in, Returns)
      BY <1>1 DEF Returning, CallDone, IsDone, AtTheEnd, WaiterReady, Ready, HasResult, Kinds
<1>10. blocking'.confirming => Free(wire.in, Returns)
  <2>1. CASE channel.state # "open"
        BY <1>5, <2>1 DEF Free
  <2>2. CASE channel.state = "open" /\ app.call.op \in {"select", "publish"}
        BY <1>7, <1>8, <1>9, <2>2
  <2>3. CASE app.call.op \notin {"select", "publish"}
        BY <1>7, <2>3 DEF Returning
  <2> QED BY <2>1, <2>2, <2>3
<1>11. blocking'.confirming =>
          Free(wire'.in, {f \in Returns : f.n # app'.call.n \/ app'.call.op # "publish"})
      BY <1>1, <1>10 DEF Free
<1>12. app'.call.op # "publish"
      BY <1>4 DEF Answered
<1>13. blocking'.returned # 0 => blocking'.confirming /\ channel'.state # "open"
      BY <1>1, <1>6, <1>7 DEF Returning
<1>14. channel'.state = "open" /\ broker'.confirms => blocking'.confirming
      BY <1>1, <1>6, <1>7 DEF Returning
<1> QED BY <1>1, <1>3, <1>11, <1>12, <1>13, <1>14 DEF Returning

\* An answer comes after all that was returned before.
LEMMA ReturningWritten ==
    ASSUME CallsInv, Write
    PROVE  Returning'
<1> USE DEF CallsInv, CallTypes
<1> DEFINE f == Head(wire.out)
<1>1. /\ wire.out # <<>> /\ f \in OutFrames /\ broker.open
      /\ channel' = channel /\ blocking' = blocking
      /\ broker'.confirms = (broker.confirms \/ f.type = "select")
      /\ app'.call.op = app.call.op /\ app'.call.n = app.call.n
      BY WriteTypes, RoundKeeps DEF Rounds
<1>2. PICK frames \in Answers(f) : frames \in Seq(InFrames) /\ wire'.in = wire.in \o frames
      BY WriteTypes
<1>3. wire.in \in Seq(InFrames)
      BY DEF WireType
<1>4. CASE f \notin Asking
  <2>1. f.type = "settle"
        BY <1>1, <1>4 DEF Asking
  <2>2. frames = <<>>
        BY <1>1, <2>1, AnswerShape
  <2>3. wire'.in = wire.in
        BY <1>2, <1>3, <2>2, StreamTypes
  <2>4. Within(wire'.in, wire.in, Replying \cup Returns)
        BY <1>3, <2>3, WithinBasics
  <2>5. broker'.confirms = broker.confirms
        BY <1>1, <2>1 DEF BrokerType
  <2> QED BY <1>1, <2>4, <2>5, ReturningKept
<1>5. CASE f \in Asking
  <2>1. /\ NoReply(Tail(wire.out), wire.in, blocking.ready)
        /\ f \in AskedBy(app.call)
        /\ NoneAfter(frames, Replying, Replying \cup Returns)
        BY <1>1, <1>2, <1>5, RequestWritten
  <2>2. /\ \A i \in DOMAIN frames :
              /\ frames[i].n = f.n
              /\ frames[i].type = "return" => f.type = "publish"
              /\ frames[i].type = "confirm" => broker.confirms
        BY <1>1, <1>2, AnswerShape
  <2>3. f.n = app.call.n /\ f.type = app.call.op
        BY <2>1 DEF AskedBy
  <2> HIDE DEF f
  <2>4. NoneAfter(wire'.in, Replying, Returns)
    <3>1. NoneAfter(frames, Replying, Returns)
          BY <2>1, UnionFree
    <3>2. NoneAfter(wire.in, Replying, Returns) /\ Free(wire.in, Replying)
          BY <2>1 DEF NoReply, Returning
    <3> QED BY <1>2, <1>3, <3>1, <3>2, JoinNoneAfter
  <2>5. ~HasResult(blocking'.ready)
        BY <1>1, <2>1 DEF NoReply, HasResult
  <2>6. blocking'.confirming =>
            Free(wire'.in, {x \in Returns : x.n # app'.call.n \/ app'.call.op # "publish"})
        BY <1>1, <1>2, <1>3, <2>2, <2>3, JoinFree DEF Free, Returns, Returning
  <2>7. ~broker'.confirms => Free(wire'.in, {x \in InFrames : x.type = "confirm"})
    <3> DEFINE Bad == {x \in InFrames : x.type = "confirm"}
    <3>1. ~broker.confirms => Free(frames, Bad)
          BY <2>2 DEF Free
    <3>2. ~broker.confirms => Free(wire.in, Bad)
          BY DEF Returning
    <3> HIDE DEF Bad
    <3>3. ~broker.confirms => Free(wire'.in, Bad)
          BY <1>2, <1>3, <3>1, <3>2, JoinFree
    <3> QED BY <1>1, <3>3 DEF Bad
  <2>8. /\ blocking'.returned # 0 =>
               /\ blocking'.confirming
               /\ IF app'.call.op = "publish" THEN blocking'.returned = app'.call.n
                  ELSE channel'.state # "open"
        /\ channel'.state = "open" /\ broker'.confirms =>
               blocking'.confirming \/ app'.call.op = "select"
        BY <1>1, <2>3 DEF Returning
  <2> QED BY <2>4, <2>5, <2>6, <2>7, <2>8 DEF Returning
<1> QED BY <1>4, <1>5

\* A returned message belongs to the message under way.
LEMMA ReturningReceived ==
    ASSUME CallsInv, Frames
    PROVE  Returning'
<1> USE DEF CallsInv, CallTypes
<1> DEFINE x == Head(wire.in)
<1>1. /\ wire.in # <<>> /\ x \in InFrames /\ wire'.in = Tail(wire.in) /\ broker' = broker
      /\ \/ GotReply(x) \/ GotReturn(x) \/ GotDelivery(x)
         \/ GotCancel(x) \/ GotClose(x) \/ GotBlocked(x)
      BY FrameFields
<1>2. wire.in \in Seq(InFrames)
      BY DEF WireType
<1>3. Within(wire'.in, wire.in, Replying \cup Returns)
      BY <1>1, <1>2, WithinBasics
<1>4. app'.call.op = app.call.op /\ app'.call.n = app.call.n
      BY RoundKeeps DEF Rounds
<1>5. NoneAfter(wire.in, Replying, Returns)
      BY DEF Returning
<1>6. x \in Replying => Free(wire'.in, Returns)
      BY <1>1, <1>2, <1>5, HeadFrame
<1>7. ASSUME NEW S \in SUBSET (Replying \cup Returns)
      PROVE  /\ Free(wire.in, S) => Free(wire'.in, S) /\ x \notin S
             /\ NoneAfter(wire.in, Replying, Returns) => NoneAfter(wire'.in, Replying, Returns)
  <2>1. Free(wire.in, S) <=> Head(wire.in) \notin S /\ Free(Tail(wire.in), S)
        BY <1>1, <1>2, HeadFrame
  <2>2. NoneAfter(wire.in, Replying, Returns) => NoneAfter(Tail(wire.in), Replying, Returns)
        BY <1>1, <1>2, HeadFrame
  <2> QED BY <1>1, <2>1, <2>2
<1> DEFINE Bad == {f \in Returns : f.n # app.call.n \/ app.call.op # "publish"}
<1>8. blocking.confirming => Free(wire'.in, Bad) /\ x \notin Bad
      BY <1>7 DEF Returning
<1>9. ~broker.confirms => Free(wire'.in, {f \in InFrames : f.type = "confirm"})
      BY <1>7 DEF Replying, Kinds, Returning
<1> HIDE DEF x
<1>10. CASE GotReply(x)
      BY <1>1, <1>4, <1>5, <1>6, <1>7, <1>8, <1>9, <1>10 DEF GotReply, Replying, Returning
<1>11. CASE GotReturn(x)
      BY <1>1, <1>4, <1>5, <1>7, <1>8, <1>9, <1>11 DEF GotReturn, Returns, SameResults,
         Returning
<1>12. CASE ~GotReply(x) /\ ~GotReturn(x)
      BY <1>1, <1>3, <1>4, <1>12, ReturningKept DEF GotDelivery, GotCancel, GotClose,
         GotBlocked, SameResults, BlockingType, HasResult
<1> QED BY <1>10, <1>11, <1>12

\* A returned message stays that of the message it was published with.
LEMMA ReturnsMatch ==
    ASSUME CallsInv, Next, CallTypes'
    PROVE  Returning'
<1> USE DEF CallsInv, CallTypes
<1>1. wire.in \in Seq(InFrames)
      BY DEF WireType
<1>2. /\ Within(wire.in, wire.in, Replying \cup Returns)
      /\ Within(<<>>, wire.in, Replying \cup Returns)
      /\ \A x \in InFrames : x \notin Replying \cup Returns =>
             Within(Append(wire.in, x), wire.in, Replying \cup Returns)
      BY <1>1, WithinBasics
<1>3. CASE AppCalls
      BY <1>3, AppKinds, CallsAsk, ConsumeFields, CancelFields, ReturningBetween DEF NoCall,
         Plain, Settle, StartProcessing
<1>4. CASE AppTimers
      BY <1>2, <1>4, ReturningKept DEF AppTimers, CallLater, RemoveTimeout, AppType
<1>5. CASE Rounds
  <2>1. app'.call.op = app.call.op /\ app'.call.n = app.call.n
        BY <1>5, RoundKeeps
  <2>2. CASE EndRound \/ LimitExpires \/ (\E t \in Timers : TimerReady(t)) \/ WriteIgnored
             \/ OnConnectionClosed
    <3>1. /\ blocking' = blocking /\ broker' = broker /\ wire'.in \in {wire.in, <<>>}
          /\ channel'.state = "open" => channel.state = "open"
      <4>1. CASE OnConnectionClosed
            BY <4>1 DEF OnConnectionClosed, ChannelType
      <4>2. CASE WriteIgnored
            BY <4>2 DEF WriteIgnored, WireType
      <4> QED BY <2>2, <4>1, <4>2 DEF EndRound, LimitExpires, TimerReady
    <3> QED BY <1>2, <2>1, <3>1, ReturningKept
  <2> QED BY <1>5, <2>2, ReturningWritten, ReturningReceived DEF Rounds
<1>6. CASE Broker
      BY <1>2, <1>6, BrokerFrames, ReturningKept DEF Broker, Replying, Kinds, Returns
<1>7. CASE Dispatches
      BY <1>7, DispatchKeeps, ReturningBetween DEF Processing
<1> QED BY <1>3, <1>4, <1>5, <1>6, <1>7, ReturningEnded, StepKinds

-----------------------------------------------------------------------------
(* The lanes of the consumers.                                             *)

Requesting(t) == ConsumesOf(t) \cup CancelsOf(t)

\* A step that adds nothing to a consumer's lane.
SameLane(t) ==
    /\ channel'.tags[t] = channel.tags[t] /\ blocking'.infos[t] = blocking.infos[t]
    /\ t \in broker'.consumers => t \in broker.consumers
    /\ Within(wire'.in, wire.in, About(t)) /\ Within(wire'.out, wire.out, Requesting(t))
    /\ Within(blocking'.pending, blocking.pending, Known(t))
    /\ Within(blocking'.genEvents, blocking.genEvents, Known(t))
    /\ app'.call.op = "cancel" /\ app'.call.tag = t =>
           /\ app.call.op = "cancel" /\ app.call.tag = t
           /\ blocking'.ready["cancelOk"] # 0 => blocking.ready["cancelOk"] # 0
    /\ channel.tags[t] # "none" =>
           /\ t \in GeneratorTags /\ blocking.generator = t => blocking'.generator = t
           /\ t \in channel'.ackless <=> t \in channel.ackless
           /\ t \in blocking'.ackless <=> t \in blocking.ackless

\* Such a step keeps the lane.
LEMMA LaneKept ==
    ASSUME NEW t \in Tags, Lane(t), SameLane(t)
    PROVE  Lane(t)'
<1>1. /\ FramesOf(t, {"brokerCancel"}) \in SUBSET About(t)
      /\ FramesOf(t, {"cancelOk"}) \in SUBSET About(t)
      /\ FramesOf(t, {"brokerCancel", "cancelOk"}) \in SUBSET About(t)
      /\ FramesOf(t, {"brokerCancel", "deliver", "consumeOk"}) \in SUBSET About(t)
      /\ About(t) \in SUBSET About(t)
      BY DEF FramesOf, About
<1>2. /\ ConsumesOf(t) \in SUBSET Requesting(t) /\ CancelsOf(t) \in SUBSET Requesting(t)
      /\ {} \in SUBSET Requesting(t)
      BY DEF Requesting
<1>3. Cancellations(t) \in SUBSET Known(t) /\ Known(t) \in SUBSET Known(t)
      BY DEF Cancellations, Known, EventsOf
<1>4. ASSUME NEW S \in SUBSET About(t), NEW T \in SUBSET About(t)
      PROVE  /\ Free(wire.in, S) => Free(wire'.in, S)
             /\ NoneAfter(wire.in, S, T) => NoneAfter(wire'.in, S, T)
      BY DEF SameLane, Within
<1>5. ASSUME NEW S \in SUBSET Requesting(t)
      PROVE  Free(wire.out, S) => Free(wire'.out, S)
      BY DEF SameLane, Within
<1>6. ASSUME NEW S \in SUBSET Known(t), NEW T \in SUBSET Known(t)
      PROVE  /\ Free(blocking.pending, S) => Free(blocking'.pending, S)
             /\ NoneAfter(blocking.pending, S, T) => NoneAfter(blocking'.pending, S, T)
             /\ Free(blocking.genEvents, S) => Free(blocking'.genEvents, S)
             /\ NoneAfter(blocking.genEvents, S, T) => NoneAfter(blocking'.genEvents, S, T)
      BY DEF SameLane, Within
<1>7. WireLane(t)'
      BY <1>1, <1>2, <1>4, <1>5 DEF Lane, WireLane, SameLane
<1>8. Hearing(t)' => Hearing(t)
      BY <1>1, <1>2, <1>4, <1>5 DEF Hearing, SameLane
<1>9. EventLane(t)'
      BY <1>3, <1>6, <1>8 DEF Lane, EventLane, SameLane
<1> QED BY <1>7, <1>9 DEF Lane, SameLane

\* The steps of the streams and queues that add nothing to a lane.
LEMMA LaneStreams ==
    ASSUME CallTypes, NEW t \in Tags
    PROVE  /\ wire.in \in Seq(InFrames) /\ wire.out \in Seq(OutFrames)
           /\ blocking.pending \in Seq(ChannelEvents)
           /\ blocking.genEvents \in Seq(GeneratorEvents)
           /\ Within(wire.in, wire.in, About(t))
           /\ wire.in # <<>> => Within(Tail(wire.in), wire.in, About(t))
           /\ \A x \in InFrames : x \notin About(t) => Within(Append(wire.in, x), wire.in, About(t))
           /\ \A s \in Seq(InFrames) :
                 Free(s, About(t)) => Within(wire.in \o s, wire.in, About(t))
           /\ Within(wire.out, wire.out, Requesting(t))
           /\ wire.out # <<>> => Within(Tail(wire.out), wire.out, Requesting(t))
           /\ \A f \in OutFrames :
                 f \notin Requesting(t) => Within(Append(wire.out, f), wire.out, Requesting(t))
           /\ \A s \in Seq(OutFrames) :
                 Free(s, Requesting(t)) => Within(wire.out \o s, wire.out, Requesting(t))
           /\ Within(blocking.pending, blocking.pending, Known(t))
           /\ Within(<<>>, blocking.pending, Known(t))
           /\ blocking.pending # <<>> => Within(Tail(blocking.pending), blocking.pending, Known(t))
           /\ \A e \in ChannelEvents :
                 e \notin Known(t) =>
                     Within(Append(blocking.pending, e), blocking.pending, Known(t))
           /\ \A tag : Within(Without(tag), blocking.pending, Known(t))
           /\ Within(blocking.genEvents, blocking.genEvents, Known(t))
           /\ Within(<<>>, blocking.genEvents, Known(t))
           /\ blocking.genEvents # <<>> =>
                 Within(Tail(blocking.genEvents), blocking.genEvents, Known(t))
           /\ \A e \in GeneratorEvents : e \notin Known(t) =>
                 Within(Append(blocking.genEvents, e), blocking.genEvents, Known(t))
           /\ \A n \in 0..Len(blocking.genEvents) :
                 Within(SubSeq(blocking.genEvents, n + 1, Len(blocking.genEvents)),
                        blocking.genEvents, Known(t))
      BY WithinBasics, PendingParts, CutProperties DEF CallTypes, WireType, BlockingType

\* What is about another consumer, or about none.
LEMMA OtherLanes ==
    ASSUME NEW t \in Tags
    PROVE  /\ \A x \in InFrames :
                 x.tag # t \/ x.type \notin {"consumeOk", "deliver", "brokerCancel", "cancelOk"} =>
                     x \notin About(t)
           /\ \A f \in OutFrames : f.tag # t \/ f.type \notin {"consume", "cancel"} =>
                     f \notin Requesting(t)
           /\ Requesting(t) \subseteq Asking
           /\ \A e : e.tag # t \/ e.type \notin {"delivery", "cancellation"} => e \notin Known(t)
      BY DEF About, FramesOf, Requesting, ConsumesOf, CancelsOf, Asking, Known, EventsOf

\* A consumer that is set up, or torn down, joins its lane.
LEMMA ConsumeLanes ==
    ASSUME CallsInv, NEW tag \in Tags, NEW ackless \in BOOLEAN, Consumes(tag, ackless),
           NEW t \in Tags, Lane(t)
    PROVE  Lane(t)'
<1> USE DEF CallTypes
<1> DEFINE f == Frame("consume", Number, tag, 0)
<1>1. /\ blocking.infos[tag] = "none" /\ channel.tags[tag] = "none"
      /\ app'.call.op = "consume"
      /\ f \in OutFrames /\ wire'.out = Append(wire.out, f) /\ wire'.in = wire.in
      /\ broker' = broker /\ blocking'.pending = blocking.pending
      BY ConsumeFields
<1>2. /\ channel'.tags = [channel.tags EXCEPT ![tag] = "consuming"]
      /\ blocking'.infos = [blocking.infos EXCEPT ![tag] = "setting"]
      /\ tag \in channel'.ackless <=> tag \in blocking'.ackless
      /\ \A x \in Tags \ {tag} : /\ x \in channel'.ackless <=> x \in channel.ackless
                                 /\ x \in blocking'.ackless <=> x \in blocking.ackless
      BY ConsumeFields
<1>3. \/ /\ tag \in CallbackTags /\ blocking'.generator = blocking.generator
         /\ blocking'.genEvents = blocking.genEvents
      \/ /\ tag \in GeneratorTags /\ blocking.generator = None
         /\ blocking'.generator = tag /\ blocking'.genEvents = <<>>
      BY ConsumeFields
<1>4. ChannelType /\ BlockingType /\ CallTypes
      BY DEF CallsInv
<1>5. None \notin Tags /\ GeneratorTags \subseteq Tags /\ CallbackTags \cap GeneratorTags = {}
      BY CallNamesAssumption DEF Tags
<1>6. f.type = "consume" /\ f.tag = tag
      BY MadeTypes
<1> HIDE DEF f
<1>7. Within(blocking'.genEvents, blocking.genEvents, Known(t))
      BY <1>3, <1>4, LaneStreams
<1>8. CASE t # tag
      BY <1>1, <1>2, <1>3, <1>4, <1>5, <1>6, <1>7, <1>8, LaneStreams, OtherLanes, LaneKept DEF
         ChannelType, BlockingType, SameLane
<1>9. CASE t = tag
  <2>1. /\ t \notin broker.consumers /\ Free(wire.in, About(t))
        /\ Free(wire.out, ConsumesOf(t)) /\ Free(wire.out, CancelsOf(t))
        BY <1>1, <1>9 DEF Lane, WireLane
  <2>2. channel'.tags[t] = "consuming" /\ blocking'.infos[t] = "setting"
        BY <1>2, <1>4, <1>9 DEF ChannelType, BlockingType
  <2>3. t \in channel'.ackless <=> t \in blocking'.ackless
        BY <1>2, <1>9
  <2>4. Free(wire.in, FramesOf(t, {"cancelOk"}))
        BY <2>1 DEF Free, FramesOf, About
  <2>5. Free(wire'.out, CancelsOf(t))
    <3>1. f \notin CancelsOf(t)
          BY <1>6 DEF CancelsOf
    <3>2. wire.out \in Seq(OutFrames)
          BY DEF CallsInv, WireType
    <3>3. Within(Append(wire.out, f), wire.out, CancelsOf(t))
          BY <1>1, <3>1, <3>2, WithinBasics
    <3> QED BY <1>1, <2>1, <3>3 DEF Within
  <2>6. /\ NoneAfter(wire.in, FramesOf(t, {"brokerCancel"}),
                     FramesOf(t, {"brokerCancel", "deliver", "consumeOk"}))
        /\ NoneAfter(wire.in, FramesOf(t, {"cancelOk"}), About(t))
        BY DEF Lane, WireLane
  <2>7. WireLane(t)'
        BY <1>1, <2>1, <2>2, <2>4, <2>5, <2>6 DEF WireLane
  <2>8. /\ Free(blocking.pending, Cancellations(t))
        /\ NoneAfter(blocking.pending, Cancellations(t), Known(t))
        BY <1>1, <1>9 DEF Lane, EventLane, Free, Cancellations, Known, EventsOf
  <2>9. /\ Free(blocking'.genEvents, Cancellations(t))
        /\ NoneAfter(blocking'.genEvents, Cancellations(t), Known(t))
        BY <1>3, <1>4, <1>5, <1>9, ElementOfSeq DEF BlockingType, GeneratorEvents, Free,
           Cancellations, EventsOf, NoneAfter
  <2>10. EventLane(t)'
        BY <1>1, <2>2, <2>8, <2>9 DEF EventLane
  <2>11. t \in GeneratorTags => blocking'.generator = t
        BY <1>3, <1>5, <1>9
  <2>12. Fits(blocking'.infos[t], channel'.tags[t])
        BY <2>2 DEF Fits
  <2>13. ~(app'.call.op = "cancel" /\ app'.call.tag = t)
        BY <1>1
  <2> QED BY <2>3, <2>7, <2>10, <2>11, <2>12, <2>13 DEF Lane
<1> QED BY <1>8, <1>9

\* What a consumer that is torn down leaves of its lane.
LEMMA CancelLanes ==
    ASSUME CallsInv, NEW tag \in Tags, NEW n \in 0..Len(blocking.genEvents), Cancels(tag, n),
           NEW t \in Tags, Lane(t)
    PROVE  Lane(t)'
<1>1. /\ blocking.infos[tag] \in {"active", "cancelled"}
      /\ app'.call.op = "cancel" /\ app'.call.tag = tag
      /\ Rejected(tag, n) \in Seq(OutFrames) /\ CancelFrames(tag) \in Seq(OutFrames)
      /\ Free(Rejected(tag, n), Asking) /\ wire'.in = wire.in
      /\ wire'.out = wire.out \o Rejected(tag, n) \o CancelFrames(tag)
      /\ broker' = broker /\ CanCall
      BY CancelFields
<1>2. /\ channel'.ackless = channel.ackless /\ blocking'.ackless = blocking.ackless
      /\ channel'.tags = (IF channel.tags[tag] = "consuming"
                          THEN [channel.tags EXCEPT ![tag] = "cancelling"] ELSE channel.tags)
      /\ blocking'.infos = [blocking.infos EXCEPT ![tag] = "tearing"]
      /\ blocking'.ready = blocking.ready /\ blocking'.generator = blocking.generator
      BY CancelFields
<1>3. /\ blocking'.pending = (IF tag \notin blocking.ackless THEN Without(tag)
                              ELSE blocking.pending)
      /\ blocking'.genEvents = (IF tag \notin blocking.ackless
                                THEN SubSeq(blocking.genEvents, n + 1, Len(blocking.genEvents))
                                ELSE blocking.genEvents)
      BY CancelFields
<1>4. ChannelType /\ BlockingType /\ CallTypes /\ wire.out \in Seq(OutFrames)
      BY DEF CallsInv, CallTypes, WireType
<1>5. /\ Within(wire'.in, wire.in, About(t))
      /\ Within(blocking'.pending, blocking.pending, Known(t))
      /\ Within(blocking'.genEvents, blocking.genEvents, Known(t))
      BY <1>1, <1>3, <1>4, LaneStreams
<1> DEFINE s == Rejected(tag, n) \o CancelFrames(tag)
           f == Frame("cancel", Number, tag, 0)
<1>6. wire'.out = wire.out \o s /\ s \in Seq(OutFrames)
  <2>1. s \in Seq(OutFrames)
        BY <1>1, ConcatProperties
  <2> DEFINE a == wire.out
             b == Rejected(tag, n)
             c == CancelFrames(tag)
  <2>2. a \in Seq(OutFrames) /\ b \in Seq(OutFrames) /\ c \in Seq(OutFrames)
        BY <1>1, <1>4
  <2> HIDE DEF a, b, c
  <2>3. (a \o b) \o c = a \o (b \o c)
        BY <2>2, ConcatAssociative
  <2>4. (wire.out \o Rejected(tag, n)) \o CancelFrames(tag) = wire.out \o s
        BY <2>3 DEF a, b, c
  <2> QED BY <1>1, <2>1, <2>4
<1>7. /\ \A i \in DOMAIN CancelFrames(tag) : CancelFrames(tag)[i] = f
      /\ f.type = "cancel" /\ f.tag = tag
      /\ channel.tags[tag] # "consuming" => CancelFrames(tag) = <<>>
      BY MadeTypes DEF CancelFrames
<1> HIDE DEF f
<1>8. ASSUME NEW S \in SUBSET Asking, f \notin S \/ channel.tags[tag] # "consuming"
      PROVE  Within(wire'.out, wire.out, S)
  <2>1. Free(Rejected(tag, n), S) /\ Free(CancelFrames(tag), S)
        BY <1>1, <1>7, <1>8 DEF Free
  <2>2. Free(s, S)
        BY <1>1, <2>1, JoinFree
  <2> HIDE DEF s
  <2> QED BY <1>4, <1>6, <2>2, WithinBasics
<1> HIDE DEF s
<1>9. channel.tags \in [Tags -> {"none", "consuming", "cancelling"}]
      /\ blocking.infos \in [Tags -> Infos]
      BY <1>4 DEF ChannelType, BlockingType
<1>10. CASE t # tag
      BY <1>1, <1>2, <1>5, <1>7, <1>8, <1>9, <1>10, LaneKept DEF Requesting, ConsumesOf,
         CancelsOf, Asking, SameLane
<1>11. CASE t = tag
  <2>1. blocking'.infos[t] = "tearing"
        BY <1>2, <1>9, <1>11
  <2>2. \/ channel.tags[t] = "none" /\ channel'.tags[t] = "none"
        \/ channel.tags[t] = "consuming" /\ channel'.tags[t] = "cancelling"
        BY <1>1, <1>2, <1>9, <1>11 DEF Lane, Fits
  <2>3. ConsumesOf(t) \in SUBSET Asking /\ CancelsOf(t) \in SUBSET Asking /\ f \notin ConsumesOf(t)
        BY <1>7 DEF ConsumesOf, CancelsOf, Asking
  <2>4. /\ Free(wire.out, ConsumesOf(t)) => Free(wire'.out, ConsumesOf(t))
        /\ channel.tags[t] = "none" /\ Free(wire.out, CancelsOf(t)) => Free(wire'.out, CancelsOf(t))
        BY <1>8, <1>11, <2>3 DEF Within
  <2>5. Free(wire.out, ConsumesOf(t))
        BY <1>1, <1>11 DEF Lane, WireLane
  <2>6. WireLane(t)'
        BY <1>1, <2>1, <2>2, <2>4, <2>5 DEF Lane, WireLane
  <2>7. Hearing(t)' => Hearing(t)
        BY <1>1, <2>4, <2>5 DEF Hearing
  <2>8. EventLane(t)'
        BY <1>5, <2>1, <2>2, <2>7 DEF Cancellations, Known, EventsOf, Within, Lane, EventLane
  <2>9. blocking'.ready["cancelOk"] = 0
        BY <1>1, <1>2, QuietCall DEF CanCall, Idle, NoCall, CallsInv, NoReply, Kinds
  <2>10. /\ t \in GeneratorTags /\ channel'.tags[t] # "none" => blocking'.generator = t
         /\ channel'.tags[t] # "none" => (t \in channel'.ackless <=> t \in blocking'.ackless)
        BY <1>2, <2>2 DEF Lane
  <2>11. Fits(blocking'.infos[t], channel'.tags[t])
        BY <2>1, <2>2 DEF Fits
  <2> QED BY <2>1, <2>6, <2>8, <2>9, <2>10, <2>11 DEF Lane
<1> QED BY <1>10, <1>11

\* The calls of the application.
LEMMA CallLanes ==
    ASSUME CallsInv, AppCalls, NEW t \in Tags, Lane(t)
    PROVE  Lane(t)'
<1>1. CallTypes
      BY DEF CallsInv
<1>2. ASSUME wire'.in = wire.in, blocking' = blocking, broker' = broker,
             channel'.tags = channel.tags, channel'.ackless = channel.ackless,
             wire'.out = wire.out \/ \E f \in OutFrames : /\ f.type \notin {"consume", "cancel"}
                                                          /\ wire'.out = Append(wire.out, f),
             app'.call.op # "cancel"
      PROVE  Lane(t)'
      BY <1>1, <1>2, LaneStreams, OtherLanes, LaneKept DEF SameLane
<1>3. ASSUME NEW op \in {"rpc", "select", "get", "publish"}, Plain(op)
      PROVE  Lane(t)'
      BY <1>2, <1>3, PlainFields, MadeTypes DEF Plain
<1>4. ASSUME NEW id \in Deliveries, Settle(id)
      PROVE  Lane(t)'
      BY <1>2, <1>4, PlainFields, MadeTypes
<1>5. ASSUME NEW op \in Processing, NEW limited \in BOOLEAN, StartProcessing(op, limited)
      PROVE  Lane(t)'
      BY <1>2, <1>5, PlainFields DEF Processing
<1> QED BY <1>3, <1>4, <1>5, AppKinds, ConsumeLanes, CancelLanes

\* What the broker reads of a consumer, and answers.
LEMMA WriteLanes ==
    ASSUME CallsInv, Write, NEW t \in Tags, Lane(t)
    PROVE  Lane(t)'
<1> DEFINE f == Head(wire.out)
<1>1. CallTypes /\ CallAndDispatch /\ OneReply(app.call, wire.out, wire.in, blocking.ready)
      BY DEF CallsInv
<1>2. /\ wire.out # <<>> /\ f \in OutFrames
      /\ channel' = channel /\ blocking' = blocking /\ wire'.out = Tail(wire.out)
      /\ broker'.consumers = CASE f.type = "consume" -> broker.consumers \cup {f.tag}
                               [] f.type = "cancel" -> broker.consumers \ {f.tag}
                               [] OTHER -> broker.consumers
      BY <1>1, WriteTypes
<1>3. PICK frames \in Answers(f) : frames \in Seq(InFrames) /\ wire'.in = wire.in \o frames
      BY <1>1, WriteTypes
<1>4. app'.call.op = app.call.op /\ app'.call.tag = app.call.tag
      BY <1>1, RoundKeeps DEF Rounds
<1>5. /\ \A i \in DOMAIN frames :
            /\ frames[i].type \notin {"deliver", "brokerCancel"}
            /\ frames[i].type = "consumeOk" => f.type = "consume" /\ frames[i].tag = f.tag
            /\ frames[i].type = "cancelOk" => f.type = "cancel" /\ frames[i].tag = f.tag
            /\ f.type = "consume" => frames[i].type = "consumeOk"
            /\ f.type = "cancel" => frames[i].type = "cancelOk"
      /\ NoneAfter(frames, Replying, Replying \cup Returns)
  <2>1. /\ \A i \in DOMAIN frames :
              /\ \/ frames[i].type = "return" /\ f.type = "publish"
                 \/ frames[i].type = "confirm" /\ f.type = "publish" /\ broker.confirms
                 \/ frames[i].type = "ok" /\ f.type \in {"rpc", "select"}
                 \/ frames[i].type = "consumeOk" /\ f.type = "consume"
                 \/ frames[i].type = "cancelOk" /\ f.type = "cancel"
                 \/ frames[i].type \in {"getOk", "getEmpty"} /\ f.type = "get"
              /\ frames[i].type # "getOk" => frames[i].tag = f.tag
        /\ NoneAfter(frames, Replying, Replying \cup Returns)
        BY <1>1, <1>2, <1>3, AnswerShape
  <2> HIDE DEF f
  <2> QED BY <2>1
<1>6. wire.in \in Seq(InFrames) /\ wire.out \in Seq(OutFrames)
      BY <1>1 DEF CallTypes, WireType
<1>7. /\ Within(wire'.out, wire.out, Requesting(t))
      /\ Within(blocking'.pending, blocking.pending, Known(t))
      /\ Within(blocking'.genEvents, blocking.genEvents, Known(t))
      BY <1>1, <1>2, LaneStreams
<1>8. /\ f \in Requesting(t) => f.tag = t /\ f.type \in {"consume", "cancel"}
      /\ f.tag = t /\ f.type = "consume" => f \in ConsumesOf(t)
      /\ f.tag = t /\ f.type = "cancel" => f \in CancelsOf(t)
      BY <1>2 DEF Requesting, ConsumesOf, CancelsOf
<1>9. f.type \in {"consume", "cancel"} /\ f.tag = t =>
          /\ Free(wire'.out, ConsumesOf(t)) /\ Free(wire'.out, CancelsOf(t))
          /\ Free(wire.in, Replying)
      BY <1>1, <1>2, <1>3, RequestWritten DEF Asking, NoReply, Free, ConsumesOf, CancelsOf
<1>10. /\ f.type = "consume" /\ f.tag = t => ~Free(wire.out, ConsumesOf(t))
       /\ f.type = "cancel" /\ f.tag = t => ~Free(wire.out, CancelsOf(t))
      BY <1>2, <1>6, <1>8, HeadFrame
<1> HIDE DEF f
<1>11. CASE f.type \notin {"consume", "cancel"} \/ f.tag # t
      BY <1>1, <1>2, <1>3, <1>4, <1>5, <1>7, <1>11, LaneStreams, LaneKept DEF Free, About,
         FramesOf, SameLane
<1>12. CASE f.type = "consume" /\ f.tag = t
  <2>1. /\ blocking.infos[t] = "setting" /\ Free(wire.in, About(t))
        /\ channel.tags[t] = "consuming"
        BY <1>10, <1>12 DEF Lane, WireLane, Fits
  <2>2. ASSUME NEW S \in SUBSET About(t), \A x \in S : x.type # "consumeOk"
        PROVE  Free(wire'.in, S) /\ \A T : NoneAfter(wire'.in, S, T)
    <3>1. Free(frames, S)
          BY <1>5, <1>12, <2>2 DEF Free
    <3>2. Free(wire.in, S)
          BY <2>1, <2>2 DEF Free
    <3>3. Free(wire'.in, S)
          BY <1>3, <1>6, <3>1, <3>2, JoinFree
    <3> QED BY <3>3 DEF Free, NoneAfter
  <2>3. /\ FramesOf(t, {"brokerCancel", "cancelOk"}) \in SUBSET About(t)
        /\ FramesOf(t, {"brokerCancel"}) \in SUBSET About(t)
        /\ FramesOf(t, {"cancelOk"}) \in SUBSET About(t)
        /\ \A x \in FramesOf(t, {"brokerCancel", "cancelOk"}) : x.type # "consumeOk"
        /\ \A x \in FramesOf(t, {"brokerCancel"}) : x.type # "consumeOk"
        /\ \A x \in FramesOf(t, {"cancelOk"}) : x.type # "consumeOk"
        BY DEF FramesOf, About
  <2>4. /\ Free(wire'.in, FramesOf(t, {"brokerCancel", "cancelOk"}))
        /\ Free(wire'.in, FramesOf(t, {"cancelOk"}))
        /\ NoneAfter(wire'.in, FramesOf(t, {"brokerCancel"}),
                     FramesOf(t, {"brokerCancel", "deliver", "consumeOk"}))
        /\ NoneAfter(wire'.in, FramesOf(t, {"cancelOk"}), About(t))
        BY <2>2, <2>3
  <2>5. WireLane(t)'
        BY <1>2, <1>9, <1>12, <2>1, <2>4 DEF WireLane
  <2>6. EventLane(t)'
        BY <1>2, <2>1 DEF Lane, EventLane
  <2> QED BY <1>2, <1>4, <2>5, <2>6 DEF Lane
<1>13. CASE f.type = "cancel" /\ f.tag = t
  <2>1. channel.tags[t] = "cancelling"
        BY <1>10, <1>13 DEF Lane, WireLane
  <2>2. t \notin broker'.consumers
        BY <1>2, <1>13
  <2>3. /\ FramesOf(t, {"brokerCancel"}) \in SUBSET About(t)
        /\ FramesOf(t, {"cancelOk"}) \in SUBSET Replying
        BY DEF FramesOf, About, Replying, Kinds
  <2>4. Free(frames, FramesOf(t, {"brokerCancel", "deliver", "consumeOk"}))
        BY <1>5, <1>13 DEF Free, FramesOf
  <2>5. NoneAfter(wire'.in, FramesOf(t, {"brokerCancel"}),
                  FramesOf(t, {"brokerCancel", "deliver", "consumeOk"}))
        BY <1>3, <1>6, <2>4, JoinNoneAfter DEF Free, NoneAfter, Lane, WireLane
  <2>6. NoneAfter(wire'.in, FramesOf(t, {"cancelOk"}), About(t))
        BY <1>3, <1>5, <1>6, <1>9, <1>13, <2>3, JoinNoneAfter DEF Free, NoneAfter, About,
           FramesOf, Replying, Kinds
  <2>7. WireLane(t)'
        BY <1>2, <1>9, <1>13, <2>1, <2>2, <2>5, <2>6 DEF WireLane
  <2>8. Hearing(t)' => Hearing(t)
        BY <1>3, <1>5, <1>6, <1>9, <1>13, <2>2, JoinFree DEF Free, FramesOf, Hearing
  <2>9. EventLane(t)'
        BY <1>2, <2>8 DEF Lane, EventLane
  <2> QED BY <1>2, <1>4, <2>7, <2>9 DEF Lane
<1> QED BY <1>11, <1>12, <1>13

\* What the broker sends of a consumer.
LEMMA BrokerLanes ==
    ASSUME CallsInv, Broker, NEW t \in Tags, Lane(t)
    PROVE  Lane(t)'
<1>1. CallTypes /\ wire.in \in Seq(InFrames)
      BY DEF CallsInv, CallTypes, WireType
<1>2. /\ channel' = channel /\ blocking' = blocking /\ app' = app /\ wire'.out = wire.out
      BY <1>1, BrokerFrames DEF Broker
<1>3. PICK x \in InFrames :
          /\ wire'.in = Append(wire.in, x)
          /\ \/ x.type = "close" /\ broker'.consumers = {}
             \/ x.type = "blocked" /\ broker'.consumers = broker.consumers
             \/ /\ x.type = "brokerCancel" /\ x.tag \in broker.consumers
                /\ broker'.consumers = broker.consumers \ {x.tag}
             \/ /\ x.type = "deliver" /\ x.tag \in broker.consumers
                /\ broker'.consumers = broker.consumers
      BY <1>1, BrokerFrames DEF Broker
<1>4. /\ Within(wire'.out, wire.out, Requesting(t))
      /\ Within(blocking'.pending, blocking.pending, Known(t))
      /\ Within(blocking'.genEvents, blocking.genEvents, Known(t))
      BY <1>1, <1>2, LaneStreams
<1>5. CASE x.type \in {"close", "blocked"} \/ x.tag # t
      BY <1>1, <1>2, <1>3, <1>4, <1>5, LaneStreams, LaneKept DEF About, FramesOf, SameLane
<1>6. CASE x.type \in {"brokerCancel", "deliver"} /\ x.tag = t
      BY <1>1, <1>2, <1>3, <1>6, AppendFrame, WithinBasics DEF Lane, WireLane, Free, FramesOf,
         Within, EventLane, Hearing
<1> QED BY <1>3, <1>5, <1>6

\* A frame at the head of the stream, and what follows it.
LEMMA HeadOfLane ==
    ASSUME CallTypes, wire.in # <<>>, wire'.in = Tail(wire.in), NEW t \in Tags
    PROVE  /\ Within(wire'.in, wire.in, About(t))
           /\ \A S : /\ Head(wire.in) \in S => ~Free(wire.in, S)
                     /\ Free(wire.in, S) => Free(wire'.in, S)
           /\ \A S, T : NoneAfter(wire.in, S, T) /\ Head(wire.in) \in S => Free(wire'.in, T)
      BY WithinBasics, HeadFrame DEF CallTypes, WireType

\* Cancel-Ok takes the consumer out of its lane.
LEMMA ReplyLanes ==
    ASSUME CallsInv, Frames, GotReply(Head(wire.in)), NEW t \in Tags, Lane(t)
    PROVE  Lane(t)'
<1> DEFINE x == Head(wire.in)
<1>1. CallTypes /\ ChannelType /\ BlockingType /\ WireType
      /\ OneReply(app.call, wire.out, wire.in, blocking.ready)
      BY DEF CallsInv, CallTypes
<1>2. /\ wire.in # <<>> /\ x \in InFrames /\ wire'.in = Tail(wire.in) /\ broker' = broker
      BY <1>1, FrameFields
<1>3. app'.call.op = app.call.op /\ app'.call.tag = app.call.tag
      BY <1>1, RoundKeeps DEF Rounds
<1>4. /\ Within(wire'.in, wire.in, About(t))
      /\ \A S : x \in S => ~Free(wire.in, S)
      /\ \A S, T : NoneAfter(wire.in, S, T) /\ x \in S => Free(wire'.in, T)
      BY <1>1, <1>2, HeadOfLane
<1>5. x \in RepliesTo(app.call) /\ Free(wire.out, Asking)
      BY <1>1, <1>2, HeadReply DEF GotReply
<1> HIDE DEF x
<1>6. /\ wire'.out = wire.out /\ SameQueues /\ SameConsumers
      /\ blocking'.ready = [blocking.ready EXCEPT ![x.type] = x.n]
      /\ IF x.type = "cancelOk"
         THEN /\ x.tag \in Tags /\ channel'.tags = [channel.tags EXCEPT ![x.tag] = "none"]
              /\ channel'.ackless = channel.ackless \ {x.tag}
         ELSE channel'.tags = channel.tags /\ channel'.ackless = channel.ackless
      BY DEF GotReply, x
<1>7. x.type \in KindsOf(app.call.op) /\ x.tag = app.call.tag
      BY <1>5 DEF RepliesTo
<1>8. /\ Within(wire'.out, wire.out, Requesting(t))
      /\ Within(blocking'.pending, blocking.pending, Known(t))
      /\ Within(blocking'.genEvents, blocking.genEvents, Known(t))
      BY <1>1, <1>6, LaneStreams DEF SameQueues
<1>9. CASE x.type # "cancelOk" \/ x.tag # t
      BY <1>1, <1>2, <1>3, <1>4, <1>6, <1>7, <1>8, <1>9, LaneKept DEF ChannelType, BlockingType,
         Kinds, SameLane, SameConsumers
<1>10. CASE x.type = "cancelOk" /\ x.tag = t
  <2>1. x \in FramesOf(t, {"cancelOk"}) /\ x \in FramesOf(t, {"brokerCancel", "cancelOk"})
        BY <1>2, <1>10 DEF FramesOf
  <2>2. ~Free(wire.in, FramesOf(t, {"cancelOk"}))
        BY <1>4, <2>1
  <2>3. channel.tags[t] = "cancelling" /\ t \notin broker.consumers
        BY <1>4, <2>1, <2>2 DEF Lane, WireLane
  <2>4. Free(wire'.in, About(t))
        BY <1>4, <2>1 DEF Lane, WireLane
  <2>5. Free(wire'.out, ConsumesOf(t)) /\ Free(wire'.out, CancelsOf(t))
        BY <1>5, <1>6 DEF Free, ConsumesOf, CancelsOf, Asking
  <2>6. channel'.tags[t] = "none" /\ blocking'.infos[t] = "tearing"
        BY <1>1, <1>6, <1>10, <2>3 DEF ChannelType, SameConsumers, Lane, Fits
  <2>7. /\ Free(wire'.in, FramesOf(t, {"brokerCancel"}))
        /\ Free(wire'.in, FramesOf(t, {"cancelOk"}))
        BY <2>4 DEF Free, FramesOf, About
  <2>8. /\ NoneAfter(wire'.in, FramesOf(t, {"brokerCancel"}),
                     FramesOf(t, {"brokerCancel", "deliver", "consumeOk"}))
        /\ NoneAfter(wire'.in, FramesOf(t, {"cancelOk"}), About(t))
        BY <2>7 DEF Free, NoneAfter
  <2>9. WireLane(t)'
        BY <1>2, <2>3, <2>4, <2>5, <2>6, <2>7, <2>8 DEF WireLane
  <2>10. ~Hearing(t)'
        BY <1>2, <2>3, <2>5, <2>7 DEF Hearing
  <2>11. EventLane(t)'
        BY <1>6, <2>6, <2>10 DEF Lane, EventLane, SameQueues
  <2>12. Fits(blocking'.infos[t], channel'.tags[t])
        BY <2>6 DEF Fits
  <2> QED BY <2>6, <2>9, <2>11, <2>12 DEF Lane
<1> QED BY <1>9, <1>10

\* An event is added at the end of its queue.
LEMMA AddedLane ==
    ASSUME CallTypes, NEW tag \in Tags \cup {None}, NEW e, Added(tag, e), NEW t \in Tags
    PROVE  /\ e \notin Known(t) =>
                  /\ Within(blocking'.pending, blocking.pending, Known(t))
                  /\ Within(blocking'.genEvents, blocking.genEvents, Known(t))
           /\ (/\ Free(blocking.pending, Cancellations(t))
               /\ Free(blocking.genEvents, Cancellations(t))) =>
                  /\ NoneAfter(blocking'.pending, Cancellations(t), Known(t))
                  /\ NoneAfter(blocking'.genEvents, Cancellations(t), Known(t))
                  /\ e.type # "cancellation" =>
                         /\ Free(blocking'.pending, Cancellations(t))
                         /\ Free(blocking'.genEvents, Cancellations(t))
<1>1. /\ blocking.pending \in Seq(ChannelEvents) /\ blocking.genEvents \in Seq(GeneratorEvents)
      BY LaneStreams
<1>2. /\ \/ blocking'.pending = blocking.pending
         \/ e \in ChannelEvents /\ blocking'.pending = Append(blocking.pending, e)
      /\ \/ blocking'.genEvents = blocking.genEvents
         \/ e \in GeneratorEvents /\ blocking'.genEvents = Append(blocking.genEvents, e)
      BY DEF Added
<1>3. e \notin Known(t) =>
          /\ Within(blocking'.pending, blocking.pending, Known(t))
          /\ Within(blocking'.genEvents, blocking.genEvents, Known(t))
      BY <1>2, LaneStreams
<1>4. ASSUME NEW U, NEW q \in Seq(U), NEW p, p = q \/ (e \in U /\ p = Append(q, e)),
             Free(q, Cancellations(t))
      PROVE  /\ NoneAfter(p, Cancellations(t), Known(t))
             /\ e.type # "cancellation" => Free(p, Cancellations(t))
  <2>1. NoneAfter(q, Cancellations(t), Known(t))
        BY <1>4 DEF Free, NoneAfter
  <2>2. e.type # "cancellation" => e \notin Cancellations(t)
        BY DEF Cancellations, EventsOf
  <2>3. CASE e \in U /\ p = Append(q, e)
        BY <1>4, <2>1, <2>2, <2>3, AppendFrame
  <2> QED BY <1>4, <2>1, <2>3
<1> QED BY <1>1, <1>2, <1>3, <1>4

\* A delivery comes before the cancellation of its consumer.
LEMMA DeliveryLanes ==
    ASSUME CallsInv, Frames, GotDelivery(Head(wire.in)), NEW t \in Tags, Lane(t)
    PROVE  Lane(t)'
<1> DEFINE x == Head(wire.in)
           e == Event("delivery", x.tag, x.id)
<1>1. CallTypes
      BY DEF CallsInv
<1>2. /\ wire.in # <<>> /\ wire'.in = Tail(wire.in) /\ broker' = broker
      BY <1>1, FrameFields
<1>3. app'.call.op = app.call.op /\ app'.call.tag = app.call.tag
      BY <1>1, RoundKeeps DEF Rounds
<1>4. /\ Within(wire'.in, wire.in, About(t))
      /\ \A S : Free(wire.in, S) => Free(wire'.in, S)
      BY <1>1, <1>2, HeadOfLane
<1>5. e.type = "delivery" /\ e.tag = x.tag
      BY EventTypes
<1> HIDE DEF x, e
<1>6. /\ channel' = channel /\ SameConsumers /\ SameResults /\ x.tag \in Tags
      /\ \/ wire'.out = wire.out
         \/ /\ Frame("settle", 0, None, x.id) \in OutFrames
            /\ wire'.out = Append(wire.out, Frame("settle", 0, None, x.id))
      /\ SameQueues \/ (Added(x.tag, e) /\ channel.tags[x.tag] = "consuming")
      BY DEF GotDelivery, x, e
<1>7. Within(wire'.out, wire.out, Requesting(t))
  <2>1. Frame("settle", 0, None, x.id).type = "settle"
        BY MadeTypes
  <2> QED BY <1>1, <1>6, <2>1, LaneStreams, OtherLanes
<1>8. ASSUME Within(blocking'.pending, blocking.pending, Known(t)),
             Within(blocking'.genEvents, blocking.genEvents, Known(t))
      PROVE  Lane(t)'
      BY <1>2, <1>3, <1>4, <1>6, <1>7, <1>8, LaneKept DEF SameLane, SameConsumers, SameResults
<1>9. CASE SameQueues
      BY <1>1, <1>8, <1>9, LaneStreams DEF SameQueues
<1>10. CASE Added(x.tag, e) /\ x.tag # t
      BY <1>1, <1>5, <1>6, <1>8, <1>10, OtherLanes, AddedLane
<1>11. CASE Added(x.tag, e) /\ x.tag = t /\ channel.tags[t] = "consuming"
      BY <1>1, <1>2, <1>3, <1>4, <1>5, <1>6, <1>7, <1>11, AddedLane DEF Lane, EventLane,
         SameConsumers, Fits, Within, Requesting, About, FramesOf, WireLane, SameResults
<1> QED BY <1>6, <1>9, <1>10, <1>11

\* The broker's cancellation is the last of its consumer.
LEMMA CancelledLanes ==
    ASSUME CallsInv, Frames, GotCancel(Head(wire.in)), NEW t \in Tags, Lane(t)
    PROVE  Lane(t)'
<1> DEFINE x == Head(wire.in)
           e == Event("cancellation", x.tag, 0)
<1>1. CallTypes /\ ChannelType /\ BlockingType /\ OwnConsumer
      BY DEF CallsInv, CallTypes
<1>2. /\ wire.in # <<>> /\ x \in InFrames /\ wire'.in = Tail(wire.in) /\ broker' = broker
      BY <1>1, FrameFields
<1>3. app'.call.op = app.call.op /\ app'.call.tag = app.call.tag
      BY <1>1, RoundKeeps DEF Rounds
<1>4. /\ Within(wire'.in, wire.in, About(t))
      /\ \A S : x \in S => ~Free(wire.in, S)
      /\ \A S : Free(wire.in, S) => Free(wire'.in, S)
      /\ \A S, T : NoneAfter(wire.in, S, T) /\ x \in S => Free(wire'.in, T)
      BY <1>1, <1>2, HeadOfLane
<1>5. e.type = "cancellation" /\ e.tag = x.tag
      BY EventTypes
<1> HIDE DEF x, e
<1>6. /\ x.type = "brokerCancel" /\ x.tag \in Tags /\ wire'.out = wire.out
      /\ SameResults /\ blocking'.generator = blocking.generator
      /\ blocking'.ackless = blocking.ackless
      /\ IF channel.tags[x.tag] = "cancelling"
         THEN channel'.tags = channel.tags /\ channel'.ackless = channel.ackless
         ELSE /\ channel'.tags = [channel.tags EXCEPT ![x.tag] = "none"]
              /\ channel'.ackless = channel.ackless \ {x.tag}
      /\ blocking'.infos =
             [blocking.infos EXCEPT ![x.tag] = IF @ = "tearing" THEN @ ELSE "cancelled"]
      /\ Added(x.tag, e)
      BY DEF GotCancel, x, e
<1>7. Within(wire'.out, wire.out, Requesting(t)) /\ x.tag \in Tags \cup {None}
      BY <1>1, <1>6, LaneStreams
<1>8. CASE x.tag # t
      BY <1>1, <1>2, <1>3, <1>4, <1>5, <1>6, <1>7, <1>8, OtherLanes, AddedLane, LaneKept DEF
         ChannelType, BlockingType, SameLane, SameResults
<1>9. CASE x.tag = t
  <2>1. /\ x \in FramesOf(t, {"brokerCancel"}) /\ x \in FramesOf(t, {"brokerCancel", "cancelOk"})
        /\ x \in About(t)
        BY <1>2, <1>6, <1>9 DEF FramesOf, About
  <2>2. /\ ~Free(wire.in, FramesOf(t, {"brokerCancel"}))
        /\ ~Free(wire.in, FramesOf(t, {"brokerCancel", "cancelOk"})) /\ ~Free(wire.in, About(t))
        BY <1>4, <2>1
  <2>3. /\ t \notin broker.consumers /\ channel.tags[t] # "none" /\ Hearing(t)
        /\ Free(wire.out, ConsumesOf(t))
        BY <2>2 DEF Lane, WireLane, Hearing
  <2>4. Free(wire'.in, FramesOf(t, {"brokerCancel", "deliver", "consumeOk"}))
        BY <1>4, <2>1 DEF Lane, WireLane
  <2>5. Free(wire'.in, FramesOf(t, {"brokerCancel"}))
        BY <2>4 DEF Free, FramesOf
  <2>6. NoneAfter(wire'.in, FramesOf(t, {"brokerCancel"}),
                  FramesOf(t, {"brokerCancel", "deliver", "consumeOk"}))
        BY <2>5 DEF Free, NoneAfter
  <2>7. NoneAfter(wire'.in, FramesOf(t, {"cancelOk"}), About(t))
        BY <1>4 DEF Lane, WireLane, Within, FramesOf, About
  <2>8. /\ Free(blocking.pending, Cancellations(t)) /\ Free(blocking.genEvents, Cancellations(t))
        BY <2>3 DEF Lane, EventLane
  <2>9. /\ NoneAfter(blocking'.pending, Cancellations(t), Known(t))
        /\ NoneAfter(blocking'.genEvents, Cancellations(t), Known(t))
        BY <1>1, <1>6, <1>7, <2>8, AddedLane
  <2>10. ~Hearing(t)'
        BY <1>2, <1>6, <2>3, <2>5 DEF Hearing
  <2>11. CASE channel.tags[t] = "cancelling"
        BY <1>1, <1>2, <1>3, <1>6, <1>9, <2>3, <2>6, <2>7, <2>9, <2>10, <2>11 DEF Lane, Fits,
           BlockingType, WireLane, EventLane, SameResults
  <2>12. CASE channel.tags[t] # "cancelling"
    <3>1. channel'.tags[t] = "none"
          BY <1>1, <1>6, <1>9, <2>12 DEF ChannelType
    <3>2. channel.tags[t] = "consuming" /\ blocking.infos[t] \in {"setting", "active"}
          BY <1>1, <2>3, <2>12 DEF ChannelType, Lane, Fits
    <3>3. blocking'.infos[t] = "cancelled"
          BY <1>1, <1>6, <1>9, <3>2 DEF BlockingType
    <3>4. /\ Free(wire.in, FramesOf(t, {"cancelOk"})) /\ Free(wire.out, CancelsOf(t))
          BY <2>12 DEF Lane, WireLane
    <3>5. Free(wire'.in, FramesOf(t, {"cancelOk"}))
          BY <1>4, <3>4
    <3>6. Free(wire'.in, About(t))
          BY <2>4, <3>5 DEF Free, FramesOf, About
    <3>7. WireLane(t)'
          BY <1>2, <1>6, <2>3, <2>6, <2>7, <3>1, <3>4, <3>5, <3>6 DEF WireLane
    <3>8. EventLane(t)'
          BY <2>9, <2>10, <3>1, <3>3 DEF EventLane
    <3>9. Fits(blocking'.infos[t], channel'.tags[t])
          BY <3>1, <3>3 DEF Fits
    <3>10. ~(app'.call.op = "cancel" /\ app'.call.tag = t)
          BY <1>3, <3>2 DEF Lane
    <3> QED BY <3>1, <3>7, <3>8, <3>9, <3>10 DEF Lane
  <2> QED BY <2>11, <2>12
<1> QED BY <1>8, <1>9

\* The frames that the client takes.
LEMMA FrameLanes ==
    ASSUME CallsInv, Frames, channel'.state = "open", NEW t \in Tags, Lane(t)
    PROVE  Lane(t)'
<1> DEFINE x == Head(wire.in)
<1>1. CallTypes
      BY DEF CallsInv
<1>2. /\ wire.in # <<>> /\ wire'.in = Tail(wire.in) /\ broker' = broker
      /\ \/ GotReply(x) \/ GotReturn(x) \/ GotDelivery(x)
         \/ GotCancel(x) \/ GotClose(x) \/ GotBlocked(x)
      BY <1>1, FrameFields
<1>3. app'.call.op = app.call.op /\ app'.call.tag = app.call.tag
      BY <1>1, RoundKeeps DEF Rounds
<1>4. Within(wire'.in, wire.in, About(t))
      BY <1>1, <1>2, HeadOfLane
<1>5. ~GotClose(x)
      BY DEF GotClose
<1>6. CASE GotReturn(x) \/ GotBlocked(x)
  <2> HIDE DEF x
  <2>1. /\ channel' = channel /\ wire'.out = wire.out
        /\ blocking'.infos = blocking.infos /\ blocking'.generator = blocking.generator
        /\ blocking'.ackless = blocking.ackless /\ blocking'.ready = blocking.ready
        /\ SameQueues \/ Added(None, Event("returned", None, 0))
        BY <1>6 DEF GotReturn, GotBlocked, SameConsumers, SameResults, SameQueues
  <2>2. Within(wire'.out, wire.out, Requesting(t))
        BY <1>1, <2>1, LaneStreams
  <2>3. /\ Within(blocking'.pending, blocking.pending, Known(t))
        /\ Within(blocking'.genEvents, blocking.genEvents, Known(t))
    <3>1. CASE SameQueues
          BY <1>1, <3>1, LaneStreams DEF SameQueues
    <3>2. CASE Added(None, Event("returned", None, 0))
          BY <1>1, <3>2, EventTypes, OtherLanes, AddedLane
    <3> QED BY <2>1, <3>1, <3>2
  <2>4. SameLane(t)
        BY <1>2, <1>3, <1>4, <2>1, <2>2, <2>3 DEF SameLane
  <2> QED BY <2>4, LaneKept
<1> QED BY <1>2, <1>5, <1>6, ReplyLanes, DeliveryLanes, CancelledLanes

\* The events that the generator takes, and those that are dispatched.
LEMMA DispatchLanes ==
    ASSUME CallsInv, Dispatches, channel.state = "open", NEW t \in Tags, Lane(t)
    PROVE  Lane(t)'
<1>1. CallTypes /\ CallAndDispatch /\ BlockingType /\ ChannelType /\ OwnConsumer /\ Lanes
      BY DEF CallsInv, CallTypes
<1>2. /\ channel' = channel /\ wire' = wire /\ broker' = broker
      /\ app.call.op \in Processing \cup {"none"} /\ app'.call.op \in Processing \cup {"none"}
      /\ blocking'.ready = blocking.ready /\ blocking'.ackless = blocking.ackless
      BY <1>1, DispatchKeeps
<1>3. app'.call.op # "cancel" /\ app.call.op # "cancel"
      BY <1>2 DEF Processing
<1>4. /\ Within(wire'.in, wire.in, About(t)) /\ Within(wire'.out, wire.out, Requesting(t))
      BY <1>1, <1>2, LaneStreams
<1>5. ASSUME blocking'.infos[t] = blocking.infos[t],
             Within(blocking'.pending, blocking.pending, Known(t)),
             Within(blocking'.genEvents, blocking.genEvents, Known(t)),
             channel.tags[t] # "none" /\ t \in GeneratorTags /\ blocking.generator = t =>
                 blocking'.generator = t
      PROVE  Lane(t)'
      BY <1>2, <1>3, <1>4, <1>5, LaneKept DEF SameLane
<1>6. CASE blocking' = blocking
      BY <1>1, <1>5, <1>6, LaneStreams
<1>7. CASE LoopEnds /\ blocking' # blocking
  <2> DEFINE e == Head(blocking.genEvents)
  <2>1. /\ blocking.generator # None /\ blocking.genEvents # <<>>
        /\ blocking' = [blocking EXCEPT !.genEvents = Tail(@),
                            !.generator = IF e.type = "cancellation" THEN None ELSE @]
        BY <1>7 DEF LoopEnds
  <2>2. /\ blocking.genEvents \in Seq(GeneratorEvents) /\ e \in GeneratorEvents
        BY <1>1, <2>1, StreamTypes DEF BlockingType
  <2>3. Free(blocking.genEvents, {g \in GeneratorEvents : g.tag # blocking.generator})
        BY <1>1, <2>1 DEF Lanes
  <2>4. \A S : Free(blocking.genEvents, S) => e \notin S
        BY <2>1, <2>2, HeadFrame
  <2>5. e.tag = blocking.generator
        BY <2>2, <2>3, <2>4
  <2>6. /\ blocking'.genEvents = Tail(blocking.genEvents) /\ blocking'.infos = blocking.infos
        /\ blocking'.pending = blocking.pending
        /\ e.type # "cancellation" => blocking'.generator = blocking.generator
        BY <1>1, <2>1 DEF BlockingType
  <2>7. Within(blocking'.genEvents, blocking.genEvents, Known(t))
        BY <1>1, <2>1, <2>6, LaneStreams
  <2>8. Within(blocking'.pending, blocking.pending, Known(t))
        BY <1>1, <2>6, LaneStreams
  <2> HIDE DEF e
  <2>9. ASSUME channel.tags[t] # "none", blocking.generator = t, e.type = "cancellation"
        PROVE  FALSE
        BY <1>1, <1>3, <2>2, <2>4, <2>5, <2>9 DEF Cancellations, EventsOf, Lane, EventLane,
           ChannelType, Fits, OwnConsumer
  <2>10. channel.tags[t] # "none" /\ blocking.generator = t => blocking'.generator = t
        BY <2>6, <2>9
  <2> QED BY <1>5, <2>6, <2>7, <2>8, <2>10
<1>8. CASE DispatchEvent
  <2> DEFINE e == Head(blocking.pending)
  <2>1. /\ blocking.pending # <<>> /\ app.call = NoCall
        /\ blocking' = [blocking EXCEPT !.pending = Tail(@),
               !.infos = IF e.type = "cancellation" THEN [@ EXCEPT ![e.tag] = "none"] ELSE @]
        BY <1>8 DEF DispatchEvent, BetweenCallbacks
  <2>2. blocking.pending \in Seq(ChannelEvents) /\ e \in ChannelEvents
        BY <1>1, <2>1, StreamTypes DEF BlockingType
  <2>3. /\ \A S : Free(blocking.pending, S) => e \notin S
        /\ \A S, T : NoneAfter(blocking.pending, S, T) /\ e \in S =>
                         Free(Tail(blocking.pending), T)
        BY <2>1, <2>2, HeadFrame
  <2>4. Within(Tail(blocking.pending), blocking.pending, Known(t))
        BY <1>1, <2>1, LaneStreams
  <2> HIDE DEF e
  <2>5. /\ blocking'.pending = Tail(blocking.pending)
        /\ blocking'.genEvents = blocking.genEvents /\ blocking'.generator = blocking.generator
        /\ blocking'.infos = IF e.type = "cancellation"
                             THEN [blocking.infos EXCEPT ![e.tag] = "none"] ELSE blocking.infos
        BY <1>1, <2>1 DEF BlockingType
  <2>6. Within(blocking'.genEvents, blocking.genEvents, Known(t))
        BY <1>1, <2>5, LaneStreams
  <2>7. CASE e.type # "cancellation" \/ e.tag # t
        BY <1>1, <1>5, <2>4, <2>5, <2>6, <2>7 DEF BlockingType
  <2>8. CASE e.type = "cancellation" /\ e.tag = t
    <3>1. e \in Cancellations(t)
          BY <2>2, <2>8 DEF Cancellations, EventsOf
    <3>2. ~Free(blocking.pending, Cancellations(t))
          BY <2>3, <3>1
    <3>3. channel.tags[t] # "consuming" /\ ~Hearing(t)
          BY <3>2 DEF Lane, EventLane
    <3>4. blocking.infos[t] # "tearing"
          BY <1>1, <1>3 DEF OwnConsumer
    <3>5. channel.tags[t] = "none"
          BY <1>1, <3>3, <3>4 DEF Lane, Fits, ChannelType
    <3>6. blocking'.infos[t] = "none"
          BY <1>1, <2>5, <2>8 DEF BlockingType
    <3>7. Free(blocking'.pending, Known(t))
          BY <2>3, <2>5, <3>1 DEF Lane, EventLane
    <3>8. NoneAfter(blocking'.pending, Cancellations(t), Known(t))
          BY <3>7 DEF Free, NoneAfter
    <3>9. ~Hearing(t)'
          BY <1>2, <3>3 DEF Hearing
    <3>10. EventLane(t)'
          BY <1>2, <2>5, <3>5, <3>7, <3>8, <3>9 DEF Lane, EventLane
    <3>11. WireLane(t)'
          BY <1>2, <3>3 DEF Hearing, Lane, WireLane
    <3>12. Fits(blocking'.infos[t], channel'.tags[t])
          BY <1>2, <3>5, <3>6 DEF Fits
    <3> QED BY <1>2, <1>3, <3>5, <3>10, <3>11, <3>12 DEF Lane
  <2> QED BY <2>7, <2>8
<1>9. LoopEnds \/ DispatchEvent \/ blocking' = blocking
      BY DEF Dispatches, EnterProcessing, FlushEnds, DispatchReady, DispatchChannel,
         EndDispatch, CallbackReturns, CallbackRaises
<1> QED BY <1>6, <1>7, <1>8, <1>9

\* A call that returns leaves its consumer set up, or gone.
LEMMA ReturnLanes ==
    ASSUME CallsInv, CallReturns, NEW t \in Tags, Lane(t)
    PROVE  Lane(t)'
<1>1. CallTypes /\ CallAndDispatch /\ BlockingType /\ ChannelType /\ OwnConsumer
      /\ app.call \in Calls /\ CallShape(app.call) /\ AtTheEnd
      /\ OneReply(app.call, wire.out, wire.in, blocking.ready)
      BY DEF CallsInv, CallTypes, AppType, CallAndDispatch
<1>2. /\ CallDone /\ channel.state = "open" /\ app.call.op \in Answered
      /\ wire' = wire /\ channel' = channel /\ broker' = broker
      /\ blocking' = Ended(app.call, FALSE)
      BY DEF CallReturns, CallDone
<1>3. app'.call.op # "cancel"
      BY <1>1 DEF NoCall, CallReturns, CallTypes, AppType, Calls
<1>4. /\ blocking'.infos = [s \in Tags |->
             IF app.call.op = "consume" /\ s = app.call.tag
             THEN IF blocking.infos[s] = "setting" THEN "active" ELSE blocking.infos[s]
             ELSE IF app.call.op = "cancel" /\ s = app.call.tag THEN "none"
             ELSE blocking.infos[s]]
      /\ blocking'.pending = IF app.call.op = "cancel" THEN Without(app.call.tag)
                             ELSE blocking.pending
      /\ blocking'.generator = IF blocking.generator = app.call.tag /\ app.call.op = "cancel"
                               THEN None ELSE blocking.generator
      /\ blocking'.genEvents = blocking.genEvents /\ blocking'.ackless = blocking.ackless
      BY <1>1, <1>2, EndedFields
<1>5. WaiterReady
      BY <1>1, <1>2 DEF CallDone, IsDone, AtTheEnd
<1>6. /\ Within(wire'.in, wire.in, About(t)) /\ Within(wire'.out, wire.out, Requesting(t))
      /\ Within(blocking'.pending, blocking.pending, Known(t))
      /\ Within(blocking'.genEvents, blocking.genEvents, Known(t))
  <2>1. /\ Within(wire'.in, wire.in, About(t)) /\ Within(wire'.out, wire.out, Requesting(t))
        /\ Within(blocking'.genEvents, blocking.genEvents, Known(t))
        BY <1>1, <1>2, <1>4, LaneStreams
  <2>2. Within(Without(app.call.tag), blocking.pending, Known(t))
        BY <1>1, LaneStreams
  <2>3. Within(blocking.pending, blocking.pending, Known(t))
        BY <1>1, LaneStreams
  <2>4. blocking'.pending \in {Without(app.call.tag), blocking.pending}
        BY <1>4
  <2> QED BY <2>1, <2>2, <2>3, <2>4
<1>7. CASE blocking'.infos[t] = blocking.infos[t] /\ ~(app.call.op = "cancel" /\ t = app.call.tag)
      BY <1>2, <1>3, <1>4, <1>6, <1>7, LaneKept DEF SameLane
<1>8. CASE app.call.op = "consume" /\ t = app.call.tag /\ blocking.infos[t] = "setting"
      BY <1>1, <1>2, <1>3, <1>4, <1>5, <1>8 DEF Lane, Fits, WaiterReady, Ready, OneReply, Kinds,
         Free, ConsumesOf, Asking, WireLane, EventLane, Hearing
<1>9. CASE app.call.op = "cancel" /\ t = app.call.tag
  <2>1. blocking'.infos[t] = "none" /\ blocking'.pending = Without(t)
        BY <1>4, <1>9
  <2>2. channel.tags[t] = "none"
        BY <1>2, <1>5, <1>9 DEF WaiterReady, Ready, Lane
  <2>3. Free(blocking'.pending, Known(t))
        BY <1>1, <2>1, PendingParts DEF Free, Known, EventsOf
  <2>4. NoneAfter(blocking'.pending, Cancellations(t), Known(t))
        BY <2>3 DEF Free, NoneAfter
  <2>5. ~Hearing(t)
        BY <2>2 DEF Lane, WireLane, Free, FramesOf, About, Hearing
  <2>6. ~Hearing(t)'
        BY <1>2, <2>5 DEF Hearing
  <2>7. EventLane(t)'
        BY <1>2, <1>4, <2>2, <2>3, <2>4, <2>6 DEF Lane, EventLane
  <2>8. WireLane(t)'
        BY <1>2, <2>2, <2>5 DEF Lane, WireLane, Hearing
  <2>9. Fits(blocking'.infos[t], channel'.tags[t])
        BY <1>2, <2>1, <2>2 DEF Fits
  <2> QED BY <1>2, <1>3, <2>2, <2>7, <2>8, <2>9 DEF Lane
<1> QED BY <1>4, <1>7, <1>8, <1>9

\* The events of the generator are its own.
NotOf(g) == {e \in GeneratorEvents : e.tag # g}
GeneratorsOwn(g, evts) == g # None => Free(evts, NotOf(g))

\* The generator keeps its own events while it only loses some.
LEMMA OwnKept ==
    ASSUME GeneratorsOwn(blocking.generator, blocking.genEvents),
           blocking'.generator \in {None, blocking.generator},
           Within(blocking'.genEvents, blocking.genEvents, GeneratorEvents)
    PROVE  GeneratorsOwn(blocking'.generator, blocking'.genEvents)
      BY DEF GeneratorsOwn, NotOf, Within

\* What the generator gets is its own consumer's.
LEMMA OwnAdded ==
    ASSUME CallTypes, GeneratorsOwn(blocking.generator, blocking.genEvents),
           blocking'.generator = blocking.generator, NEW tag, NEW e, Added(tag, e), e.tag = tag,
           tag \in GeneratorTags => blocking.generator = tag
    PROVE  GeneratorsOwn(blocking'.generator, blocking'.genEvents)
<1>1. blocking.genEvents \in Seq(GeneratorEvents)
      BY DEF CallTypes, BlockingType
<1>2. CASE tag \in GeneratorTags
  <2>1. blocking'.genEvents = Append(blocking.genEvents, e) /\ e \in GeneratorEvents
        BY <1>2 DEF Added
  <2>2. e \notin NotOf(blocking.generator)
        BY <1>2 DEF NotOf
  <2>3. Within(blocking'.genEvents, blocking.genEvents, NotOf(blocking.generator))
        BY <1>1, <2>1, <2>2, WithinBasics
  <2> QED BY <2>3 DEF GeneratorsOwn, Within
<1>3. CASE tag \notin GeneratorTags
      BY <1>3 DEF Added
<1> QED BY <1>2, <1>3

\* The generator keeps to its own.
LEMMA OwnEvents ==
    ASSUME CallsInv, Next, channel.state = "open", channel'.state = "open"
    PROVE  GeneratorsOwn(blocking'.generator, blocking'.genEvents)
<1>1. CallTypes /\ BlockingType /\ CallAndDispatch /\ \A t \in Tags : Lane(t)
      BY DEF CallsInv, CallTypes, Lanes
<1>2. GeneratorsOwn(blocking.generator, blocking.genEvents)
      BY DEF CallsInv, Lanes, GeneratorsOwn, NotOf
<1>3. blocking.genEvents \in Seq(GeneratorEvents)
      BY <1>1 DEF BlockingType
<1>4. /\ Within(blocking.genEvents, blocking.genEvents, GeneratorEvents)
      /\ blocking.genEvents # <<>> =>
             Within(Tail(blocking.genEvents), blocking.genEvents, GeneratorEvents)
      BY <1>3, WithinBasics
<1>5. blocking' = blocking => GeneratorsOwn(blocking'.generator, blocking'.genEvents)
      BY <1>2
<1>6. CASE AppCalls
  <2>1. ASSUME NEW tag \in Tags, NEW ackless \in BOOLEAN, Consumes(tag, ackless)
        PROVE  GeneratorsOwn(blocking'.generator, blocking'.genEvents)
    <3>1. \/ /\ blocking'.generator = blocking.generator
             /\ blocking'.genEvents = blocking.genEvents
          \/ blocking'.genEvents = <<>>
          BY <2>1, ConsumeFields
    <3>2. CASE blocking'.genEvents = <<>>
          BY <3>2 DEF GeneratorsOwn, Free
    <3> QED BY <1>2, <3>1, <3>2
  <2>2. ASSUME NEW tag \in Tags, NEW n \in 0..Len(blocking.genEvents), Cancels(tag, n)
        PROVE  GeneratorsOwn(blocking'.generator, blocking'.genEvents)
    <3>1. /\ blocking'.generator = blocking.generator
          /\ \/ blocking'.genEvents = blocking.genEvents
             \/ blocking'.genEvents = SubSeq(blocking.genEvents, n + 1, Len(blocking.genEvents))
          BY <2>2, CancelFields
    <3>2. Within(SubSeq(blocking.genEvents, n + 1, Len(blocking.genEvents)), blocking.genEvents,
                 GeneratorEvents)
          BY <1>3, CutProperties
    <3> QED BY <1>2, <1>4, <3>1, <3>2, OwnKept
  <2>3. ASSUME \/ \E op \in {"rpc", "select", "get", "publish"} : Plain(op)
               \/ \E id \in Deliveries : Settle(id)
               \/ \E op \in Processing, limited \in BOOLEAN : StartProcessing(op, limited)
        PROVE  blocking' = blocking
        BY <2>3 DEF Plain, Settle, StartProcessing
  <2> QED BY <1>5, <1>6, <2>1, <2>2, <2>3, AppKinds
<1>7. CASE AppTimers \/ Broker
      BY <1>5, <1>7 DEF AppTimers, CallLater, RemoveTimeout, Broker, BrokerCloses, BrokerBlocks,
         BrokerDelivers, BrokerCancels
<1>8. CASE Rounds
  <2>1. CASE ~Frames
        BY <1>5, <1>8, <2>1 DEF Rounds, EndRound, Write, WriteIgnored, LimitExpires,
           OnConnectionClosed, TimerReady
  <2>2. CASE Frames
    <3> DEFINE x == Head(wire.in)
    <3>1. /\ wire.in # <<>> /\ x \in InFrames
          /\ \/ GotReply(x) \/ GotReturn(x) \/ GotDelivery(x)
             \/ GotCancel(x) \/ GotClose(x) \/ GotBlocked(x)
          BY <1>1, <2>2, FrameFields
    <3>2. \A S : Free(wire.in, S) => x \notin S
          BY <1>1, <3>1, HeadFrame DEF CallTypes, WireType
    <3> HIDE DEF x
    <3>3. ASSUME blocking'.generator = blocking.generator,
                 SameQueues \/ Added(None, Event("returned", None, 0))
          PROVE  GeneratorsOwn(blocking'.generator, blocking'.genEvents)
          BY <1>2, <3>3, CallNamesAssumption DEF SameQueues, Added
    <3>4. ASSUME x.tag \in Tags, channel.tags[x.tag] # "none",
                 blocking'.generator = blocking.generator,
                 NEW e, Added(x.tag, e), e.tag = x.tag
          PROVE  GeneratorsOwn(blocking'.generator, blocking'.genEvents)
          BY <1>1, <1>2, <3>4, OwnAdded DEF Lane
    <3>5. CASE GotReply(x) \/ GotReturn(x) \/ GotBlocked(x)
          BY <3>3, <3>5 DEF GotReply, GotReturn, GotBlocked, SameConsumers, SameQueues
    <3>6. CASE GotDelivery(x)
          BY <3>3, <3>4, <3>6, EventTypes DEF GotDelivery, SameConsumers
    <3>7. CASE GotCancel(x)
      <4>1. Event("cancellation", x.tag, 0).tag = x.tag
            BY EventTypes
      <4>2. x.tag \in Tags /\ x \in About(x.tag)
            BY <3>1, <3>7 DEF GotCancel, About, FramesOf
      <4>3. channel.tags[x.tag] # "none"
            BY <1>1, <3>2, <4>2 DEF Lane, WireLane
      <4> QED BY <3>4, <3>7, <4>1, <4>2, <4>3 DEF GotCancel
    <3>8. ~GotClose(x)
          BY DEF GotClose
    <3> QED BY <3>1, <3>5, <3>6, <3>7, <3>8
  <2> QED BY <2>1, <2>2
<1>9. CASE Dispatches
  <2>1. CASE blocking' = blocking
        BY <1>5, <2>1
  <2>2. CASE LoopEnds /\ blocking' # blocking
        BY <1>1, <1>2, <1>4, <2>2, OwnKept DEF LoopEnds, BlockingType
  <2>3. CASE DispatchEvent
        BY <1>1, <1>2, <2>3 DEF DispatchEvent, BlockingType
  <2> QED BY <1>9, <2>1, <2>2, <2>3 DEF Dispatches, EnterProcessing, FlushEnds, DispatchReady,
     DispatchChannel, EndDispatch, CallbackReturns, CallbackRaises
<1>10. CASE CallReturns \/ CallRaises
      BY <1>1, <1>2, <1>4, <1>10, EndedFields, OwnKept DEF CallReturns, CallRaises, CallDone,
         CallTypes, AppType, CallAndDispatch
<1> QED BY <1>6, <1>7, <1>8, <1>9, <1>10, StepKinds

\* The two ends, the library and the events agree on each consumer.
LEMMA LanesHold ==
    ASSUME CallsInv, Next
    PROVE  Lanes'
<1>1. CallTypes /\ AtTheEnd
      BY DEF CallsInv
<1>2. SUFFICES ASSUME channel'.state = "open"
               PROVE  /\ \A t \in Tags : Lane(t)'
                      /\ GeneratorsOwn(blocking'.generator, blocking'.genEvents)
      BY DEF Lanes, GeneratorsOwn, NotOf
<1>3. channel.state = "open"
  <2>1. CASE AppCalls
        BY <2>1, AppKinds
  <2>2. CASE AppTimers
        BY <1>2, <2>2 DEF AppTimers, CallLater, RemoveTimeout
  <2>3. CASE Rounds
    <3>1. CASE Frames
          BY <1>1, <1>2, <3>1, FrameFields DEF GotReply, GotReturn, GotDelivery, GotCancel,
             GotClose, GotBlocked
    <3>2. CASE OnConnectionClosed
          BY <1>1, <1>2, <3>2 DEF OnConnectionClosed, CallTypes, ChannelType
    <3> QED BY <1>2, <2>3, <3>1, <3>2 DEF Rounds, EndRound, Write, WriteIgnored, LimitExpires,
       TimerReady
  <2>4. CASE Broker
        BY <1>1, <2>4, BrokerFrames DEF Broker
  <2>5. CASE Dispatches
        BY <1>1, <1>2, <2>5, DispatchKeeps DEF CallsInv
  <2>6. CASE CallReturns \/ CallRaises
        BY <1>2, <2>6 DEF CallReturns, CallRaises
  <2> QED BY <2>1, <2>2, <2>3, <2>4, <2>5, <2>6, StepKinds
<1>4. \A t \in Tags : Lane(t)
      BY <1>3 DEF CallsInv, Lanes
<1>5. ASSUME NEW t \in Tags
      PROVE  Lane(t)'
  <2>1. Lane(t)
        BY <1>4
  <2>2. ASSUME channel'.tags = channel.tags, channel'.ackless = channel.ackless,
               blocking' = blocking,
               broker' = broker, wire'.in = wire.in,
               wire'.out = wire.out \/ (wire.out # <<>> /\ wire'.out = Tail(wire.out)),
               app'.call.op = app.call.op, app'.call.tag = app.call.tag
        PROVE  Lane(t)'
        BY <1>1, <2>1, <2>2, LaneStreams, LaneKept DEF SameLane
  <2>3. CASE AppCalls
        BY <2>1, <2>3, CallLanes
  <2>4. CASE AppTimers
        BY <1>1, <2>2, <2>4 DEF AppTimers, CallLater, RemoveTimeout, CallTypes, AppType
  <2>5. CASE Rounds
        BY <1>1, <1>2, <2>1, <2>2, <2>5, RoundKeeps, WriteLanes, FrameLanes DEF
           OnConnectionClosed, CallTypes, ChannelType, WriteIgnored, WireType, EndRound,
           LimitExpires, TimerReady, Rounds
  <2>6. CASE Broker
        BY <2>1, <2>6, BrokerLanes
  <2>7. CASE Dispatches
        BY <1>3, <2>1, <2>7, DispatchLanes
  <2>8. CASE CallReturns
        BY <2>1, <2>8, ReturnLanes
  <2>9. ~CallRaises
        BY <1>3 DEF CallRaises
  <2> QED BY <2>3, <2>4, <2>5, <2>6, <2>7, <2>8, <2>9, StepKinds
<1> QED BY <1>2, <1>3, <1>5, OwnEvents

-----------------------------------------------------------------------------
(* Timers, and the events that wait.                                       *)

\* Where a timeout is: scheduled, ready, in its callback, or removed.
TimerAt(t, callback, scheduled, ready, removed) ==
    /\ t = callback => t \notin scheduled
    /\ t = callback \/ t \in scheduled => Free(ready, {t})
    /\ NoneAfter(ready, {t}, {t})
    /\ t \in removed => t # callback /\ t \notin scheduled /\ Free(ready, {t})
TimerNow(t) == TimerAt(t, events.callback, events.scheduled, events.ready, app.removed)
DispatchAsked ==
    channel.state = "open" /\ blocking.pending # <<>> =>
        "channel" \in events.requested \/ events.phase = "channel" \/ app.raised

\* Wanted, timeout by timeout.
LEMMA WantedParts ==
    ASSUME app.removed \subseteq Timers
    PROVE  Wanted <=> DispatchAsked /\ \A t \in Timers : TimerNow(t)
      BY DEF Wanted, TimerNow, TimerAt, DispatchAsked

\* A step that begins no timeout and no callback of one.
TimersLeft ==
    /\ events'.callback \notin Timers \/ events'.callback = events.callback
    /\ events'.scheduled \subseteq events.scheduled
    /\ Within(events'.ready, events.ready, Timers) /\ app'.removed = app.removed

\* Such a step keeps each timeout where it is, or ends it.
LEMMA TimerKept ==
    ASSUME NEW t \in Timers, TimerNow(t), TimersLeft
    PROVE  TimerNow(t)'
      BY DEF TimersLeft, Within, TimerNow, TimerAt

\* The ready events, when one is added, taken or dropped.
LEMMA ReadyStreams ==
    ASSUME CallTypes
    PROVE  /\ events.ready \in Seq(Timers \cup {"blocked"})
           /\ Within(events.ready, events.ready, Timers) /\ Within(<<>>, events.ready, Timers)
           /\ Within(Append(events.ready, "blocked"), events.ready, Timers)
           /\ \A t \in Timers : t # "blocked" /\ t # "delivery" /\ t # "cancellation"
                                /\ t # "returned" /\ t # None
<1>1. events.ready \in Seq(Timers \cup {"blocked"})
      BY DEF CallTypes, EventsType
<1>2. \A t \in Timers : /\ t # "blocked" /\ t # "delivery" /\ t # "cancellation"
                        /\ t # "returned" /\ t # None
      BY CallNamesAssumption
<1>3. "blocked" \in Timers \cup {"blocked"} /\ "blocked" \notin Timers
      BY <1>2
<1>4. /\ Within(events.ready, events.ready, Timers) /\ Within(<<>>, events.ready, Timers)
      /\ \A x \in Timers \cup {"blocked"} :
             x \notin Timers => Within(Append(events.ready, x), events.ready, Timers)
      BY <1>1, WithinBasics
<1> QED BY <1>1, <1>2, <1>3, <1>4

\* call_later, remove_timeout and a timeout that is due.
LEMMA TimerCalls ==
    ASSUME CallTypes, NEW s \in Timers, CallLater(s) \/ RemoveTimeout(s) \/ TimerReady(s),
           \A t \in Timers : TimerNow(t), NEW t \in Timers
    PROVE  TimerNow(t)'
<1>1. events.ready \in Seq(Timers \cup {"blocked"})
      BY ReadyStreams
<1>2. CASE CallLater(s)
  <2>1. /\ events' = [events EXCEPT !.scheduled = @ \cup {s}] /\ app' = [app EXCEPT !.calls = @ + 1]
        /\ s \notin events.scheduled /\ s \notin app.removed /\ s # events.callback
        /\ ~Contains(events.ready, s)
        BY <1>2 DEF CallLater
  <2>2. /\ events'.callback = events.callback /\ events'.ready = events.ready
        /\ events'.scheduled = events.scheduled \cup {s} /\ app'.removed = app.removed
        BY <2>1 DEF CallTypes, EventsType, AppType
  <2>3. Free(events.ready, {s})
        BY <1>1, <2>1, LenProperties DEF Contains, Free
  <2>4. TimerAt(t, events'.callback, events'.scheduled, events'.ready, app'.removed)
        BY <2>1, <2>2, <2>3 DEF TimerNow, TimerAt
  <2> QED BY <2>4 DEF TimerNow
<1>3. CASE RemoveTimeout(s)
  <2> DEFINE P == {i \in DOMAIN events.ready : events.ready[i] # s}
  <2>1. /\ events' = [events EXCEPT !.scheduled = @ \ {s}, !.ready = Picked(@, P)]
        /\ app' = [app EXCEPT !.removed = @ \cup {s}, !.calls = @ + 1]
        /\ s \in events.scheduled \cup ToSet(events.ready)
        BY <1>3 DEF RemoveTimeout
  <2>2. /\ events'.callback = events.callback /\ events'.ready = Picked(events.ready, P)
        /\ events'.scheduled = events.scheduled \ {s} /\ app'.removed = app.removed \cup {s}
        BY <2>1 DEF CallTypes, EventsType, AppType
  <2>3. P \in SUBSET DOMAIN events.ready
        OBVIOUS
  <2>4. Within(Picked(events.ready, P), events.ready, Timers)
        BY <1>1, <2>3, WithinPicked
  <2>5. Free(Picked(events.ready, P), {s})
        BY <1>1, <2>3, PickedProperties DEF Bijection, Injection, Free
  <2>6. s # events.callback
        BY <2>1 DEF TimerNow, TimerAt, ToSet, Free
  <2> HIDE DEF P
  <2>7. /\ Free(events.ready, {t}) => Free(events'.ready, {t})
        /\ NoneAfter(events.ready, {t}, {t}) => NoneAfter(events'.ready, {t}, {t})
        BY <2>2, <2>4 DEF Within
  <2>8. TimerAt(t, events'.callback, events'.scheduled, events'.ready, app'.removed)
        BY <2>2, <2>5, <2>6, <2>7 DEF TimerNow, TimerAt
  <2> QED BY <2>8 DEF TimerNow
<1>4. CASE TimerReady(s)
  <2>1. /\ events' = [events EXCEPT !.scheduled = @ \ {s}, !.ready = Append(@, s)]
        /\ app' = [app EXCEPT !.call.stage = "round"] /\ s \in events.scheduled
        BY <1>4 DEF TimerReady, InTurn
  <2>2. /\ events'.callback = events.callback /\ events'.ready = Append(events.ready, s)
        /\ events'.scheduled = events.scheduled \ {s} /\ app'.removed = app.removed
        BY <2>1 DEF CallTypes, EventsType, AppType
  <2>3. /\ Free(Append(events.ready, s), {t}) <=> Free(events.ready, {t}) /\ s \notin {t}
        /\ NoneAfter(Append(events.ready, s), {t}, {t}) <=>
              NoneAfter(events.ready, {t}, {t}) /\ (Free(events.ready, {t}) \/ s \notin {t})
    <3>1. s \in Timers \cup {"blocked"}
          OBVIOUS
    <3> QED BY <1>1, <3>1, AppendFrame
  <2>4. /\ Free(events.ready, {s}) /\ s # events.callback /\ s \notin app.removed
        BY <2>1 DEF TimerNow, TimerAt
  <2>5. TimerAt(t, events'.callback, events'.scheduled, events'.ready, app'.removed)
        BY <2>2, <2>3, <2>4 DEF TimerNow, TimerAt
  <2> QED BY <2>5 DEF TimerNow
<1> QED BY <1>2, <1>3, <1>4

\* The callback of a ready timeout begins.
LEMMA TimerBegins ==
    ASSUME CallTypes, DispatchReady, NEW t \in Timers, TimerNow(t)
    PROVE  TimerNow(t)'
      BY ReadyStreams, HeadFrame DEF DispatchReady, CallTypes, EventsType, TimerNow, TimerAt

\* All other steps begin none.
LEMMA OtherTimers ==
    ASSUME CallsInv, Next, ~AppTimers, ~DispatchReady, \A t \in Timers : ~TimerReady(t)
    PROVE  TimersLeft
<1>1. CallTypes /\ CallAndDispatch
      BY DEF CallsInv
<1> USE DEF CallTypes
<1>2. /\ Within(events.ready, events.ready, Timers) /\ Within(<<>>, events.ready, Timers)
      /\ Within(Append(events.ready, "blocked"), events.ready, Timers)
      BY <1>1, ReadyStreams
<1>3. \A t \in Timers : t # "delivery" /\ t # "cancellation" /\ t # "returned" /\ t # None
      BY <1>1, ReadyStreams
<1>4. CASE AppCalls
      BY <1>2, <1>4, ConsumeFields, CancelFields, AppKinds, PlainFields DEF Plain, Settle,
         StartProcessing, TimersLeft
<1>5. CASE Broker
      BY <1>1, <1>2, <1>5, BrokerFrames DEF Broker, TimersLeft
<1>6. CASE Frames
      BY <1>1, <1>2, <1>6, RoundKeeps, FrameFields DEF Rounds, GotReply, GotReturn, GotDelivery,
         GotCancel, GotClose, GotBlocked, SameEvents, TimersLeft
<1>7. CASE Rounds /\ ~Frames
      BY <1>1, <1>2, <1>7, RoundKeeps DEF LimitExpires, EventsType, Rounds, EndRound, Write,
         WriteIgnored, OnConnectionClosed, TimersLeft
<1>8. CASE Dispatches
  <2>1. app'.removed = app.removed
        BY <1>1, <1>8, DispatchKeeps
  <2>2. /\ events'.scheduled = events.scheduled
        /\ events'.callback \in {None, events.callback, "delivery", "cancellation", "returned"}
        /\ events'.ready = events.ready \/ events'.ready = <<>>
    <3>1. CASE DispatchEvent
          BY <1>1, <3>1, StreamTypes DEF DispatchEvent, BlockingType, ChannelEvents, EventsType
    <3>2. CASE EnterProcessing \/ FlushEnds \/ DispatchChannel \/ EndDispatch
          BY <1>1, <3>2 DEF EnterProcessing, FlushEnds, DispatchChannel, EndDispatch, EventsType
    <3>3. CASE LoopEnds \/ CallbackReturns \/ CallbackRaises
          BY <1>1, <3>3 DEF LoopEnds, CallbackReturns, CallbackRaises, EventsType
    <3> QED BY <1>8, <3>1, <3>2, <3>3 DEF Dispatches
  <2> QED BY <1>2, <1>3, <2>1, <2>2 DEF TimersLeft
<1>9. CASE CallReturns \/ CallRaises
      BY <1>1, <1>2, <1>9 DEF CallReturns, CallRaises, AppType, Woken, Request, EventsType,
         TimersLeft
<1> QED BY <1>4, <1>5, <1>6, <1>7, <1>8, <1>9, StepKinds

\* A timeout is in one place, and a removed one in none.
LEMMA TimersHold ==
    ASSUME CallsInv, Next, NEW t \in Timers
    PROVE  TimerNow(t)'
      BY WantedParts, TimerCalls, TimerBegins, OtherTimers, TimerKept DEF CallsInv, CallTypes,
         AppType, AppTimers

\* What has asked for a dispatch, or runs it.
Asked(requested, phase, raised) == "channel" \in requested \/ phase = "channel" \/ raised

\* Events that were pending before, and what they asked for.
LEMMA AskedKept ==
    ASSUME DispatchAsked, channel'.state = "open" => channel.state = "open",
           blocking'.pending # <<>> => blocking.pending # <<>>,
           Asked(events.requested, events.phase, app.raised) =>
               Asked(events'.requested, events'.phase, app'.raised)
    PROVE  DispatchAsked'
      BY DEF DispatchAsked, Asked

\* Nothing can be removed from no events.
LEMMA NothingWithout ==
    ASSUME BlockingType, NEW tag
    PROVE  Without(tag) # <<>> => blocking.pending # <<>>
<1>1. /\ Without(tag) \in Seq(ChannelEvents)
      /\ Within(Without(tag), blocking.pending, ChannelEvents)
      BY PendingParts
<1>2. ASSUME blocking.pending = <<>>
      PROVE  Without(tag) = <<>>
  <2>1. Free(blocking.pending, ChannelEvents)
        BY <1>2 DEF Free
  <2>2. Free(Without(tag), ChannelEvents)
        BY <1>1, <2>1 DEF Within
  <2>3. \A i \in DOMAIN Without(tag) : Without(tag)[i] \in ChannelEvents
        BY <1>1
  <2>4. DOMAIN Without(tag) = {}
        BY <2>2, <2>3 DEF Free
  <2> QED BY <1>1, <2>4, EmptySeq
<1> QED BY <1>2

\* The calls of the application take events, and ask for nothing less.
LEMMA AppAsks ==
    ASSUME CallsInv, AppCalls \/ AppTimers
    PROVE  DispatchAsked'
<1>1. CallTypes /\ DispatchAsked
      BY DEF CallsInv, Wanted, DispatchAsked
<1> USE DEF CallTypes
<1>2. ASSUME NEW tag \in Tags, NEW ackless \in BOOLEAN, Consumes(tag, ackless)
      PROVE  DispatchAsked'
      BY <1>1, <1>2, ConsumeFields, AskedKept
<1>3. ASSUME NEW tag \in Tags, NEW n \in 0..Len(blocking.genEvents), Cancels(tag, n)
      PROVE  DispatchAsked'
  <2>1. /\ channel'.state = channel.state
        /\ blocking'.pending = Without(tag) \/ blocking'.pending = blocking.pending
        /\ events' = events /\ app'.raised = app.raised
        BY <1>3, CancelFields
  <2>2. blocking'.pending # <<>> => blocking.pending # <<>>
        BY <1>1, <2>1, NothingWithout
  <2> QED BY <1>1, <2>1, <2>2, AskedKept
<1>4. ASSUME AppCalls,
             \/ \E op \in {"rpc", "select", "get", "publish"} : Plain(op)
             \/ \E id \in Deliveries : Settle(id)
             \/ \E op \in Processing, limited \in BOOLEAN : StartProcessing(op, limited)
      PROVE  DispatchAsked'
      BY <1>1, <1>4, PlainFields, AskedKept DEF Plain, Settle, StartProcessing
<1>5. CASE AppCalls
      BY <1>2, <1>3, <1>4, <1>5, AppKinds
<1>6. CASE AppTimers
      BY <1>1, <1>6, AskedKept DEF AppTimers, CallLater, RemoveTimeout, EventsType, AppType
<1> QED BY <1>5, <1>6

\* Frames that add events ask for their dispatch.
LEMMA RoundAsks ==
    ASSUME CallsInv, Rounds
    PROVE  DispatchAsked'
<1>1. CallTypes /\ DispatchAsked
      BY DEF CallsInv, Wanted, DispatchAsked
<1> USE DEF CallTypes
<1>2. app'.raised = app.raised
      BY <1>1, RoundKeeps
<1>3. ASSUME NEW tag, NEW e, Added(tag, e), SameEvents, channel'.state = channel.state
      PROVE  DispatchAsked'
      BY <1>1, <1>2, <1>3, AskedKept DEF Added, SameEvents, Asked, DispatchAsked
<1>4. ASSUME blocking' = blocking, channel'.state = "open" => channel.state = "open",
             events'.requested = events.requested, events'.phase = events.phase
      PROVE  DispatchAsked'
      BY <1>1, <1>2, <1>4, AskedKept
<1>5. CASE Frames
      BY <1>1, <1>2, <1>3, <1>5, FrameFields, AskedKept DEF GotReply, GotBlocked, SameQueues,
         SameEvents, GotReturn, GotDelivery, GotCancel, GotClose, DispatchAsked
<1>6. CASE Rounds /\ ~Frames
      BY <1>1, <1>4, <1>6 DEF Rounds, EndRound, Write, WriteIgnored, LimitExpires, TimerReady,
         OnConnectionClosed, ChannelType, EventsType
<1> QED BY <1>5, <1>6

\* Only the dispatch, and a callback that raises, leave the request behind.
LEMMA DispatchAsks ==
    ASSUME CallsInv, Dispatches
    PROVE  DispatchAsked'
<1>1. CallTypes /\ DispatchAsked /\ CallAndDispatch
      BY DEF CallsInv, Wanted, DispatchAsked
<1> USE DEF CallTypes
<1>2. channel' = channel
      BY <1>1, DispatchKeeps
<1>3. CASE EnterProcessing \/ FlushEnds \/ DispatchReady
  <2>1. blocking' = blocking /\ events'.requested = events.requested /\ app'.raised = app.raised
        BY <1>1, <1>3 DEF EnterProcessing, FlushEnds, DispatchReady, EventsType, AppType
  <2>2. events.phase = "channel" => events'.phase = "channel"
        BY <1>1, <1>3 DEF CallAndDispatch, Dispatching, FlushEnds, EventsType, EnterProcessing,
           DispatchReady
  <2> QED BY <1>1, <1>2, <2>1, <2>2, AskedKept DEF Asked
<1>4. CASE LoopEnds
      BY <1>1, <1>2, <1>4, AskedKept DEF LoopEnds, BlockingType, AppType
<1>5. CASE DispatchChannel
      BY <1>1, <1>2, <1>5 DEF DispatchChannel, EventsType, DispatchAsked
<1>6. CASE DispatchEvent
      BY <1>1, <1>6 DEF DispatchEvent, EventsType, DispatchAsked
<1>7. CASE EndDispatch
      BY <1>1, <1>2, <1>7 DEF EndDispatch, EventsType, AppType, DispatchAsked
<1>8. CASE CallbackReturns
      BY <1>1, <1>2, <1>8, AskedKept DEF CallbackReturns, EventsType
<1>9. CASE CallbackRaises
      BY <1>1, <1>9 DEF CallbackRaises, AppType, DispatchAsked
<1> QED BY <1>3, <1>4, <1>5, <1>6, <1>7, <1>8, <1>9 DEF Dispatches

\* Timeouts are in one place, and pending events have asked for their dispatch.
LEMMA WantedHolds ==
    ASSUME CallsInv, Next, CallTypes'
    PROVE  Wanted'
<1>1. CallTypes /\ DispatchAsked
      BY DEF CallsInv, Wanted, DispatchAsked
<1>2. DispatchAsked'
  <2>1. CASE AppCalls \/ AppTimers
        BY <2>1, AppAsks
  <2>2. CASE Rounds
        BY <2>2, RoundAsks
  <2>3. CASE Dispatches
        BY <2>3, DispatchAsks
  <2>4. CASE Broker
        BY <1>1, <2>4, BrokerFrames, AskedKept DEF Broker
  <2>5. CASE CallReturns \/ CallRaises
    <3> DEFINE c == app.call
    <3>1. /\ channel' = channel /\ app'.raised = app.raised
          /\ events'.phase = events.phase /\ events.requested \subseteq events'.requested
      <4>1. channel' = channel /\ app'.raised = app.raised
            BY <1>1, <2>5 DEF CallReturns, CallRaises, CallTypes, AppType
      <4>2. \/ events' = events \/ events' = Request(events, "wakeup")
            \/ events' = [events EXCEPT !.ready = <<>>]
            BY <2>5 DEF CallReturns, CallRaises, Woken
      <4>3. events'.phase = events.phase /\ events.requested \subseteq events'.requested
            BY <1>1, <4>2 DEF Request, CallTypes, EventsType
      <4> QED BY <4>1, <4>3
    <3>2. blocking'.pending = Without(c.tag) \/ blocking'.pending = blocking.pending
          BY <1>1, <2>5, EndedFields DEF CallReturns, CallRaises, CallDone, CallsInv,
             CallAndDispatch, CallTypes, AppType
    <3>3. blocking'.pending # <<>> => blocking.pending # <<>>
          BY <1>1, <3>2, NothingWithout DEF CallTypes
    <3>4. Asked(events.requested, events.phase, app.raised) =>
              Asked(events'.requested, events'.phase, app'.raised)
          BY <3>1 DEF Asked
    <3> QED BY <1>1, <3>1, <3>3, <3>4, AskedKept
  <2> QED BY <2>1, <2>2, <2>3, <2>4, <2>5, StepKinds
<1>3. \A t \in Timers : TimerNow(t)'
      BY TimersHold
<1>4. app'.removed \subseteq Timers
      BY DEF CallTypes, AppType
<1>5. (DispatchAsked /\ \A t \in Timers : TimerNow(t))'
      BY <1>2, <1>3
<1>6. Wanted'
      BY <1>4, <1>5 DEF Wanted, TimerNow, TimerAt, DispatchAsked
<1> QED BY <1>6

-----------------------------------------------------------------------------
(* Where each delivery is.                                                 *)

Sides ==
    broker.unacked \cap broker.ackless = {} /\ broker.ackless \subseteq 1..broker.sent
IdAt(id) ==
    /\ Places(id) <= 1
    /\ id \in broker.unacked => Places(id) = 1
    /\ id > broker.sent => Places(id) = 0
AcklessFree ==
    /\ Free(wire.in, AcklessUnacked(Delivered))
    /\ Free(blocking.pending, AcklessUnacked(ChannelEvents))
    /\ Free(blocking.genEvents, AcklessUnacked(GeneratorEvents))
GeneratorsGone ==
    /\ blocking.generator = None => Free(blocking.genEvents, Unacked(GeneratorEvents))
    /\ app.call.op = "cancel" /\ app.call.tag \notin blocking.ackless =>
           Free(blocking.genEvents, Unacked(Known(app.call.tag)))

\* Accounted, part by part.
LEMMA AccountedParts ==
    Accounted <=> (Live => /\ Sides /\ (\A id \in Deliveries : IdAt(id))
                           /\ AcklessFree /\ GeneratorsGone)
      BY DEF Accounted, Sides, IdAt, AcklessFree, GeneratorsGone

\* What a live state knows.
LEMMA AccountedLive ==
    ASSUME CallsInv, Live
    PROVE  /\ CallTypes /\ Sides /\ (\A id \in Deliveries : IdAt(id))
           /\ AcklessFree /\ GeneratorsGone
           /\ broker.open /\ channel.state = "open" /\ \A t \in Tags : Lane(t)
           /\ GeneratorsOwn(blocking.generator, blocking.genEvents)
      BY AccountedParts DEF CallsInv, Live, Lanes, GeneratorsOwn, NotOf

\* The places of an id, one by one.
Held(in, out, pending, gen, given, got, id) ==
    CountOf(in, id) + CountOf(out, id) + CountOf(pending, id) + CountOf(gen, id)
        + (IF id \in given THEN 1 ELSE 0) + (IF id = got THEN 1 ELSE 0)

\* Places sums them up.
LEMMA HeldSum ==
    ASSUME NEW id, NEW given, NEW got
    PROVE  /\ Cardinality({id} \cap given) = (IF id \in given THEN 1 ELSE 0)
           /\ Cardinality({id} \cap {got}) = (IF id = got THEN 1 ELSE 0)
<1>1. Cardinality({id}) = 1 /\ Cardinality({}) = 0
      BY FS_Singleton, FS_EmptySet
<1>2. CASE id \in given
      BY <1>1, <1>2
<1>3. CASE id \notin given
      BY <1>1, <1>3
<1>4. CASE id = got
      BY <1>1, <1>2, <1>3, <1>4
<1>5. CASE id # got
      BY <1>1, <1>2, <1>3, <1>5
<1> QED BY <1>4, <1>5

\* Before a step and after it.
LEMMA PlacesHeld ==
    ASSUME NEW id
    PROVE  /\ Places(id) = Held(wire.in, wire.out, blocking.pending, blocking.genEvents,
                                app.given, blocking.got, id)
           /\ Places(id)' = Held(wire'.in, wire'.out, blocking'.pending, blocking'.genEvents,
                                 app'.given, blocking'.got, id)
      BY HeldSum DEF Places, Held

\* Counts are naturals.
LEMMA CountsAreNat ==
    ASSUME CallTypes, NEW id
    PROVE  /\ CountOf(wire.in, id) \in Nat /\ CountOf(wire.out, id) \in Nat
           /\ CountOf(blocking.pending, id) \in Nat /\ CountOf(blocking.genEvents, id) \in Nat
      BY CountType DEF CallTypes, WireType, BlockingType

\* Of an id that has not been sent nothing is found.
LEMMA NotSentYet ==
    ASSUME CallTypes, \A id \in Deliveries : IdAt(id), NEW id \in Deliveries,
           Places(id) = 0
    PROVE  /\ \A i \in DOMAIN wire.in : wire.in[i].id # id
           /\ \A i \in DOMAIN blocking.pending : blocking.pending[i].id # id
           /\ \A i \in DOMAIN blocking.genEvents : blocking.genEvents[i].id # id
           /\ id \notin app.given /\ id # blocking.got /\ id \notin broker.unacked
<1>1. /\ CountOf(wire.in, id) \in Nat /\ CountOf(wire.out, id) \in Nat
      /\ CountOf(blocking.pending, id) \in Nat /\ CountOf(blocking.genEvents, id) \in Nat
      BY CountsAreNat
<1>2. Held(wire.in, wire.out, blocking.pending, blocking.genEvents, app.given, blocking.got, id) = 0
      BY PlacesHeld
<1>3. /\ CountOf(wire.in, id) = 0 /\ CountOf(blocking.pending, id) = 0
      /\ CountOf(blocking.genEvents, id) = 0 /\ id \notin app.given /\ id # blocking.got
  <2> DEFINE a == CountOf(wire.in, id)
             b == CountOf(wire.out, id)
             c == CountOf(blocking.pending, id)
             d == CountOf(blocking.genEvents, id)
             g == IF id \in app.given THEN 1 ELSE 0
             h == IF id = blocking.got THEN 1 ELSE 0
  <2>1. a \in Nat /\ b \in Nat /\ c \in Nat /\ d \in Nat /\ g \in Nat /\ h \in Nat
        BY <1>1
  <2>2. a + b + c + d + g + h = 0
        BY <1>2 DEF Held
  <2>3. (g = 0 => id \notin app.given) /\ (h = 0 => id # blocking.got)
        OBVIOUS
  <2> HIDE DEF a, b, c, d, g, h
  <2>4. a = 0 /\ c = 0 /\ d = 0 /\ g = 0 /\ h = 0
        BY <2>1, <2>2
  <2> QED BY <2>3, <2>4 DEF a, c, d
<1>4. /\ wire.in \in Seq(InFrames)
      /\ blocking.pending \in Seq(ChannelEvents) /\ blocking.genEvents \in Seq(GeneratorEvents)
      BY DEF CallTypes, WireType, BlockingType
<1>5. \A i \in DOMAIN wire.in : wire.in[i].id # id
      BY <1>3, <1>4, CountType
<1>6. \A i \in DOMAIN blocking.pending : blocking.pending[i].id # id
      BY <1>3, <1>4, CountType
<1>7. \A i \in DOMAIN blocking.genEvents : blocking.genEvents[i].id # id
      BY <1>3, <1>4, CountType
<1>8. id \notin broker.unacked
      BY DEF IdAt
<1> QED BY <1>3, <1>5, <1>6, <1>7, <1>8

\* An id that stays where it is, or whose place no longer matters.
LEMMA IdKept ==
    ASSUME CallTypes, CallTypes', NEW id \in Deliveries, IdAt(id),
           broker.sent <= broker'.sent, Places(id)' <= Places(id), Places(id)' \in Nat,
           id \in broker'.unacked => id \in broker.unacked /\ Places(id)' = Places(id)
    PROVE  IdAt(id)'
      BY CountsAreNat, PlacesHeld DEF CallTypes, BrokerType, Deliveries, Held, IdAt

\* How many places hold an id, but for the unacknowledged.
HeldNow(id) ==
    Held(wire.in, wire.out, blocking.pending, blocking.genEvents, app.given, blocking.got, id)

\* The places of an id are counted by a natural.
LEMMA HeldIsNat ==
    ASSUME NEW in \in Seq(InFrames), NEW out \in Seq(OutFrames), NEW pending \in Seq(ChannelEvents),
           NEW gen \in Seq(GeneratorEvents), NEW given, NEW got, NEW id
    PROVE  Held(in, out, pending, gen, given, got, id) \in Nat
<1> DEFINE a == CountOf(in, id)
           b == CountOf(out, id)
           c == CountOf(pending, id)
           d == CountOf(gen, id)
           g == IF id \in given THEN 1 ELSE 0
           h == IF id = got THEN 1 ELSE 0
<1>1. a \in Nat
      BY CountType
<1>2. b \in Nat
      BY CountType
<1>3. c \in Nat
      BY CountType
<1>4. d \in Nat
      BY CountType
<1>5. g \in Nat /\ h \in Nat
      OBVIOUS
<1>6. Held(in, out, pending, gen, given, got, id) = a + b + c + d + g + h
      BY DEF Held
<1> HIDE DEF a, b, c, d, g, h
<1> QED BY <1>1, <1>2, <1>3, <1>4, <1>5, <1>6

\* An id whose places are as many as before, or that is settled.
LEMMA IdMoves ==
    ASSUME CallTypes, CallTypes', NEW id \in Deliveries, IdAt(id),
           broker.sent <= broker'.sent, HeldNow(id)' <= HeldNow(id),
           id \in broker'.unacked => id \in broker.unacked /\ HeldNow(id)' = HeldNow(id)
    PROVE  IdAt(id)'
<1>1. Places(id) = HeldNow(id) /\ Places(id)' = HeldNow(id)'
      BY PlacesHeld DEF HeldNow
<1>2. HeldNow(id)' \in Nat
      BY HeldIsNat DEF CallTypes, WireType, BlockingType, HeldNow
<1> QED BY <1>1, <1>2, IdKept

\* A number of places.
LEMMA HeldNowIsNat ==
    ASSUME CallTypes, NEW id
    PROVE  HeldNow(id) \in Nat
      BY HeldIsNat DEF CallTypes, WireType, BlockingType, HeldNow

\* An id that stays.
LEMMA IdSame ==
    ASSUME CallTypes, CallTypes', NEW id \in Deliveries, IdAt(id), broker' = broker,
           HeldNow(id)' = HeldNow(id)
    PROVE  IdAt(id)'
      BY HeldNowIsNat, IdMoves DEF CallTypes, BrokerType

\* Six summands that change.
LEMMA HeldDiffers ==
    ASSUME CallTypes, CallTypes', NEW id, NEW x \in Int, NEW y \in Int,
           NEW z \in Int, NEW u \in Int, NEW v \in Int, NEW w \in Int,
           CountOf(wire'.in, id) = CountOf(wire.in, id) + x,
           CountOf(wire'.out, id) = CountOf(wire.out, id) + y,
           CountOf(blocking'.pending, id) = CountOf(blocking.pending, id) + z,
           CountOf(blocking'.genEvents, id) = CountOf(blocking.genEvents, id) + u,
           (IF id \in app'.given THEN 1 ELSE 0) = (IF id \in app.given THEN 1 ELSE 0) + v,
           (IF id = blocking'.got THEN 1 ELSE 0) = (IF id = blocking.got THEN 1 ELSE 0) + w
    PROVE  HeldNow(id)' = HeldNow(id) + (x + y + z + u + v + w)
      BY CountsAreNat DEF HeldNow, Held

\* The calls that send one frame, or none, keep each id's places.
LEMMA PlainCounts ==
    ASSUME CallsInv, CallTypes', AppCalls, NEW id \in Deliveries, IdAt(id),
           \/ \E op \in {"rpc", "select", "get", "publish"} : Plain(op)
           \/ \E d \in Deliveries : Settle(d)
           \/ \E op \in Processing, limited \in BOOLEAN : StartProcessing(op, limited)
    PROVE  IdAt(id)'
<1>1. CallTypes
      BY DEF CallsInv
<1>2. /\ id # 0 /\ wire.out \in Seq(OutFrames) /\ app.given \subseteq Deliveries
      /\ 0 \notin Deliveries
      /\ broker.sent \in Nat
      BY <1>1 DEF CallTypes, WireType, AppType, BrokerType, Deliveries
<1>3. ASSUME NEW f \in OutFrames, wire'.out = Append(wire.out, f)
      PROVE  CountOf(wire'.out, id) = CountOf(wire.out, id) + (IF f.id = id THEN 1 ELSE 0)
      BY <1>2, <1>3, AppendCounts
<1>4. CASE \E op \in {"rpc", "select", "get", "publish"} : Plain(op)
  <2>1. PICK op \in {"rpc", "select", "get", "publish"} : Plain(op)
        BY <1>4
  <2>2. /\ Frame(op, Number, None, 0) \in OutFrames
        /\ wire'.out = Append(wire.out, Frame(op, Number, None, 0))
        /\ wire'.in = wire.in /\ app'.given = app.given \ {0}
        BY <2>1, PlainFields
  <2>3. blocking' = blocking /\ broker' = broker
        BY <2>1 DEF Plain
  <2>4. Frame(op, Number, None, 0).id = 0
        BY MadeTypes
  <2>5. CountOf(wire'.out, id) = CountOf(wire.out, id) /\ app'.given = app.given
        BY <1>1, <1>2, <1>3, <2>2, <2>4, CountsAreNat
  <2>6. HeldNow(id)' = HeldNow(id)
        BY <1>2, <2>2, <2>3, <2>5 DEF HeldNow, Held
  <2> QED BY <1>1, <1>2, <2>3, <2>6, IdSame
<1>5. CASE \E d \in Deliveries : Settle(d)
  <2>1. PICK d \in Deliveries : Settle(d)
        BY <1>5
  <2>2. /\ Frame("settle", Number, None, d) \in OutFrames
        /\ wire'.out = Append(wire.out, Frame("settle", Number, None, d))
        /\ wire'.in = wire.in /\ app'.given = app.given \ {d} /\ d \in app.given
        /\ blocking' = blocking /\ broker' = broker
        BY <2>1, PlainFields
  <2>3. Frame("settle", Number, None, d).id = d
        BY MadeTypes
  <2>4. CountOf(wire'.out, id) = CountOf(wire.out, id) + (IF d = id THEN 1 ELSE 0)
        BY <1>3, <2>2, <2>3
  <2>5. (IF id \in app'.given THEN 1 ELSE 0)
            = (IF id \in app.given THEN 1 ELSE 0) + (IF d = id THEN -1 ELSE 0)
        BY <2>2
  <2> DEFINE y == IF d = id THEN 1 ELSE 0
             v == IF d = id THEN -1 ELSE 0
  <2>6. HeldNow(id)' = HeldNow(id) + (0 + y + 0 + 0 + v + 0)
    <3>1. y \in Int /\ v \in Int /\ 0 \in Int
          OBVIOUS
    <3>2. /\ CountOf(wire'.out, id) = CountOf(wire.out, id) + y
          /\ (IF id \in app'.given THEN 1 ELSE 0) = (IF id \in app.given THEN 1 ELSE 0) + v
          BY <2>4, <2>5
    <3> HIDE DEF y, v
    <3>3. /\ CountOf(wire'.in, id) = CountOf(wire.in, id) + 0
          /\ CountOf(blocking'.pending, id) = CountOf(blocking.pending, id) + 0
          /\ CountOf(blocking'.genEvents, id) = CountOf(blocking.genEvents, id) + 0
          BY <1>1, <2>2, CountsAreNat
    <3>4. (IF id = blocking'.got THEN 1 ELSE 0) = (IF id = blocking.got THEN 1 ELSE 0) + 0
          BY <2>2
    <3> QED BY <1>1, <3>1, <3>2, <3>3, <3>4, HeldDiffers
  <2>7. HeldNow(id) \in Nat /\ y + v = 0
        BY <1>1, HeldNowIsNat
  <2>8. HeldNow(id)' = HeldNow(id)
        BY <2>6, <2>7
  <2> QED BY <1>1, <2>2, <2>8, IdSame
<1>6. CASE \E op \in Processing, limited \in BOOLEAN : StartProcessing(op, limited)
      BY <1>1, <1>6, PlainFields, IdSame DEF HeldNow
<1> QED BY <1>4, <1>5, <1>6

\* A consumer that is set up takes no event with it that is still to settle.
LEMMA ConsumeCounts ==
    ASSUME CallsInv, Live, CallTypes', NEW tag \in Tags, NEW ackless \in BOOLEAN,
           Consumes(tag, ackless), NEW id \in Deliveries, IdAt(id)
    PROVE  IdAt(id)'
<1>1. CallTypes /\ GeneratorsGone
      BY AccountedLive
<1>2. /\ id # 0 /\ wire.out \in Seq(OutFrames) /\ app.given \subseteq Deliveries
      /\ 0 \notin Deliveries
      /\ broker.sent \in Nat /\ blocking.genEvents \in Seq(GeneratorEvents)
  <2>1. /\ WireType /\ AppType /\ BrokerType /\ BlockingType
        /\ id # 0 /\ 0 \notin Deliveries
        BY <1>1 DEF CallTypes, Deliveries
  <2>2. wire.out \in Seq(OutFrames) /\ blocking.genEvents \in Seq(GeneratorEvents)
        BY <2>1 DEF WireType, BlockingType
  <2>3. app.given \subseteq Deliveries /\ broker.sent \in Nat
        BY <2>1 DEF AppType, BrokerType
  <2> QED BY <2>1, <2>2, <2>3
<1>3. /\ Frame("consume", Number, tag, 0) \in OutFrames
      /\ wire'.out = Append(wire.out, Frame("consume", Number, tag, 0)) /\ wire'.in = wire.in
      /\ broker' = broker /\ blocking'.got = blocking.got /\ blocking'.pending = blocking.pending
      /\ app'.given = app.given \ {0}
      BY ConsumeFields
<1>4. CountOf(wire'.out, id) = CountOf(wire.out, id)
      BY <1>1, <1>2, <1>3, MadeTypes, AppendCounts, CountsAreNat
<1>5. app'.given = app.given
      BY <1>2, <1>3
<1>6. CASE blocking'.genEvents = blocking.genEvents
      BY <1>1, <1>3, <1>4, <1>5, <1>6, IdSame DEF HeldNow, Held
<1>7. CASE blocking'.genEvents = <<>> /\ blocking.generator = None
  <2> DEFINE n == CountOf(blocking.genEvents, id)
  <2>1. n \in Nat /\ CountOf(<<>>, id) = 0
        BY <1>2, CountType
  <2>2. id \in broker.unacked => n = 0
        BY <1>1, <1>2, <1>7, CountType DEF GeneratorsGone, Free, Unacked
  <2> HIDE DEF n
  <2>3. HeldNow(id)' = HeldNow(id) - n
        BY <1>1, <1>3, <1>4, <1>5, <1>7, <2>1, CountsAreNat DEF HeldNow, Held, n
  <2>4. HeldNow(id) \in Nat
        BY <1>1, HeldNowIsNat
  <2>5. /\ broker.sent <= broker'.sent /\ HeldNow(id)' <= HeldNow(id)
        /\ id \in broker'.unacked => id \in broker.unacked /\ HeldNow(id)' = HeldNow(id)
        BY <1>2, <1>3, <2>1, <2>2, <2>3, <2>4
  <2> QED BY <1>1, <2>5, IdMoves
<1>8. \/ blocking'.genEvents = blocking.genEvents
      \/ blocking'.genEvents = <<>> /\ blocking.generator = None
      BY ConsumeFields
<1> QED BY <1>6, <1>7, <1>8

\* What a cancellation rejects leaves the queues for the wire.
LEMMA CancelCounts ==
    ASSUME CallsInv, CallTypes', NEW tag \in Tags, NEW n \in 0..Len(blocking.genEvents),
           Cancels(tag, n), NEW id \in Deliveries, IdAt(id)
    PROVE  IdAt(id)'
<1> DEFINE gen == blocking.genEvents
           pre == SubSeq(gen, 1, n)
           post == SubSeq(gen, n + 1, Len(gen))
           sent == Rejected(tag, n)
           request == CancelFrames(tag)
<1>1. CallTypes
      BY DEF CallsInv
<1>2. /\ id # 0 /\ wire.out \in Seq(OutFrames) /\ gen \in Seq(GeneratorEvents)
      /\ BlockingType
      BY <1>1 DEF CallTypes, WireType, BlockingType, Deliveries
<1>3. /\ sent \in Seq(OutFrames) /\ request \in Seq(OutFrames)
      /\ wire'.out = (wire.out \o sent) \o request
      BY CancelFields
<1>4. /\ wire'.in = wire.in /\ broker' = broker /\ blocking'.got = blocking.got
      /\ app'.given = app.given
      /\ tag \notin blocking.ackless => blocking'.pending = Without(tag) /\
                                        blocking'.genEvents = post
      /\ tag \in blocking.ackless =>
             blocking'.pending = blocking.pending /\ blocking'.genEvents = gen
      BY CancelFields
<1>5. CountOf(request, id) = 0
  <2>1. CountOf(<<>>, id) = 0
        BY <1>2, CountType
  <2>2. Frame("cancel", Number, tag, 0).id = 0 /\ Frame("cancel", Number, tag, 0) \in OutFrames
    <3>1. Frame("cancel", Number, tag, 0).id = 0
          BY MadeTypes
    <3>2. Frame("cancel", Number, tag, 0) \in OutFrames
          BY CancelFields
    <3> QED BY <3>1, <3>2
  <2>3. CountOf(<<Frame("cancel", Number, tag, 0)>>, id)
            = (IF Frame("cancel", Number, tag, 0).id = id THEN 1 ELSE 0)
        BY <2>2, CountOne
  <2> QED BY <1>2, <2>1, <2>2, <2>3 DEF CancelFrames
<1>6. CountOf(wire'.out, id) = CountOf(wire.out, id) + CountOf(sent, id)
  <2>1. wire.out \o sent \in Seq(OutFrames)
        BY <1>2, <1>3, StreamTypes
  <2>2. CountOf((wire.out \o sent) \o request, id)
            = CountOf(wire.out \o sent, id) + CountOf(request, id)
        BY <1>3, <2>1, CountJoin
  <2>3. CountOf(wire.out \o sent, id) = CountOf(wire.out, id) + CountOf(sent, id)
        BY <1>2, <1>3, CountJoin
  <2>4. CountOf(wire.out \o sent, id) \in Nat
        BY <2>1, CountType
  <2> QED BY <1>3, <1>5, <2>2, <2>3, <2>4
<1>7. CountOf(gen, id) = CountOf(pre, id) + CountOf(post, id)
  <2>1. pre \in Seq(GeneratorEvents) /\ post \in Seq(GeneratorEvents) /\ gen = pre \o post
        BY <1>2, CutProperties
  <2> HIDE DEF gen, pre, post
  <2>2. CountOf(pre \o post, id) = CountOf(pre, id) + CountOf(post, id)
        BY <2>1, CountJoin
  <2> QED BY <2>1, <2>2
<1>8. CountOf(blocking.pending, id) = CountOf(Of(tag), id) + CountOf(Without(tag), id)
      BY <1>2, PendingParts
<1>9. /\ CountOf(pre, id) \in Nat /\ CountOf(post, id) \in Nat
      /\ CountOf(Of(tag), id) \in Nat /\ CountOf(Without(tag), id) \in Nat
      BY <1>2, CutProperties, PendingParts, CountType
<1>10. tag \notin blocking.ackless => CountOf(sent, id) = CountOf(pre, id) + CountOf(Of(tag), id)
      BY <1>1, CancelTypes DEF Cancels, Rejected
<1>11. tag \in blocking.ackless => CountOf(sent, id) = 0
      BY <1>2, CountType DEF Rejected
<1>12. /\ CountOf(wire.in, id) \in Nat /\ CountOf(wire.out, id) \in Nat
      BY <1>1, CountsAreNat
<1> DEFINE a == CountOf(wire.in, id)
           b == CountOf(wire.out, id)
           s == CountOf(sent, id)
           p == CountOf(pre, id)
           q == CountOf(post, id)
           o == CountOf(Of(tag), id)
           w == CountOf(Without(tag), id)
           g == IF id \in app.given THEN 1 ELSE 0
           h == IF id = blocking.got THEN 1 ELSE 0
<1>13. g \in Nat /\ h \in Nat
      OBVIOUS
<1>14. HeldNow(id) = a + b + (o + w) + (p + q) + g + h
      BY <1>7, <1>8 DEF HeldNow, Held
<1>15. CASE tag \notin blocking.ackless
  <2>1. HeldNow(id)' = a + (b + s) + w + q + g + h
        BY <1>4, <1>6, <1>15 DEF HeldNow, Held
  <2>2. s = p + o
        BY <1>10, <1>15
  <2>3. a \in Nat /\ b \in Nat /\ o \in Nat /\ w \in Nat /\ p \in Nat /\ q \in Nat
        BY <1>9, <1>12
  <2> HIDE DEF a, b, s, p, q, o, w, g, h
  <2>4. HeldNow(id)' = HeldNow(id)
        BY <1>13, <1>14, <2>1, <2>2, <2>3
  <2> QED BY <1>1, <1>4, <2>4, IdSame
<1>16. CASE tag \in blocking.ackless
      BY <1>1, <1>4, <1>6, <1>11, <1>12, <1>16, IdSame DEF HeldNow, Held
<1> QED BY <1>15, <1>16

\* No call of the application loses or doubles a delivery.
LEMMA AppCounts ==
    ASSUME CallsInv, Live, CallTypes', AppCalls \/ AppTimers, NEW id \in Deliveries, IdAt(id)
    PROVE  IdAt(id)'
<1>1. CallTypes
      BY DEF CallsInv
<1>2. CASE AppCalls
      BY <1>2, AppKinds, PlainCounts, ConsumeCounts, CancelCounts
<1>3. CASE AppTimers
      BY <1>1, <1>3, IdSame DEF AppTimers, CallLater, RemoveTimeout, CallTypes, AppType, HeldNow
<1> QED BY <1>2, <1>3

\* An event that is added holds what its frame held.
LEMMA AddedCounts ==
    ASSUME CallTypes, NEW tag \in Tags \cup {None}, NEW e, Added(tag, e), NEW id \in Deliveries
    PROVE  CountOf(blocking'.pending, id) + CountOf(blocking'.genEvents, id) =
               CountOf(blocking.pending, id) + CountOf(blocking.genEvents, id)
                   + (IF e.id = id THEN 1 ELSE 0)
<1>1. /\ blocking.pending \in Seq(ChannelEvents) /\ blocking.genEvents \in Seq(GeneratorEvents)
      BY DEF CallTypes, BlockingType
<1>2. CountOf(blocking.pending, id) \in Nat /\ CountOf(blocking.genEvents, id) \in Nat
      BY CountsAreNat
<1>3. CASE tag \in GeneratorTags
  <2>1. /\ blocking'.genEvents = Append(blocking.genEvents, e) /\ e \in GeneratorEvents
        /\ blocking'.pending = blocking.pending
        BY <1>3 DEF Added
  <2>2. CountOf(Append(blocking.genEvents, e), id)
            = CountOf(blocking.genEvents, id) + (IF e.id = id THEN 1 ELSE 0)
        BY <1>1, <2>1, AppendCounts
  <2> QED BY <1>2, <2>1, <2>2
<1>4. CASE tag \notin GeneratorTags
  <2>1. /\ blocking'.pending = Append(blocking.pending, e) /\ e \in ChannelEvents
        /\ blocking'.genEvents = blocking.genEvents
        BY <1>4 DEF Added
  <2>2. CountOf(Append(blocking.pending, e), id)
            = CountOf(blocking.pending, id) + (IF e.id = id THEN 1 ELSE 0)
        BY <1>1, <2>1, AppendCounts
  <2> QED BY <1>2, <2>1, <2>2
<1> QED BY <1>3, <1>4

\* What a frame changes of an id's places, given what becomes of the id at its head.
LEMMA HeadMoves ==
    ASSUME CallTypes, CallTypes', Frames, NEW id \in Deliveries, IdAt(id),
           NEW y \in {0, 1}, NEW z \in {0, 1}, NEW w \in {0, 1},
           CountOf(wire'.out, id) = CountOf(wire.out, id) + y,
           CountOf(blocking'.pending, id) + CountOf(blocking'.genEvents, id) =
               CountOf(blocking.pending, id) + CountOf(blocking.genEvents, id) + z,
           (IF id = blocking'.got THEN 1 ELSE 0) = (IF id = blocking.got THEN 1 ELSE 0) + w,
           y + z + w <= (IF Head(wire.in).id = id THEN 1 ELSE 0),
           id \in broker.unacked => y + z + w = (IF Head(wire.in).id = id THEN 1 ELSE 0)
    PROVE  IdAt(id)'
<1>1. /\ wire.in \in Seq(InFrames) /\ wire.in # <<>> /\ wire'.in = Tail(wire.in)
      /\ broker' = broker /\ app'.given = app.given /\ broker.sent \in Nat
      BY FrameFields, RoundKeeps DEF Rounds, CallTypes, WireType, BrokerType
<1>2. CountOf(Tail(wire.in), id) = CountOf(wire.in, id) - (IF Head(wire.in).id = id THEN 1 ELSE 0)
      BY <1>1, HeadCounts
<1>3. /\ CountOf(wire.in, id) \in Nat /\ CountOf(wire.out, id) \in Nat
      /\ CountOf(blocking.pending, id) \in Nat /\ CountOf(blocking.genEvents, id) \in Nat
      BY CountsAreNat
<1>4. CountOf(blocking'.pending, id) \in Nat /\ CountOf(blocking'.genEvents, id) \in Nat
      BY CountType DEF CallTypes, BlockingType
<1> DEFINE a == CountOf(wire.in, id)
           b == CountOf(wire.out, id)
           c == CountOf(blocking.pending, id)
           d == CountOf(blocking.genEvents, id)
           cc == CountOf(blocking'.pending, id)
           dd == CountOf(blocking'.genEvents, id)
           x == IF Head(wire.in).id = id THEN 1 ELSE 0
           g == IF id \in app.given THEN 1 ELSE 0
           h == IF id = blocking.got THEN 1 ELSE 0
           hh == IF id = blocking'.got THEN 1 ELSE 0
<1>5. HeldNow(id) = a + b + c + d + g + h
      BY DEF HeldNow, Held
<1>6. HeldNow(id)' = (a - x) + (b + y) + cc + dd + g + hh
      BY <1>1, <1>2 DEF HeldNow, Held
<1>7. /\ a \in Nat /\ b \in Nat /\ c \in Nat /\ d \in Nat /\ cc \in Nat /\ dd \in Nat
      /\ x \in Nat /\ g \in Nat /\ h \in Nat /\ cc + dd = c + d + z /\ hh = h + w
      /\ y + z + w <= x /\ (id \in broker.unacked => y + z + w = x)
      /\ y \in Nat /\ z \in Nat /\ w \in Nat /\ hh \in Nat
      BY <1>3, <1>4
<1> HIDE DEF a, b, c, d, cc, dd, x, g, h, hh
<1>8. /\ HeldNow(id)' <= HeldNow(id)
      /\ id \in broker.unacked => HeldNow(id)' = HeldNow(id)
      BY <1>5, <1>6, <1>7
<1>9. broker.sent <= broker'.sent
      BY <1>1
<1> QED BY <1>1, <1>8, <1>9, IdMoves

\* Each frame takes its id along.
LEMMA FrameCounts ==
    ASSUME CallsInv, Live, CallTypes', Frames, channel'.state = "open",
           NEW id \in Deliveries, IdAt(id)
    PROVE  IdAt(id)'
<1> DEFINE x == Head(wire.in)
<1>1. /\ CallTypes /\ AcklessFree /\ (\A t \in Tags : Lane(t))
      BY AccountedLive
<1>2. /\ wire.in # <<>> /\ x \in InFrames
      /\ \/ GotReply(x) \/ GotReturn(x) \/ GotDelivery(x)
         \/ GotCancel(x) \/ GotClose(x) \/ GotBlocked(x)
      BY <1>1, FrameFields
<1>3. id # 0 /\ id \in Nat
      BY DEF Deliveries
<1>4. x.type \notin {"deliver", "getOk"} => x.id # id
      BY <1>2, <1>3 DEF InFrames
<1>5. /\ CountOf(wire.out, id) \in Nat
      /\ CountOf(blocking.pending, id) \in Nat /\ CountOf(blocking.genEvents, id) \in Nat
      BY <1>1, CountsAreNat
<1>6. wire.in \in Seq(InFrames) /\ wire.out \in Seq(OutFrames)
      BY <1>1 DEF CallTypes, WireType
<1>7. ASSUME wire'.out = wire.out, SameQueues
      PROVE  /\ CountOf(wire'.out, id) = CountOf(wire.out, id) + 0
             /\ CountOf(blocking'.pending, id) + CountOf(blocking'.genEvents, id) =
                    CountOf(blocking.pending, id) + CountOf(blocking.genEvents, id) + 0
      BY <1>5, <1>7 DEF SameQueues
<1>8. ASSUME wire'.out = wire.out, x.id # id, blocking'.got = blocking.got,
             CountOf(blocking'.pending, id) + CountOf(blocking'.genEvents, id) =
                 CountOf(blocking.pending, id) + CountOf(blocking.genEvents, id) + 0
      PROVE  IdAt(id)'
      BY <1>1, <1>5, <1>8, HeadMoves
<1>9. ASSUME NEW tag \in Tags \cup {None}, NEW e, Added(tag, e), e.id = 0
      PROVE  CountOf(blocking'.pending, id) + CountOf(blocking'.genEvents, id) =
                 CountOf(blocking.pending, id) + CountOf(blocking.genEvents, id) + 0
      BY <1>1, <1>3, <1>9, AddedCounts
<1> HIDE DEF x
<1>10. \A type, tag, i : Event(type, tag, i).id = i
      BY EventTypes
<1>11. CASE GotReply(x) /\ x.type # "getOk"
      BY <1>4, <1>7, <1>8, <1>11 DEF GotReply, Kinds
<1>12. CASE GotReply(x) /\ x.type = "getOk"
  <2>1. wire'.out = wire.out /\ SameQueues /\ blocking'.got = x.id /\ x.type \in Kinds
        BY <1>12 DEF GotReply
  <2>2. blocking.got = 0
        BY <1>2, <2>1, HeadReply DEF CallsInv, CallTypes, x, Getting, Kinds
  <2> DEFINE w == IF x.id = id THEN 1 ELSE 0
  <2>3. w \in {0, 1} /\ 0 \in {0, 1} /\ 0 + 0 + w = w /\ w <= w
        OBVIOUS
  <2>4. (IF id = blocking'.got THEN 1 ELSE 0) = (IF id = blocking.got THEN 1 ELSE 0) + w
        BY <1>3, <2>1, <2>2
  <2>5. w = (IF Head(wire.in).id = id THEN 1 ELSE 0)
        BY DEF x
  <2>6. /\ CountOf(wire'.out, id) = CountOf(wire.out, id) + 0
        /\ CountOf(blocking'.pending, id) + CountOf(blocking'.genEvents, id) =
               CountOf(blocking.pending, id) + CountOf(blocking.genEvents, id) + 0
        BY <1>7, <2>1
  <2> HIDE DEF w
  <2> QED BY <1>1, <2>3, <2>4, <2>5, <2>6, HeadMoves
<1>13. CASE GotReturn(x)
      BY <1>4, <1>7, <1>8, <1>9, <1>10, <1>13 DEF GotReturn, SameResults
<1>14. CASE GotCancel(x)
      BY <1>4, <1>8, <1>9, <1>10, <1>14 DEF GotCancel, SameResults
<1>15. CASE GotBlocked(x)
      BY <1>4, <1>7, <1>8, <1>15 DEF GotBlocked, SameQueues
<1>16. CASE GotDelivery(x)
  <2>1. /\ x.type = "deliver" /\ x.tag \in Tags /\ x.id \in Deliveries
        /\ blocking'.got = blocking.got
        BY <1>16 DEF GotDelivery, SameResults
  <2> DEFINE one == IF x.id = id THEN 1 ELSE 0
  <2>2. /\ one \in {0, 1} /\ 0 \in {0, 1} /\ 0 + one + 0 = one /\ one + 0 + 0 = one
        /\ one <= one /\ 0 + 0 + 0 <= one
        OBVIOUS
  <2>3. one = (IF Head(wire.in).id = id THEN 1 ELSE 0)
        BY DEF x
  <2>4. (IF id = blocking'.got THEN 1 ELSE 0) = (IF id = blocking.got THEN 1 ELSE 0) + 0
        BY <2>1
  <2>5. CASE channel.tags[x.tag] = "cancelling"
    <3>1. SameQueues
          BY <1>16, <2>5 DEF GotDelivery
    <3>2. CountOf(blocking'.pending, id) + CountOf(blocking'.genEvents, id) =
              CountOf(blocking.pending, id) + CountOf(blocking.genEvents, id) + 0
          BY <1>5, <3>1 DEF SameQueues
    <3>3. CASE x.tag \in channel.ackless
      <4>1. wire'.out = wire.out
            BY <1>16, <2>5, <3>3 DEF GotDelivery
      <4>2. CountOf(wire'.out, id) = CountOf(wire.out, id) + 0
            BY <1>5, <4>1
      <4>3. x.id \notin broker.unacked
        <5>1. x.tag \in blocking.ackless
              BY <1>1, <2>1, <2>5, <3>3 DEF Lane
        <5>2. x \in Delivered
              BY <1>2, <2>1 DEF Delivered
        <5>3. x \notin AcklessUnacked(Delivered)
              BY <1>1, <1>2, <1>6, HeadFrame DEF AcklessFree, x
        <5> QED BY <5>1, <5>2, <5>3 DEF AcklessUnacked, Unacked
      <4>4. id \in broker.unacked => 0 + 0 + 0 = one
            BY <4>3
      <4> HIDE DEF one
      <4> QED BY <1>1, <2>2, <2>3, <2>4, <3>2, <4>2, <4>4, HeadMoves
    <3>4. CASE x.tag \notin channel.ackless
      <4> DEFINE f == Frame("settle", 0, None, x.id)
      <4>1. wire'.out = Append(wire.out, f) /\ f \in OutFrames
            BY <1>16, <2>5, <3>4 DEF GotDelivery
      <4>2. f.id = x.id
            BY MadeTypes
      <4> HIDE DEF f
      <4>3. CountOf(Append(wire.out, f), id) = CountOf(wire.out, id) + (IF f.id = id THEN 1 ELSE 0)
            BY <1>6, <4>1, AppendCounts
      <4>4. CountOf(wire'.out, id) = CountOf(wire.out, id) + one
            BY <4>1, <4>2, <4>3
      <4> HIDE DEF one
      <4> QED BY <1>1, <2>2, <2>3, <2>4, <3>2, <4>4, HeadMoves
    <3> QED BY <3>3, <3>4
  <2>6. CASE channel.tags[x.tag] = "none"
    <3>1. Free(wire.in, About(x.tag))
          BY <1>1, <2>1, <2>6 DEF Lane, WireLane
    <3>2. x \in About(x.tag)
          BY <1>2, <2>1 DEF About, FramesOf
    <3>3. Free(wire.in, About(x.tag)) => Head(wire.in) \notin About(x.tag)
          BY <1>2, <1>6, HeadFrame
    <3> QED BY <3>1, <3>2, <3>3 DEF x
  <2>7. CASE channel.tags[x.tag] = "consuming"
        BY <1>1, <1>5, <1>10, <1>16, <2>1, <2>2, <2>3, <2>4, <2>7, AddedCounts, HeadMoves DEF
           GotDelivery
  <2> QED BY <1>1, <2>1, <2>5, <2>6, <2>7 DEF CallTypes, ChannelType
<1>17. ~GotClose(x)
      BY DEF GotClose
<1> QED BY <1>2, <1>11, <1>12, <1>13, <1>14, <1>15, <1>16, <1>17

\* A new id has one place, and the others keep theirs.
LEMMA IdFresh ==
    ASSUME CallTypes, CallTypes', NEW id \in Deliveries, IdAt(id), broker'.sent = broker.sent + 1,
           broker'.unacked \subseteq broker.unacked \cup {broker.sent + 1},
           HeldNow(id)' = HeldNow(id) + (IF id = broker.sent + 1 THEN 1 ELSE 0)
    PROVE  IdAt(id)'
      BY HeldNowIsNat, PlacesHeld, IdMoves DEF CallTypes, BrokerType, Deliveries, HeldNow, IdAt

\* A frame that is written takes its id off the wire, and a message that is got
\* brings a new one.
LEMMA WriteCounts ==
    ASSUME CallsInv, Live, CallTypes', Write, NEW id \in Deliveries, IdAt(id)
    PROVE  IdAt(id)'
<1> DEFINE f == Head(wire.out)
<1>1. CallTypes
      BY DEF CallsInv
<1>2. /\ wire.out # <<>> /\ f \in OutFrames /\ blocking' = blocking
      /\ app' = [app EXCEPT !.call.stage = "round"] /\ wire'.out = Tail(wire.out)
      BY <1>1, WriteTypes
<1>3. app'.given = app.given
      BY <1>1, RoundKeeps DEF Rounds
<1>4. PICK frames \in Answers(f) :
          /\ frames \in Seq(InFrames) /\ wire'.in = wire.in \o frames
          /\ \/ /\ GotIds(frames) = {} /\ broker'.sent = broker.sent
                /\ broker'.unacked = IF f.type = "settle"
                                     THEN broker.unacked \ {f.id}
                                     ELSE broker.unacked
             \/ /\ GotIds(frames) = {broker.sent + 1} /\ broker'.sent = broker.sent + 1
                /\ f.type = "get" /\ broker.sent + 1 \in Deliveries
                /\ frames = <<Frame("getOk", f.n, None, broker.sent + 1)>>
                /\ broker'.unacked = broker.unacked \cup {broker.sent + 1}
      BY <1>1, WriteTypes
<1>5. wire.in \in Seq(InFrames) /\ wire.out \in Seq(OutFrames) /\ id \in Nat /\ id # 0
      BY <1>1 DEF CallTypes, WireType, Deliveries
<1>6. CountOf(wire'.in, id) = CountOf(wire.in, id) + CountOf(frames, id)
      BY <1>4, <1>5, CountJoin
<1>7. CountOf(wire'.out, id) = CountOf(wire.out, id) - (IF f.id = id THEN 1 ELSE 0)
      BY <1>2, <1>5, HeadCounts
<1>8. f.type # "settle" => f.id = 0
      BY <1>2 DEF OutFrames
<1> HIDE DEF f
<1> DEFINE a == CountOf(wire.in, id)
           b == CountOf(wire.out, id)
           c == CountOf(blocking.pending, id)
           d == CountOf(blocking.genEvents, id)
           g == IF id \in app.given THEN 1 ELSE 0
           h == IF id = blocking.got THEN 1 ELSE 0
           y == IF f.id = id THEN 1 ELSE 0
           n == CountOf(frames, id)
<1>9. /\ a \in Nat /\ b \in Nat /\ c \in Nat /\ d \in Nat
      BY <1>1, CountsAreNat
<1>10. n \in Nat
      BY <1>4, CountType
<1>11. /\ HeldNow(id) = a + b + c + d + g + h
       /\ HeldNow(id)' = (a + n) + (b - y) + c + d + g + h
      BY <1>2, <1>3, <1>6, <1>7 DEF HeldNow, Held
<1>12. HeldNow(id)' = HeldNow(id) + n - y /\ HeldNow(id) \in Nat
      BY <1>9, <1>10, <1>11
<1>13. broker.sent \in Nat
      BY <1>1 DEF CallTypes, BrokerType
<1> HIDE DEF a, b, c, d, g, h
<1>14. CASE /\ GotIds(frames) = {} /\ broker'.sent = broker.sent
            /\ broker'.unacked = IF f.type = "settle" THEN broker.unacked \ {f.id}
                                 ELSE broker.unacked
  <2>1. n = 0
    <3>1. \A i \in DOMAIN frames : frames[i].id # id
          BY <1>5, <1>14 DEF GotIds
    <3> QED BY <1>4, <3>1, CountType
  <2>2. y \in {0, 1} /\ HeldNow(id)' = HeldNow(id) - y
        BY <1>12, <2>1
  <2>3. id \in broker'.unacked => id \in broker.unacked /\ y = 0
        BY <1>5, <1>8, <1>14
  <2> HIDE DEF y, n
  <2>4. /\ HeldNow(id)' <= HeldNow(id) /\ broker.sent <= broker'.sent
        /\ id \in broker'.unacked => id \in broker.unacked /\ HeldNow(id)' = HeldNow(id)
        BY <1>12, <1>13, <1>14, <2>2, <2>3
  <2> QED BY <1>1, <2>4, IdMoves
<1>15. CASE /\ GotIds(frames) = {broker.sent + 1} /\ broker'.sent = broker.sent + 1
            /\ f.type = "get" /\ broker.sent + 1 \in Deliveries
            /\ frames = <<Frame("getOk", f.n, None, broker.sent + 1)>>
            /\ broker'.unacked = broker.unacked \cup {broker.sent + 1}
      BY <1>1, <1>4, <1>5, <1>8, <1>10, <1>12, <1>15, MadeTypes, CountOne, IdFresh
<1> QED BY <1>4, <1>14, <1>15

\* What the broker sends on its own.
LEMMA BrokerCounts ==
    ASSUME CallsInv, CallTypes', Broker, broker'.open, NEW id \in Deliveries, IdAt(id)
    PROVE  IdAt(id)'
<1>1. CallTypes
      BY DEF CallsInv
<1>2. /\ blocking' = blocking /\ app' = app /\ wire'.out = wire.out
      BY <1>1, BrokerFrames DEF Broker
<1>3. PICK x \in InFrames :
          /\ wire'.in = Append(wire.in, x)
          /\ \/ x.type = "close" /\ ~broker'.open
             \/ /\ x.id = 0 /\ broker'.unacked = broker.unacked /\ broker'.sent = broker.sent
             \/ /\ x.id = broker.sent + 1 /\ broker'.sent = broker.sent + 1
                /\ broker'.unacked \subseteq broker.unacked \cup {broker.sent + 1}
      BY <1>1, BrokerFrames DEF Broker
<1>4. wire.in \in Seq(InFrames) /\ id # 0 /\ broker.sent \in Nat /\ CountOf(wire.in, id) \in Nat
      BY <1>1, CountsAreNat DEF CallTypes, WireType, BrokerType, Deliveries
<1>5. CountOf(wire'.in, id) = CountOf(wire.in, id) + (IF x.id = id THEN 1 ELSE 0)
      BY <1>3, <1>4, AppendCounts
<1>6. HeldNow(id)' = HeldNow(id) + (IF x.id = id THEN 1 ELSE 0)
      BY <1>1, <1>2, <1>5, CountsAreNat DEF HeldNow, Held
<1>7. HeldNow(id) \in Nat
      BY <1>1, HeldNowIsNat
<1>8. CASE x.id = 0 /\ broker'.unacked = broker.unacked /\ broker'.sent = broker.sent
      BY <1>1, <1>4, <1>6, <1>7, <1>8, IdMoves
<1>9. CASE /\ x.id = broker.sent + 1 /\ broker'.sent = broker.sent + 1
           /\ broker'.unacked \subseteq broker.unacked \cup {broker.sent + 1}
      BY <1>1, <1>6, <1>9, IdFresh
<1> QED BY <1>3, <1>8, <1>9

\* The other steps of a round have no deliveries.
LEMMA RoundCounts ==
    ASSUME CallsInv, Live, CallTypes', Rounds, Live', NEW id \in Deliveries, IdAt(id)
    PROVE  IdAt(id)'
<1>1. CallTypes /\ broker.open /\ broker'.open /\ channel'.state = "open"
      BY DEF CallsInv, Live
<1>2. CASE Frames
      BY <1>1, <1>2, FrameCounts
<1>3. CASE Write
      BY <1>3, WriteCounts
<1>4. CASE ~Frames /\ ~Write
  <2>1. app'.given = app.given
        BY <1>1, RoundKeeps
  <2>2. blocking' = blocking /\ wire' = wire /\ broker' = broker
    <3>1. ~OnConnectionClosed
      <4>1. ASSUME OnConnectionClosed
            PROVE  FALSE
            BY <1>1, <4>1 DEF OnConnectionClosed, CallTypes, ChannelType
      <4> QED BY <4>1
    <3> QED BY <1>1, <1>4, <3>1 DEF Rounds, EndRound, WriteIgnored, LimitExpires, TimerReady
  <2>3. HeldNow(id)' = HeldNow(id)
        BY <2>1, <2>2 DEF HeldNow
  <2> QED BY <1>1, <2>2, <2>3, IdSame
<1> QED BY <1>2, <1>3, <1>4

\* An id that is in a queue, or got, is not with the application too.
LEMMA GivenOnce ==
    ASSUME CallTypes, NEW id \in Deliveries, IdAt(id)
    PROVE  /\ CountOf(blocking.pending, id) # 0 =>
                  CountOf(blocking.pending, id) = 1 /\ id \notin app.given
           /\ CountOf(blocking.genEvents, id) # 0 =>
                  CountOf(blocking.genEvents, id) = 1 /\ id \notin app.given
           /\ id = blocking.got => id \notin app.given
           /\ CountOf(blocking.pending, id) \in Nat /\ CountOf(blocking.genEvents, id) \in Nat
      BY CountsAreNat, PlacesHeld DEF HeldNow, IdAt, Held

\* Deliveries that move from the queues, or from the result, to the application.
LEMMA HandedOver ==
    ASSUME CallTypes, CallTypes', NEW id \in Deliveries, IdAt(id), wire' = wire, broker' = broker,
           NEW m \in {0, 1},
           CountOf(blocking.pending, id) + CountOf(blocking.genEvents, id)
                   + (IF id = blocking.got THEN 1 ELSE 0) =
               CountOf(blocking'.pending, id) + CountOf(blocking'.genEvents, id)
                   + (IF id = blocking'.got THEN 1 ELSE 0) + m,
           (IF id \in app'.given THEN 1 ELSE 0) = (IF id \in app.given THEN 1 ELSE 0) + m
    PROVE  IdAt(id)'
<1> DEFINE a == CountOf(wire.in, id)
           b == CountOf(wire.out, id)
           c == CountOf(blocking.pending, id)
           d == CountOf(blocking.genEvents, id)
           g == IF id \in app.given THEN 1 ELSE 0
           h == IF id = blocking.got THEN 1 ELSE 0
           cc == CountOf(blocking'.pending, id)
           dd == CountOf(blocking'.genEvents, id)
           gg == IF id \in app'.given THEN 1 ELSE 0
           hh == IF id = blocking'.got THEN 1 ELSE 0
<1>1. a \in Nat /\ b \in Nat /\ c \in Nat /\ d \in Nat /\ g \in Nat /\ h \in Nat
      BY CountsAreNat
<1>2. cc \in Nat /\ dd \in Nat /\ gg \in Nat /\ hh \in Nat
      BY CountType DEF CallTypes, BlockingType
<1>3. HeldNow(id) = a + b + c + d + g + h
      BY DEF HeldNow, Held
<1>4. HeldNow(id)' = a + b + cc + dd + gg + hh
      BY DEF HeldNow, Held
<1>5. c + d + h = cc + dd + hh + m /\ gg = g + m
      OBVIOUS
<1> HIDE DEF a, b, c, d, g, h, cc, dd, gg, hh
<1>6. HeldNow(id)' = HeldNow(id)
      BY <1>1, <1>2, <1>3, <1>4, <1>5
<1> QED BY <1>6, IdSame

\* An event that is handed over.
LEMMA DispatchCounts ==
    ASSUME CallsInv, CallTypes', Dispatches, NEW id \in Deliveries, IdAt(id)
    PROVE  IdAt(id)'
<1>1. CallTypes /\ CallAndDispatch
      BY DEF CallsInv
<1>2. /\ wire' = wire /\ broker' = broker /\ blocking'.got = blocking.got
      BY <1>1, DispatchKeeps
<1>3. /\ blocking.pending \in Seq(ChannelEvents) /\ blocking.genEvents \in Seq(GeneratorEvents)
      /\ id # 0
      BY <1>1 DEF CallTypes, BlockingType, Deliveries
<1>4. ASSUME blocking'.pending = blocking.pending, blocking'.genEvents = blocking.genEvents,
             app'.given = app.given
      PROVE  IdAt(id)'
      BY <1>1, <1>2, <1>4, IdSame DEF HeldNow
<1>5. ASSUME NEW U, NEW q \in Seq(U), q # <<>>, NEW rest \in Nat,
             \A e \in U : e.id # 0 <=> e.type = "delivery",
             CountOf(q, id) # 0 => CountOf(q, id) = 1 /\ id \notin app.given,
             CountOf(blocking.pending, id) + CountOf(blocking.genEvents, id)
                 = CountOf(q, id) + rest,
             CountOf(blocking'.pending, id) + CountOf(blocking'.genEvents, id)
                 = CountOf(Tail(q), id) + rest,
             app'.given = IF Head(q).type = "delivery" THEN app.given \cup {Head(q).id}
                          ELSE app.given
      PROVE  IdAt(id)'
  <2> DEFINE m == IF Head(q).id = id THEN 1 ELSE 0
             e == Head(q)
  <2>1. e \in U /\ Tail(q) \in Seq(U) /\ CountOf(Tail(q), id) = CountOf(q, id) - m
        BY <1>5, HeadCounts
  <2>2. CountOf(q, id) \in Nat
        BY CountType
  <2>3. CountOf(Tail(q), id) \in Nat
        BY <2>1, CountType
  <2>4. m # 0 => id \notin app.given
        BY <1>5, <2>1, <2>2, <2>3
  <2>5. (IF id \in app'.given THEN 1 ELSE 0) = (IF id \in app.given THEN 1 ELSE 0) + m
        BY <1>3, <1>5, <2>1, <2>4
  <2>6. CountOf(blocking.pending, id) + CountOf(blocking.genEvents, id)
                + (IF id = blocking.got THEN 1 ELSE 0) =
            CountOf(blocking'.pending, id) + CountOf(blocking'.genEvents, id)
                + (IF id = blocking'.got THEN 1 ELSE 0) + m
    <3> DEFINE s == CountOf(blocking.pending, id) + CountOf(blocking.genEvents, id)
               ss == CountOf(blocking'.pending, id) + CountOf(blocking'.genEvents, id)
               n == CountOf(q, id)
               k == CountOf(Tail(q), id)
               h == IF id = blocking.got THEN 1 ELSE 0
    <3>1. s = n + rest /\ ss = k + rest /\ k = n - m
          BY <1>5, <2>1
    <3>2. n \in Nat /\ k \in Nat /\ h \in Nat /\ m \in Nat
          BY <2>2, <2>3
    <3>3. (IF id = blocking'.got THEN 1 ELSE 0) = h
          BY <1>2
    <3> HIDE DEF s, ss, n, k, h, m
    <3>4. s + h = ss + h + m
          BY <1>5, <3>1, <3>2
    <3> QED BY <3>3, <3>4 DEF s, ss, h, m
  <2>7. m \in {0, 1}
        OBVIOUS
  <2> HIDE DEF m
  <2> QED BY <1>1, <1>2, <2>5, <2>6, <2>7, HandedOver
<1>6. CASE LoopEnds
  <2> DEFINE event == app.call.op = "next" /\ blocking.generator # None /\ blocking.genEvents # <<>>
             e == Head(blocking.genEvents)
  <2>1. /\ app' = [app EXCEPT !.call = NoCall,
                       !.given = IF event /\ e.type = "delivery" THEN @ \cup {e.id} ELSE @]
        /\ blocking' = IF ~event THEN blocking
                       ELSE [blocking EXCEPT !.genEvents = Tail(@),
                                !.generator = IF e.type = "cancellation" THEN None ELSE @]
        BY <1>6 DEF LoopEnds
  <2>2. /\ app'.given = IF event /\ e.type = "delivery" THEN app.given \cup {e.id} ELSE app.given
        /\ blocking'.pending = blocking.pending
        /\ blocking'.genEvents = IF event THEN Tail(blocking.genEvents) ELSE blocking.genEvents
        BY <1>1, <2>1 DEF CallTypes, BlockingType, AppType
  <2>3. CASE ~event
        BY <1>4, <2>2, <2>3
  <2>4. CASE event
    <3>1. \A x \in GeneratorEvents : x.id # 0 <=> x.type = "delivery"
          BY DEF GeneratorEvents
    <3>2. /\ CountOf(blocking.genEvents, id) # 0 =>
                 CountOf(blocking.genEvents, id) = 1 /\ id \notin app.given
          /\ CountOf(blocking.pending, id) \in Nat /\ CountOf(blocking.genEvents, id) \in Nat
          BY <1>1, GivenOnce
    <3>3. CountOf(Tail(blocking.genEvents), id) \in Nat
          BY <1>3, <2>4, StreamTypes, CountType
    <3>4. /\ blocking.genEvents # <<>>
          /\ CountOf(blocking.pending, id) + CountOf(blocking.genEvents, id)
                 = CountOf(blocking.genEvents, id) + CountOf(blocking.pending, id)
          /\ CountOf(blocking'.pending, id) + CountOf(blocking'.genEvents, id)
                 = CountOf(Tail(blocking.genEvents), id) + CountOf(blocking.pending, id)
          BY <2>2, <2>4, <3>2, <3>3
    <3>5. app'.given = IF Head(blocking.genEvents).type = "delivery"
                       THEN app.given \cup {Head(blocking.genEvents).id} ELSE app.given
          BY <2>2, <2>4
    <3> HIDE DEF event
    <3> QED BY <1>3, <1>5, <3>1, <3>2, <3>4, <3>5
  <2> QED BY <2>3, <2>4
<1>7. CASE DispatchEvent
  <2> DEFINE e == Head(blocking.pending)
  <2>1. /\ blocking.pending # <<>>
        /\ blocking' = [blocking EXCEPT !.pending = Tail(@),
               !.infos = IF e.type = "cancellation" THEN [@ EXCEPT ![e.tag] = "none"] ELSE @]
        /\ app' = [app EXCEPT !.given = IF e.type = "delivery" THEN @ \cup {e.id} ELSE @]
        BY <1>7 DEF DispatchEvent
  <2>2. /\ app'.given = IF e.type = "delivery" THEN app.given \cup {e.id} ELSE app.given
        /\ blocking'.pending = Tail(blocking.pending) /\ blocking'.genEvents = blocking.genEvents
        BY <1>1, <2>1 DEF CallTypes, BlockingType, AppType
  <2>3. \A x \in ChannelEvents : x.id # 0 <=> x.type = "delivery"
        BY DEF ChannelEvents
  <2>4. /\ CountOf(blocking.pending, id) # 0 =>
               CountOf(blocking.pending, id) = 1 /\ id \notin app.given
        /\ CountOf(blocking.genEvents, id) \in Nat
        BY <1>1, GivenOnce
  <2>5. CountOf(blocking'.pending, id) + CountOf(blocking'.genEvents, id)
            = CountOf(Tail(blocking.pending), id) + CountOf(blocking.genEvents, id)
        BY <2>2
  <2> QED BY <1>3, <1>5, <2>1, <2>2, <2>3, <2>4, <2>5
<1>8. CASE ~LoopEnds /\ ~DispatchEvent
      BY <1>1, <1>4, <1>8 DEF Dispatches, EnterProcessing, FlushEnds, DispatchReady,
         DispatchChannel, EndDispatch, CallbackReturns, CallbackRaises, CallTypes, AppType
<1> QED BY <1>6, <1>7, <1>8

\* A call that returns hands its message, or the events of its consumer, over.
LEMMA ReturnCounts ==
    ASSUME CallsInv, CallTypes', CallReturns, NEW id \in Deliveries, IdAt(id)
    PROVE  IdAt(id)'
<1> DEFINE c == app.call
<1>1. CallTypes /\ BlockingType /\ c \in Calls /\ CallShape(c) /\ c.op \in Answered
      BY DEF CallReturns, CallDone, CallsInv, CallAndDispatch, CallTypes, AppType
<1>2. /\ blocking' = Ended(c, FALSE) /\ app'.given = app.given \cup Given(c)
      /\ wire' = wire /\ broker' = broker
      BY <1>1 DEF CallReturns, CallTypes, AppType
<1>3. /\ blocking'.pending = (IF c.op = "cancel" THEN Without(c.tag) ELSE blocking.pending)
      /\ blocking'.genEvents = blocking.genEvents
      /\ blocking'.got = (IF c.op = "get" THEN 0 ELSE blocking.got)
      BY <1>1, <1>2, EndedFields
<1> HIDE DEF c
<1>4. /\ CountOf(blocking.pending, id) # 0 =>
             CountOf(blocking.pending, id) = 1 /\ id \notin app.given
      /\ id = blocking.got => id \notin app.given
      /\ CountOf(blocking.pending, id) \in Nat /\ CountOf(blocking.genEvents, id) \in Nat
      BY <1>1, GivenOnce
<1>5. id # 0
      BY DEF Deliveries
<1>6. CASE c.op = "get"
  <2>1. Given(c) = {blocking.got} \ {0}
        BY <1>6 DEF Given
  <2>2. blocking'.pending = blocking.pending /\ blocking'.got = 0
        BY <1>3, <1>6
  <2> DEFINE m == IF id = blocking.got THEN 1 ELSE 0
  <2>3. (IF id \in app'.given THEN 1 ELSE 0) = (IF id \in app.given THEN 1 ELSE 0) + m
        BY <1>2, <1>4, <1>5, <2>1
  <2>4. CountOf(blocking.pending, id) + CountOf(blocking.genEvents, id)
                + (IF id = blocking.got THEN 1 ELSE 0) =
            CountOf(blocking'.pending, id) + CountOf(blocking'.genEvents, id)
                + (IF id = blocking'.got THEN 1 ELSE 0) + m
        BY <1>3, <1>4, <1>5, <2>2
  <2>5. m \in {0, 1}
        OBVIOUS
  <2> HIDE DEF m
  <2> QED BY <1>1, <1>2, <2>3, <2>4, <2>5, HandedOver
<1>7. CASE c.op = "cancel"
  <2> DEFINE m == CountOf(Of(c.tag), id)
             n == CountOf(Without(c.tag), id)
  <2>1. Given(c) = {Of(c.tag)[i].id : i \in DOMAIN Of(c.tag)}
        BY <1>7 DEF Given
  <2>2. blocking'.pending = Without(c.tag) /\ blocking'.got = blocking.got
        BY <1>3, <1>7
  <2>3. /\ Of(c.tag) \in Seq(ChannelEvents) /\ Without(c.tag) \in Seq(ChannelEvents)
        /\ CountOf(blocking.pending, id) = m + n
        BY <1>1, PendingParts
  <2>4. m \in Nat /\ (m = 0 <=> \A i \in DOMAIN Of(c.tag) : Of(c.tag)[i].id # id)
        BY <2>3, CountType
  <2>5. n \in Nat
        BY <2>3, CountType
  <2>6. id \in Given(c) <=> m # 0
        BY <2>1, <2>4
  <2> DEFINE p == CountOf(blocking.pending, id)
  <2>7. m \in {0, 1} /\ (m # 0 => id \notin app.given)
        BY <1>4, <2>3, <2>4, <2>5
  <2>8. (IF id \in app'.given THEN 1 ELSE 0) = (IF id \in app.given THEN 1 ELSE 0) + m
        BY <1>2, <2>6, <2>7
  <2>9. CountOf(blocking.pending, id) + CountOf(blocking.genEvents, id)
                + (IF id = blocking.got THEN 1 ELSE 0) =
            CountOf(blocking'.pending, id) + CountOf(blocking'.genEvents, id)
                + (IF id = blocking'.got THEN 1 ELSE 0) + m
        BY <1>3, <1>4, <2>2, <2>3, <2>4, <2>5
  <2> HIDE DEF m
  <2> QED BY <1>1, <1>2, <2>7, <2>8, <2>9, HandedOver
<1>8. CASE c.op \notin {"get", "cancel"}
      BY <1>1, <1>2, <1>3, <1>8, IdSame DEF Given, HeldNow
<1> QED BY <1>6, <1>7, <1>8

\* What was live before a step that ends live.
LEMMA LiveBefore ==
    ASSUME CallsInv, Next, Live'
    PROVE  Live
<1>1. CallTypes
      BY DEF CallsInv
<1>2. CASE AppCalls \/ AppTimers
      BY <1>2, ConsumeFields, CancelFields, AppKinds DEF Plain, Settle, StartProcessing,
         AppTimers, CallLater, RemoveTimeout, CanCall, Live
<1>3. CASE Broker
      BY <1>1, <1>3, BrokerFrames DEF Broker, Live
<1>4. CASE Dispatches
      BY <1>1, <1>4, DispatchKeeps DEF CallsInv, Live
<1>5. CASE CallReturns \/ CallRaises
      BY <1>5 DEF CallReturns, CallRaises, Live
<1>6. CASE Rounds
  <2>1. CASE Frames
        BY <1>1, <2>1, FrameFields DEF GotReply, GotReturn, GotDelivery, GotCancel, GotClose,
           GotBlocked, Live
  <2>2. CASE Write
        BY <1>1, <2>2, WriteTypes DEF Live
  <2>3. CASE OnConnectionClosed
        BY <1>1, <2>3 DEF OnConnectionClosed, CallTypes, ChannelType, Live
  <2>4. CASE Rounds /\ ~Frames /\ ~Write /\ ~OnConnectionClosed
        BY <2>4 DEF Rounds, EndRound, WriteIgnored, LimitExpires, TimerReady, Live
  <2> QED BY <1>6, <2>1, <2>2, <2>3, <2>4
<1> QED BY <1>2, <1>3, <1>4, <1>5, <1>6, StepKinds

\* Each delivery stays in one place.
LEMMA CountsHold ==
    ASSUME CallsInv, Next, CallTypes', Live', NEW id \in Deliveries
    PROVE  IdAt(id)'
      BY LiveBefore, AccountedLive, AppCounts, RoundCounts, BrokerCounts, DispatchCounts,
         ReturnCounts, StepKinds DEF Live, CallRaises

\* What becomes of the broker's deliveries.
BrokerSame == broker'.sent = broker.sent /\ broker'.ackless = broker.ackless
              /\ broker'.unacked \subseteq broker.unacked
BrokerSends1 ==
    /\ broker'.sent = broker.sent + 1 /\ broker.sent + 1 \in Deliveries
    /\ \/ /\ broker'.unacked = broker.unacked \cup {broker.sent + 1}
          /\ broker'.ackless = broker.ackless
       \/ /\ broker'.unacked = broker.unacked
          /\ broker'.ackless = broker.ackless \cup {broker.sent + 1}

\* A step of a live channel sends at most one delivery, the next.
LEMMA BrokerSteps ==
    ASSUME CallsInv, Next, Live'
    PROVE  BrokerSame \/ BrokerSends1
<1>1. CallTypes /\ CallAndDispatch
      BY DEF CallsInv
<1>2. ASSUME broker' = broker
      PROVE  BrokerSame
      BY <1>2 DEF BrokerSame
<1>3. CASE AppCalls \/ AppTimers
      BY <1>2, <1>3, ConsumeFields, CancelFields, AppKinds DEF Plain, Settle, StartProcessing,
         AppTimers, CallLater, RemoveTimeout
<1>4. CASE Dispatches
      BY <1>1, <1>2, <1>4, DispatchKeeps
<1>5. CASE CallReturns \/ CallRaises
      BY <1>2, <1>5 DEF CallReturns, CallRaises
<1>6. CASE Rounds
      BY <1>1, <1>2, <1>6, FrameFields, WriteTypes DEF BrokerSame, BrokerSends1, Rounds,
         EndRound, WriteIgnored, LimitExpires, TimerReady, OnConnectionClosed
<1>7. CASE Broker
      BY <1>1, <1>7, BrokerFrames DEF Live, Broker, BrokerSends1, BrokerSame
<1> QED BY <1>3, <1>4, <1>5, <1>6, <1>7, StepKinds

\* Nothing that is on its way becomes unacknowledged: only what is new does.
Old(q) == \A i \in DOMAIN q : q[i].id \in broker'.unacked => q[i].id \in broker.unacked

\* What was on its way before a step is unacknowledged after it only if it was before.
LEMMA NothingNew ==
    ASSUME CallsInv, Next, Live'
    PROVE  /\ Old(wire.in) /\ Old(blocking.pending) /\ Old(blocking.genEvents)
           /\ Sides'
      BY LiveBefore, AccountedLive, NotSentYet, BrokerSteps DEF CallTypes, BrokerType,
         BrokerSame, Old, Sides, BrokerSends1, IdAt

\* A step only takes events from the queues, or a frame adds one.
QueuesLeft ==
    \A W : /\ Within(blocking'.pending, blocking.pending, W)
           /\ Within(blocking'.genEvents, blocking.genEvents, W)
FromHead(e) ==
    \/ e.id = 0
    \/ LET x == Head(wire.in) IN
       /\ x \in Delivered /\ x.tag \in Tags /\ channel.tags[x.tag] = "consuming"
       /\ e.tag = x.tag /\ e.id = x.id
QueueGrows ==
    /\ Frames /\ blocking'.generator = blocking.generator /\ blocking'.ackless = blocking.ackless
    /\ \E tag \in Tags \cup {None} : \E e : Added(tag, e) /\ e.tag = tag /\ FromHead(e)

\* Every step is one of the two.
LEMMA QueueSteps ==
    ASSUME CallsInv, Next, Live'
    PROVE  QueuesLeft \/ QueueGrows
<1>1. CallTypes /\ BlockingType /\ CallAndDispatch
      BY DEF CallsInv, CallTypes
<1>2. channel'.state = "open"
      BY DEF Live
<1>3. /\ blocking.pending \in Seq(ChannelEvents) /\ blocking.genEvents \in Seq(GeneratorEvents)
      BY <1>1 DEF BlockingType
<1>4. \A W : /\ Within(blocking.pending, blocking.pending, W)
             /\ Within(blocking.genEvents, blocking.genEvents, W)
             /\ Within(<<>>, blocking.genEvents, W)
             /\ blocking.pending # <<>> => Within(Tail(blocking.pending), blocking.pending, W)
             /\ blocking.genEvents # <<>> =>
                    Within(Tail(blocking.genEvents), blocking.genEvents, W)
      BY <1>3, WithinBasics
<1>5. \A W, tag : Within(Without(tag), blocking.pending, W)
      BY <1>1, PendingParts
<1>6. ASSUME blocking'.pending = blocking.pending, blocking'.genEvents = blocking.genEvents
      PROVE  QueuesLeft
      BY <1>4, <1>6 DEF QueuesLeft
<1>7. CASE AppCalls \/ AppTimers
  <2>1. ASSUME NEW tag \in Tags, NEW ackless \in BOOLEAN, Consumes(tag, ackless)
        PROVE  QueuesLeft
        BY <1>4, <2>1, ConsumeFields DEF QueuesLeft
  <2>2. ASSUME NEW tag \in Tags, NEW n \in 0..Len(blocking.genEvents), Cancels(tag, n)
        PROVE  QueuesLeft
    <3>1. /\ blocking'.pending = Without(tag) \/ blocking'.pending = blocking.pending
          /\ \/ blocking'.genEvents = blocking.genEvents
             \/ blocking'.genEvents = SubSeq(blocking.genEvents, n + 1, Len(blocking.genEvents))
          BY <2>2, CancelFields
    <3>2. \A W : Within(SubSeq(blocking.genEvents, n + 1, Len(blocking.genEvents)),
                        blocking.genEvents, W)
          BY <1>3, CutProperties
    <3> QED BY <1>4, <1>5, <3>1, <3>2 DEF QueuesLeft
  <2>3. ASSUME \/ \E op \in {"rpc", "select", "get", "publish"} : Plain(op)
               \/ \E id \in Deliveries : Settle(id)
               \/ \E op \in Processing, limited \in BOOLEAN : StartProcessing(op, limited)
        PROVE  QueuesLeft
        BY <1>6, <2>3 DEF Plain, Settle, StartProcessing
  <2>4. CASE AppTimers
        BY <1>6, <2>4 DEF AppTimers, CallLater, RemoveTimeout
  <2> QED BY <1>7, <2>1, <2>2, <2>3, <2>4, AppKinds
<1>8. CASE Broker
      BY <1>1, <1>6, <1>8, BrokerFrames DEF Broker
<1>9. CASE Rounds
  <2>1. CASE ~Frames
        BY <1>6, <1>9, <2>1 DEF Rounds, EndRound, Write, WriteIgnored, LimitExpires,
           OnConnectionClosed, TimerReady
  <2>2. CASE Frames
    <3> DEFINE x == Head(wire.in)
    <3>1. /\ wire.in # <<>> /\ x \in InFrames
          /\ \/ GotReply(x) \/ GotReturn(x) \/ GotDelivery(x)
             \/ GotCancel(x) \/ GotClose(x) \/ GotBlocked(x)
          BY <1>1, <2>2, FrameFields
    <3>2. ASSUME NEW tag \in Tags \cup {None}, NEW e, Added(tag, e), e.tag = tag, FromHead(e),
                 blocking'.generator = blocking.generator, blocking'.ackless = blocking.ackless
          PROVE  QueueGrows
          BY <2>2, <3>2 DEF QueueGrows
    <3>3. ASSUME SameQueues
          PROVE  QueuesLeft
          BY <1>6, <3>3 DEF SameQueues
    <3>4. \A type, tag, id : Event(type, tag, id).id = id /\ Event(type, tag, id).tag = tag
          BY EventTypes
    <3>5. CASE GotReply(x) \/ GotBlocked(x)
          BY <1>6, <3>3, <3>5 DEF GotReply, GotBlocked
    <3>6. CASE GotReturn(x)
          BY <3>2, <3>3, <3>4, <3>6 DEF GotReturn, SameConsumers, FromHead
    <3>7. CASE GotCancel(x)
          BY <3>2, <3>4, <3>7 DEF GotCancel, FromHead
    <3>8. CASE GotDelivery(x)
          BY <3>1, <3>2, <3>3, <3>4, <3>8 DEF GotDelivery, SameConsumers, FromHead, Delivered
    <3>9. ~GotClose(x)
          BY <1>2 DEF GotClose
    <3> QED BY <3>1, <3>5, <3>6, <3>7, <3>8, <3>9
  <2> QED BY <2>1, <2>2
<1>10. CASE Dispatches
  <2>1. CASE blocking' = blocking
        BY <1>6, <2>1
  <2>2. CASE LoopEnds /\ blocking' # blocking
        BY <1>1, <1>4, <2>2 DEF LoopEnds, BlockingType, QueuesLeft
  <2>3. CASE DispatchEvent
        BY <1>1, <1>4, <2>3 DEF DispatchEvent, BlockingType, QueuesLeft
  <2> QED BY <1>10, <2>1, <2>2, <2>3 DEF Dispatches, EnterProcessing, FlushEnds, DispatchReady,
     DispatchChannel, EndDispatch, CallbackReturns, CallbackRaises
<1>11. CASE CallReturns \/ CallRaises
  <2>1. CallReturns /\ app.call \in Calls /\ CallShape(app.call) /\ app.call.op \in Answered
        BY <1>1, <1>2, <1>11 DEF CallReturns, CallRaises, CallDone, CallTypes, AppType,
           CallAndDispatch
  <2>2. blocking' = Ended(app.call, FALSE)
        BY <2>1 DEF CallReturns
  <2>3. /\ blocking'.genEvents = blocking.genEvents
        /\ blocking'.pending = Without(app.call.tag) \/ blocking'.pending = blocking.pending
        BY <1>1, <2>1, <2>2, EndedFields
  <2> QED BY <1>4, <1>5, <2>3 DEF QueuesLeft
<1> QED BY <1>7, <1>8, <1>9, <1>10, <1>11, StepKinds

\* Deliveries come to the wire one at a time, from the broker.
Delivers(x) ==
    /\ wire'.in = Append(wire.in, x) /\ x \in InFrames
    /\ x.id = broker.sent + 1 /\ broker.sent + 1 \in Deliveries
    /\ blocking' = blocking
    /\ x.tag \in blocking.ackless => broker'.unacked = broker.unacked

\* Deliveries reach the wire from the broker alone.
LEMMA WireSteps ==
    ASSUME CallsInv, Next, Live'
    PROVE  Within(wire'.in, wire.in, Delivered) \/ \E x : Delivers(x)
<1>1. CallTypes /\ CallAndDispatch
      BY DEF CallsInv
<1>2. wire.in \in Seq(InFrames)
      BY <1>1 DEF CallTypes, WireType
<1>3. /\ Within(wire.in, wire.in, Delivered)
      /\ wire.in # <<>> => Within(Tail(wire.in), wire.in, Delivered)
      /\ \A x \in InFrames : x \notin Delivered => Within(Append(wire.in, x), wire.in, Delivered)
      /\ \A s \in Seq(InFrames) :
             Free(s, Delivered) => Within(wire.in \o s, wire.in, Delivered)
      BY <1>2, WithinBasics
<1>4. wire'.in = wire.in => Within(wire'.in, wire.in, Delivered)
      BY <1>3
<1>5. CASE AppCalls
      BY <1>4, <1>5, CallsAsk
<1>6. CASE AppTimers \/ Dispatches \/ CallReturns \/ CallRaises
      BY <1>1, <1>4, <1>6, DispatchKeeps DEF AppTimers, CallLater, RemoveTimeout, CallReturns,
         CallRaises
<1>7. CASE Rounds
  <2>1. CASE Frames
        BY <1>1, <1>3, <2>1, FrameFields
  <2>2. CASE Write
    <3>1. Head(wire.out) \in OutFrames
          BY <1>1, <2>2, WriteTypes
    <3>2. PICK frames \in Answers(Head(wire.out)) :
              frames \in Seq(InFrames) /\ wire'.in = wire.in \o frames
          BY <1>1, <2>2, WriteTypes
    <3>3. \A i \in DOMAIN frames : frames[i].type # "deliver"
          BY <1>1, <3>1, <3>2, AnswerShape
    <3>4. Free(frames, Delivered)
          BY <3>3 DEF Free, Delivered
    <3> QED BY <1>3, <3>2, <3>4
  <2>3. CASE EndRound \/ WriteIgnored \/ LimitExpires \/ \E t \in Timers : TimerReady(t)
        BY <1>1, <1>4, <2>3 DEF EndRound, WriteIgnored, LimitExpires, TimerReady, CallTypes,
           WireType
  <2>4. ~OnConnectionClosed
    <3>1. channel'.state = "open"
          BY DEF Live
    <3> QED BY <1>1, <3>1 DEF OnConnectionClosed, CallTypes, ChannelType
  <2> QED BY <1>7, <2>1, <2>2, <2>3, <2>4 DEF Rounds
<1>8. CASE Broker
      BY <1>1, <1>3, <1>8, BrokerFrames DEF Live, Broker, Delivers, Delivered
<1> QED BY <1>5, <1>6, <1>7, <1>8, StepKinds

\* The auto_ack consumers change only when one is set up.
LEMMA AcklessSteps ==
    ASSUME CallsInv, Next
    PROVE  \/ blocking'.ackless = blocking.ackless
           \/ \E tag \in Tags, ackless \in BOOLEAN : Consumes(tag, ackless)
<1>1. CallTypes /\ BlockingType /\ CallAndDispatch
      BY DEF CallsInv, CallTypes
<1>2. CASE AppCalls \/ AppTimers
      BY <1>2, CancelFields, AppKinds DEF Plain, Settle, StartProcessing, AppTimers, CallLater,
         RemoveTimeout
<1>3. CASE Broker
      BY <1>1, <1>3, BrokerFrames DEF Broker
<1>4. CASE Rounds
  <2>1. CASE Frames
    <3>1. CASE ~GotClose(Head(wire.in))
          BY <1>1, <2>1, <3>1, FrameFields DEF GotReply, GotReturn, GotDelivery, GotCancel,
             GotBlocked, SameConsumers
    <3>2. CASE GotClose(Head(wire.in))
          BY <1>1, <2>1, <3>2 DEF GotClose, Frames, OnReply, OnGetOk, OnGetEmpty, OnCancelOk,
             OnReturn, OnDeliver, OnCancel, OnBlocked, Receive, Got, OnChannelClose,
             BlockingType
    <3> QED BY <3>1, <3>2
  <2> QED BY <1>4, <2>1 DEF Rounds, EndRound, Write, WriteIgnored, LimitExpires,
     OnConnectionClosed, TimerReady
<1>5. CASE Dispatches
      BY <1>1, <1>5, DispatchKeeps
<1>6. CASE CallReturns \/ CallRaises
      BY <1>1, <1>6, EndedFields DEF CallReturns, CallRaises, CallDone, CallTypes, AppType,
         CallAndDispatch
<1> QED BY <1>2, <1>3, <1>4, <1>5, <1>6, StepKinds

\* A queue without deliveries to an auto_ack consumer that the broker counts stays
\* without them, unless the consumers change.
LEMMA StillAcklessFree ==
    ASSUME NEW q, Old(q), blocking'.ackless = blocking.ackless, NEW S,
           Free(q, AcklessUnacked(S))
    PROVE  Free(q, {x \in S : x.id \in broker'.unacked /\ x.tag \in blocking'.ackless})
      BY DEF Old, Free, AcklessUnacked, Unacked

\* What the broker counts, it does not deliver to an auto_ack consumer.
LEMMA AcklessHolds ==
    ASSUME CallsInv, Next, Live'
    PROVE  AcklessFree'
<1> DEFINE A(S) == {x \in S : x.id \in broker'.unacked /\ x.tag \in blocking'.ackless}
<1>1. SUFFICES /\ Free(wire'.in, A(Delivered)) /\ Free(blocking'.pending, A(ChannelEvents))
               /\ Free(blocking'.genEvents, A(GeneratorEvents))
      BY DEF AcklessFree, AcklessUnacked, Unacked, Delivered, InFrames, ChannelEvents,
         GeneratorEvents, Tags, Kinds, Free
<1>2. Live /\ Old(wire.in) /\ Old(blocking.pending) /\ Old(blocking.genEvents)
      BY LiveBefore, NothingNew
<1>3. /\ CallTypes /\ AcklessFree /\ (\A id \in Deliveries : IdAt(id))
      /\ \A t \in Tags : Lane(t)
      BY <1>2, AccountedLive
<1>4. /\ wire.in \in Seq(InFrames) /\ blocking.pending \in Seq(ChannelEvents)
      /\ blocking.genEvents \in Seq(GeneratorEvents) /\ broker.unacked \subseteq Deliveries
      BY <1>3 DEF CallTypes, WireType, BlockingType, BrokerType
<1>5. ASSUME NEW tag \in Tags, NEW ackless \in BOOLEAN, Consumes(tag, ackless)
      PROVE  /\ Free(wire'.in, A(Delivered)) /\ Free(blocking'.pending, A(ChannelEvents))
             /\ Free(blocking'.genEvents, A(GeneratorEvents))
  <2>1. /\ blocking.infos[tag] = "none" /\ channel.tags[tag] = "none"
        /\ wire'.in = wire.in /\ broker' = broker /\ blocking'.pending = blocking.pending
        /\ \A x \in Tags \ {tag} : x \in blocking'.ackless <=> x \in blocking.ackless
        /\ \/ tag \in CallbackTags /\ blocking'.genEvents = blocking.genEvents
           \/ blocking'.genEvents = <<>>
        BY <1>5, ConsumeFields
  <2>2. \A S : \A x \in A(S) : x.tag \in Tags \ {tag} => x \in AcklessUnacked(S)
        BY <2>1 DEF AcklessUnacked, Unacked
  <2>3. Lane(tag)
        BY <1>3
  <2>4. Free(wire'.in, A(Delivered))
    <3>1. Free(wire.in, About(tag))
          BY <2>1, <2>3 DEF Lane, WireLane
    <3>2. Free(wire.in, AcklessUnacked(Delivered))
          BY <1>3 DEF AcklessFree
    <3>3. \A x \in A(Delivered) : x.tag \in Tags
          BY DEF Delivered, InFrames
    <3>4. \A x \in A(Delivered) : x.tag = tag => x \in About(tag)
          BY DEF Delivered, About, FramesOf
    <3> HIDE DEF A
    <3> QED BY <2>1, <2>2, <3>1, <3>2, <3>3, <3>4 DEF Free
  <2>5. Free(blocking'.pending, A(ChannelEvents))
    <3>1. Free(blocking.pending, Known(tag))
          BY <2>1, <2>3 DEF Lane, EventLane
    <3>2. Free(blocking.pending, AcklessUnacked(ChannelEvents))
          BY <1>3 DEF AcklessFree
    <3>3. \A x \in A(ChannelEvents) : x.id \in Deliveries /\ x.type = "delivery" /\ x.tag \in Tags
          BY <1>4, <2>1, CallNamesAssumption DEF ChannelEvents, Deliveries, Tags
    <3>4. \A x \in A(ChannelEvents) : x.tag = tag => x \in Known(tag)
          BY <3>3 DEF Known, EventsOf
    <3> HIDE DEF A
    <3> QED BY <2>1, <2>2, <3>1, <3>2, <3>3, <3>4 DEF Free
  <2>6. Free(blocking'.genEvents, A(GeneratorEvents))
    <3>1. CASE blocking'.genEvents = <<>>
          BY <3>1 DEF Free
    <3>2. CASE tag \in CallbackTags /\ blocking'.genEvents = blocking.genEvents
          BY <1>3, <2>2, <3>2, CallNamesAssumption DEF AcklessFree, GeneratorEvents, Tags, Free
    <3> QED BY <2>1, <3>1, <3>2
  <2> QED BY <2>4, <2>5, <2>6
<1>6. ASSUME blocking'.ackless = blocking.ackless
      PROVE  /\ Free(wire'.in, A(Delivered)) /\ Free(blocking'.pending, A(ChannelEvents))
             /\ Free(blocking'.genEvents, A(GeneratorEvents))
  <2>1. /\ Free(wire.in, A(Delivered)) /\ Free(blocking.pending, A(ChannelEvents))
        /\ Free(blocking.genEvents, A(GeneratorEvents))
        BY <1>2, <1>3, <1>6, StillAcklessFree DEF AcklessFree
  <2>2. /\ A(Delivered) \in SUBSET Delivered
        OBVIOUS
  <2>3. Free(wire'.in, A(Delivered))
    <3>1. CASE Within(wire'.in, wire.in, Delivered)
          BY <2>1, <2>2, <3>1 DEF Within
    <3>2. ASSUME NEW x, Delivers(x)
          PROVE  Free(wire'.in, A(Delivered))
      <4>1. /\ wire'.in = Append(wire.in, x) /\ x \in InFrames
            /\ x.id = broker.sent + 1 /\ broker.sent + 1 \in Deliveries
            /\ x.tag \in blocking.ackless => broker'.unacked = broker.unacked
            BY <3>2 DEF Delivers
      <4>2. broker.sent + 1 > broker.sent
            BY <1>3 DEF CallTypes, BrokerType
      <4>3. x.id \notin broker.unacked
            BY <1>3, <4>1, <4>2, NotSentYet DEF IdAt
      <4>4. x \notin A(Delivered)
            BY <1>6, <4>1, <4>3
      <4> HIDE DEF A
      <4>5. Free(Append(wire.in, x), A(Delivered))
            BY <1>4, <2>1, <4>1, <4>4, AppendFrame
      <4> QED BY <4>1, <4>5
    <3> QED BY <3>1, <3>2, WireSteps
  <2>4. /\ Free(blocking'.pending, A(ChannelEvents))
        /\ Free(blocking'.genEvents, A(GeneratorEvents))
    <3>1. CASE QueuesLeft
          BY <2>1, <3>1 DEF QueuesLeft, Within
    <3>2. CASE QueueGrows
      <4>1. PICK tag \in Tags \cup {None} : \E e : Added(tag, e) /\ e.tag = tag /\ FromHead(e)
            BY <3>2 DEF QueueGrows
      <4>2. PICK e : Added(tag, e) /\ e.tag = tag /\ FromHead(e)
            BY <4>1
      <4>3. wire.in # <<>> /\ broker' = broker
            BY <1>3, <3>2, FrameFields DEF QueueGrows
      <4>4. ~(e.id \in broker'.unacked /\ e.tag \in blocking'.ackless)
        <5>1. CASE e.id = 0
              BY <1>4, <4>3, <5>1 DEF Deliveries
        <5>2. CASE e.id # 0
          <6>1. /\ Head(wire.in) \in Delivered
                /\ e.tag = Head(wire.in).tag /\ e.id = Head(wire.in).id
                BY <4>2, <5>2 DEF FromHead
          <6>2. Head(wire.in) \notin AcklessUnacked(Delivered)
                BY <1>3, <1>4, <4>3, HeadFrame DEF AcklessFree
          <6> QED BY <1>6, <4>3, <6>1, <6>2 DEF AcklessUnacked, Unacked
        <5> QED BY <5>1, <5>2
      <4>5. \A S : e \notin A(S)
            BY <4>4
      <4> HIDE DEF A
      <4>6. CASE tag \in GeneratorTags
        <5>1. /\ blocking'.genEvents = Append(blocking.genEvents, e) /\ e \in GeneratorEvents
              /\ blocking'.pending = blocking.pending
              BY <4>2, <4>6 DEF Added
        <5>2. Free(Append(blocking.genEvents, e), A(GeneratorEvents))
              BY <1>4, <2>1, <4>5, <5>1, AppendFrame
        <5> QED BY <2>1, <5>1, <5>2
      <4>7. CASE tag \notin GeneratorTags
        <5>1. /\ blocking'.pending = Append(blocking.pending, e) /\ e \in ChannelEvents
              /\ blocking'.genEvents = blocking.genEvents
              BY <4>2, <4>7 DEF Added
        <5>2. Free(Append(blocking.pending, e), A(ChannelEvents))
              BY <1>4, <2>1, <4>5, <5>1, AppendFrame
        <5> QED BY <2>1, <5>1, <5>2
      <4> QED BY <4>6, <4>7
    <3> QED BY <3>1, <3>2, QueueSteps
  <2> QED BY <2>3, <2>4
<1> QED BY <1>5, <1>6, AcklessSteps

\* The generator ends with the broker's cancellation, or with its own cancel.
LEMMA GeneratorEnds ==
    ASSUME CallsInv, Next, Live'
    PROVE  \/ blocking'.generator = blocking.generator
           \/ blocking.generator = None /\ blocking'.genEvents = <<>>
           \/ /\ blocking.genEvents # <<>> /\ blocking'.genEvents = Tail(blocking.genEvents)
              /\ Head(blocking.genEvents).type = "cancellation" /\ broker' = broker
           \/ /\ app.call.op = "cancel" /\ app.call.tag = blocking.generator
              /\ blocking'.genEvents = blocking.genEvents /\ broker' = broker
<1>1. CallTypes /\ BlockingType /\ CallAndDispatch
      BY DEF CallsInv, CallTypes
<1>2. channel'.state = "open"
      BY DEF Live
<1>3. CASE AppCalls \/ AppTimers
      BY <1>3, ConsumeFields, CancelFields, AppKinds DEF Plain, Settle, StartProcessing,
         AppTimers, CallLater, RemoveTimeout
<1>4. CASE Broker
      BY <1>1, <1>4, BrokerFrames DEF Broker
<1>5. CASE Rounds
  <2>1. CASE Frames
        BY <1>1, <1>2, <2>1, FrameFields DEF GotClose, GotReply, GotReturn, GotDelivery,
           GotCancel, GotBlocked, SameConsumers
  <2> QED BY <1>5, <2>1 DEF Rounds, EndRound, Write, WriteIgnored, LimitExpires,
     OnConnectionClosed, TimerReady
<1>6. CASE Dispatches
      BY <1>1, <1>6 DEF LoopEnds, BlockingType, DispatchEvent, Dispatches, EnterProcessing,
         FlushEnds, DispatchReady, DispatchChannel, EndDispatch, CallbackReturns, CallbackRaises
<1>7. CASE CallReturns \/ CallRaises
      BY <1>1, <1>2, <1>7, EndedFields DEF CallReturns, CallRaises, CallDone, CallTypes,
         AppType, CallAndDispatch
<1> QED BY <1>3, <1>4, <1>5, <1>6, <1>7, StepKinds

\* What a frame gives to the generator, the broker counts only for the generator's
\* own consumer, while it consumes.
LEMMA GrowsFor ==
    ASSUME CallsInv, Live, QueueGrows, NEW S, Free(blocking.genEvents, S),
           \A e \in S : e.id \in broker.unacked,
           \A e \in S : e.tag \in GeneratorTags =>
               ~(blocking.generator = e.tag /\ channel.tags[e.tag] = "consuming")
    PROVE  Free(blocking'.genEvents, S)
<1>1. CallTypes /\ \A t \in Tags : Lane(t)
      BY AccountedLive
<1>2. /\ blocking.genEvents \in Seq(GeneratorEvents) /\ broker.unacked \subseteq Deliveries
      BY <1>1 DEF CallTypes, BlockingType, BrokerType
<1>3. PICK tag \in Tags \cup {None} : \E e : Added(tag, e) /\ e.tag = tag /\ FromHead(e)
      BY DEF QueueGrows
<1>4. PICK e : Added(tag, e) /\ e.tag = tag /\ FromHead(e)
      BY <1>3
<1>5. CASE tag \in GeneratorTags
  <2>1. blocking'.genEvents = Append(blocking.genEvents, e) /\ e \in GeneratorEvents
        BY <1>4, <1>5 DEF Added
  <2>2. e \notin S
        BY <1>1, <1>2, <1>4, <1>5 DEF Deliveries, FromHead, Lane, Tags
  <2>3. Free(Append(blocking.genEvents, e), S)
        BY <1>2, <2>1, <2>2, AppendFrame
  <2> QED BY <2>1, <2>3
<1>6. CASE tag \notin GeneratorTags
      BY <1>4, <1>6 DEF Added
<1> QED BY <1>5, <1>6

\* Without a generator, none of its deliveries is still unacknowledged.
LEMMA NoGeneratorLeft ==
    ASSUME CallsInv, Next, Live', blocking'.generator = None
    PROVE  Free(blocking'.genEvents, {x \in GeneratorEvents : x.id \in broker'.unacked})
<1> DEFINE U == {x \in GeneratorEvents : x.id \in broker'.unacked}
           g == blocking.generator
<1> SUFFICES Free(blocking'.genEvents, U)
      OBVIOUS
<1>1. Live /\ Old(blocking.genEvents)
      BY LiveBefore, NothingNew
<1>2. /\ CallTypes /\ AcklessFree /\ GeneratorsGone /\ (\A t \in Tags : Lane(t))
      /\ GeneratorsOwn(blocking.generator, blocking.genEvents)
      BY <1>1, AccountedLive
<1>3. /\ blocking.genEvents \in Seq(GeneratorEvents)
      /\ blocking.generator \in GeneratorTags \cup {None}
      BY <1>2 DEF CallTypes, BlockingType
<1>4. CASE blocking.generator = None
  <2>1. Free(blocking.genEvents, U)
        BY <1>1, <1>2, <1>4 DEF GeneratorsGone, Unacked, Free, Old
  <2>2. CASE QueuesLeft
        BY <2>1, <2>2 DEF QueuesLeft, Within
  <2>3. CASE QueueGrows
    <3>1. broker' = broker
          BY <1>2, <2>3, FrameFields DEF QueueGrows
    <3>2. \A e \in U : e.id \in broker.unacked
          BY <3>1
    <3>3. \A e \in U : e.tag \in GeneratorTags => blocking.generator # e.tag
          BY <1>4, CallNamesAssumption
    <3> HIDE DEF U
    <3> QED BY <1>1, <2>1, <2>3, <3>2, <3>3, GrowsFor
  <2> QED BY <2>2, <2>3, QueueSteps
<1>5. CASE blocking.generator # None
  <2>1. g \in GeneratorTags /\ g \in Tags /\ Lane(g)
        BY <1>2, <1>3, <1>5 DEF Tags
  <2>2. Free(blocking.genEvents, NotOf(g))
        BY <1>2, <1>5 DEF GeneratorsOwn
  <2>3. \A e \in GeneratorEvents : e \in NotOf(g) \/ e.tag = g
        BY DEF NotOf
  <2>4. CASE /\ blocking.genEvents # <<>> /\ blocking'.genEvents = Tail(blocking.genEvents)
             /\ Head(blocking.genEvents).type = "cancellation" /\ broker' = broker
    <3> DEFINE e == Head(blocking.genEvents)
               q == Tail(blocking.genEvents)
    <3>1. e \in GeneratorEvents /\ q \in Seq(GeneratorEvents)
          BY <1>3, <2>4, StreamTypes
    <3>2. e \notin NotOf(g) /\ Free(q, NotOf(g))
          BY <1>3, <2>2, <2>4, HeadFrame
    <3>3. e \in Cancellations(g)
          BY <2>3, <2>4, <3>1, <3>2 DEF Cancellations, EventsOf
    <3>4. NoneAfter(blocking.genEvents, Cancellations(g), Known(g))
          BY <2>1 DEF Lane, EventLane
    <3>5. Free(q, Known(g))
          BY <1>3, <2>4, <3>3, <3>4, HeadFrame
    <3>6. \A x \in U : x \in NotOf(g) \/ x \in Known(g)
          BY DEF NotOf, Known, EventsOf, GeneratorEvents
    <3> HIDE DEF q, U
    <3>7. Free(q, U)
          BY <3>2, <3>5, <3>6 DEF Free
    <3> QED BY <2>4, <3>7 DEF q
  <2>5. CASE /\ app.call.op = "cancel" /\ app.call.tag = g
             /\ blocking'.genEvents = blocking.genEvents /\ broker' = broker
        BY <1>2, <2>2, <2>5 DEF AcklessFree, NotOf, AcklessUnacked, Unacked, Free,
           GeneratorsGone, Known, EventsOf, GeneratorEvents
  <2> QED BY <1>5, <2>4, <2>5, GeneratorEnds
<1> QED BY <1>4, <1>5

\* A consumer that is cancelled has left nothing that the broker counts.
LEMMA CancelLeft ==
    ASSUME CallsInv, Next, Live', NEW c, app'.call.op = "cancel", app'.call.tag = c,
           c \notin blocking'.ackless
    PROVE  Free(blocking'.genEvents, {x \in Known(c) : x.id \in broker'.unacked})
<1> DEFINE U == {x \in Known(c) : x.id \in broker'.unacked}
<1> SUFFICES Free(blocking'.genEvents, U)
      OBVIOUS
<1>1. Live /\ Old(blocking.genEvents)
      BY LiveBefore, NothingNew
<1>2. /\ CallTypes /\ AcklessFree /\ GeneratorsGone /\ (\A t \in Tags : Lane(t))
      /\ GeneratorsOwn(blocking.generator, blocking.genEvents)
      /\ CallAndDispatch /\ BlockingType /\ Lanes /\ channel.state = "open"
      BY <1>1, AccountedLive DEF CallsInv, CallTypes
<1>3. /\ blocking.genEvents \in Seq(GeneratorEvents)
      /\ blocking.generator \in GeneratorTags \cup {None} /\ broker.unacked \subseteq Deliveries
      BY <1>2 DEF CallTypes, BlockingType, BrokerType
<1>4. \A op, tag : Call(op, tag).op = op
      BY DEF Call, NoCall
<1>5. ASSUME app'.call.op = app.call.op, app'.call.tag = app.call.tag,
             blocking'.ackless = blocking.ackless
      PROVE  Free(blocking'.genEvents, U)
  <2>1. Free(blocking.genEvents, Unacked(Known(c)))
        BY <1>2, <1>5 DEF GeneratorsGone
  <2>2. Free(blocking.genEvents, U)
        BY <1>1, <2>1 DEF Unacked, Free, Old
  <2>3. CASE QueuesLeft
        BY <2>2, <2>3 DEF QueuesLeft, Within
  <2>4. CASE QueueGrows
    <3>1. broker' = broker
          BY <1>2, <2>4, FrameFields DEF QueueGrows
    <3>2. \A e \in U : e.id \in broker.unacked
          BY <3>1
    <3>3. c \in Tags
          BY <1>2, <1>5 DEF CallAndDispatch, CallShape
    <3>4. channel.tags[c] # "consuming"
          BY <1>2, <1>5, <3>3 DEF Lane, Fits
    <3>5. \A e \in U : e.tag = c
          BY DEF Known, EventsOf
    <3> HIDE DEF U
    <3> QED BY <1>1, <2>2, <2>4, <3>2, <3>4, <3>5, GrowsFor
  <2> QED BY <2>3, <2>4, QueueSteps
<1>6. ASSUME NEW tag \in Tags, NEW n \in 0..Len(blocking.genEvents), Cancels(tag, n)
      PROVE  Free(blocking'.genEvents, U)
  <2> DEFINE q == SubSeq(blocking.genEvents, n + 1, Len(blocking.genEvents))
  <2>1. /\ tag = c /\ blocking'.ackless = blocking.ackless /\ broker' = broker
        /\ blocking'.genEvents = (IF tag \notin blocking.ackless THEN q ELSE blocking.genEvents)
        BY <1>6, CancelFields
  <2>2. blocking'.genEvents = q
        BY <2>1
  <2>3. q \in Seq(GeneratorEvents) /\ \A W : Within(q, blocking.genEvents, W)
        BY <1>3, CutProperties
  <2>4. CASE tag = blocking.generator /\ n = WaitingCount
    <3>1. \A i \in DOMAIN q : q[i].type = "cancellation"
          BY <1>2, <2>4, CallNamesAssumption, WaitingDeliveries DEF Tags
    <3>2. \A i \in DOMAIN q : q[i] \in GeneratorEvents
          BY <2>3, ElementOfSeq
    <3>3. \A i \in DOMAIN q : q[i].id = 0
          BY <3>1, <3>2 DEF GeneratorEvents
    <3>4. \A x \in U : x.id # 0
          BY <1>3, <2>1 DEF Deliveries
    <3> HIDE DEF U, q
    <3> QED BY <2>2, <3>3, <3>4 DEF Free
  <2>5. CASE tag # blocking.generator
    <3>1. \A x \in U : x \in GeneratorEvents =>
              x \in Unacked(GeneratorEvents) /\ x \in NotOf(blocking.generator)
          BY <2>1, <2>5 DEF Unacked, NotOf, Known, EventsOf
    <3>2. Free(blocking.genEvents, U)
          BY <1>2, <1>3, <3>1, ElementOfSeq DEF GeneratorsGone, GeneratorsOwn, Free
    <3>3. Within(q, blocking.genEvents, U)
          BY <2>3
    <3>4. Free(q, U)
      <4> HIDE DEF U, q
      <4> QED BY <3>2, <3>3 DEF Within
    <3> HIDE DEF U, q
    <3> QED BY <2>2, <3>4
  <2> QED BY <1>6, <2>4, <2>5 DEF Cancels
<1>7. CASE AppCalls
      BY <1>6, <1>7, ConsumeFields, PlainFields, AppKinds DEF Processing
<1>8. CASE AppTimers
      BY <1>2, <1>5, <1>8 DEF AppTimers, CallLater, RemoveTimeout, CallTypes, AppType
<1>9. CASE Rounds
      BY <1>2, <1>5, <1>9, RoundKeeps, ConsumeFields, AcklessSteps
<1>10. CASE Broker
      BY <1>2, <1>5, <1>10, BrokerFrames DEF Broker
<1>11. ~Dispatches
      BY <1>2, DispatchKeeps DEF Processing
<1>12. ~(CallReturns \/ CallRaises)
  <2>1. ASSUME CallReturns \/ CallRaises
        PROVE  app'.call.op \in {"next", "none"}
    <3>1. AppType
          BY <1>2 DEF CallTypes
    <3>2. NoCall.op = "none"
          BY DEF NoCall
    <3>3. [app.call EXCEPT !.op = "next", !.tag = None, !.stage = "loop"].op = "next"
          BY <3>1 DEF AppType, Calls
    <3>4. \/ app'.call = NoCall
          \/ app'.call = [app.call EXCEPT !.op = "next", !.tag = None, !.stage = "loop"]
          BY <2>1, <3>1 DEF CallReturns, CallRaises, AppType
    <3> QED BY <3>2, <3>3, <3>4
  <2> QED BY <2>1
<1> QED BY <1>7, <1>8, <1>9, <1>10, <1>11, <1>12, StepKinds

\* Each delivery is in its place after every step.
LEMMA AccountedHolds ==
    ASSUME CallsInv, Next, CallTypes'
    PROVE  Accounted'
<1>1. Accounted' <=> (Live' => /\ Sides' /\ (\A id \in Deliveries : IdAt(id)')
                               /\ AcklessFree' /\ GeneratorsGone')
      BY DEF Accounted, Sides, IdAt, AcklessFree, GeneratorsGone
<1>2. ASSUME Live'
      PROVE  /\ Sides' /\ (\A id \in Deliveries : IdAt(id)')
             /\ AcklessFree' /\ GeneratorsGone'
      BY <1>2, NothingNew, AcklessHolds, CountsHold, NoGeneratorLeft, CancelLeft DEF
         GeneratorsGone, Unacked, Known, EventsOf
<1> QED BY <1>1, <1>2

\* Every step keeps the types.
LEMMA TypesKept ==
    ASSUME CallsInv, Next
    PROVE  CallTypes'
      BY ApplicationTypes, FrameTypes, WriteTypes, BrokerTypes, LibraryTypes, RoundTypes DEF
         CallsInv, Next

\* A step that changes nothing.
LEMMA CallsStutter ==
    ASSUME CallsInv, UNCHANGED vars
    PROVE  CallsInv'
<1>1. /\ channel' = channel /\ blocking' = blocking /\ events' = events /\ app' = app
      /\ wire' = wire /\ broker' = broker
      BY DEF vars
<1>2. CallTypes'
      BY <1>1 DEF CallsInv, CallTypes, ChannelType, BlockingType, EventsType, AppType, WireType,
         BrokerType
<1>3. CallAndDispatch' /\ AtTheEnd' /\ OwnConsumer'
      BY <1>1 DEF CallsInv, CallAndDispatch, AtTheEnd, OwnConsumer, Dispatching, Flushing
<1>4. OneReply(app.call, wire.out, wire.in, blocking.ready)' /\ Returning' /\ Getting'
      BY <1>1 DEF CallsInv, OneReply, Returning, Getting
<1>5. Lanes'
      BY <1>1 DEF CallsInv, Lanes, Lane, WireLane, EventLane, Hearing
<1>6. Wanted'
      BY <1>1 DEF CallsInv, Wanted
<1>7. Accounted'
      BY <1>1 DEF CallsInv, Accounted, Live, Unacked, AcklessUnacked, Places
<1> QED BY <1>2, <1>3, <1>4, <1>5, <1>6, <1>7 DEF CallsInv

\* The first state.
LEMMA CallsStart ==
    ASSUME Init
    PROVE  CallsInv
<1>1. PICK onReturn \in BOOLEAN :
          blocking = [infos |-> [t \in Tags |-> "none"], generator |-> None,
                      genEvents |-> <<>>, pending |-> <<>>, confirming |-> FALSE,
                      returned |-> 0, onReturn |-> onReturn, ready |-> NoResults,
                      got |-> 0, ackless |-> {}, used |-> {}]
      BY DEF Init
<1>2. /\ channel = [state |-> "open", tags |-> [t \in Tags |-> "none"], ackless |-> {},
                    getting |-> FALSE]
      /\ events = [depth |-> 0, requested |-> {}, ready |-> <<>>, scheduled |-> {},
                   expired |-> FALSE, todo |-> 0, phase |-> "none", callback |-> None]
      /\ app = [call |-> NoCall, dispatcher |-> NoCall, calls |-> 0, given |-> {},
                removed |-> {}, raised |-> FALSE, lost |-> FALSE]
      /\ wire = [out |-> <<>>, in |-> <<>>]
      /\ broker = [open |-> TRUE, consumers |-> {}, confirms |-> FALSE, unacked |-> {},
                   ackless |-> {}, sent |-> 0, notices |-> 0]
      BY DEF Init
<1>3. \A U : <<>> \in Seq(U)
      OBVIOUS
<1>4. \A S, T : Free(<<>>, S) /\ NoneAfter(<<>>, S, T)
      BY DEF Free, NoneAfter
<1>5. /\ wire.in = <<>> /\ wire.out = <<>> /\ blocking.pending = <<>> /\ blocking.genEvents = <<>>
      /\ events.ready = <<>> /\ channel.state = "open" /\ app.call = NoCall
      /\ app.dispatcher = NoCall /\ events.callback = None /\ events.phase = "none"
      /\ blocking.ready = NoResults /\ blocking.got = 0 /\ app.given = {} /\ app.removed = {}
      /\ \A t \in Tags : blocking.infos[t] = "none" /\ channel.tags[t] = "none"
      /\ broker.unacked = {} /\ broker.ackless = {} /\ broker.sent = 0 /\ broker.consumers = {}
      /\ broker.open /\ ~app.lost /\ ~channel.getting /\ blocking.returned = 0
      /\ ~broker.confirms /\ ~blocking.confirming /\ blocking.generator = None
      /\ events.depth = 0 /\ app.calls = 0 /\ events.scheduled = {}
      BY <1>1, <1>2
<1>6. NoCall \in Calls /\ NoCall.op = "none" /\ NoCall.n = 0 /\ NoCall.tag = None
      /\ ~NoCall.acquired /\ NoCall.stage = "flush" /\ None \notin Tags
      BY MadeTypes
<1>7. CallTypes
      BY <1>1, <1>2, <1>3, <1>6, CallBoundsAssumption DEF ChannelType, NoResults, Infos,
         BlockingType, EventsType, Callbacks, AppType, WireType, BrokerType, CallTypes
<1>8. CallAndDispatch
      BY <1>5, <1>6 DEF CallShape, Answered, Processing, Dispatching, CallAndDispatch
<1>9. AtTheEnd /\ OwnConsumer
      BY <1>4, <1>5 DEF AtTheEnd, OwnConsumer
<1>10. \A k \in Kinds : blocking.ready[k] = 0
      BY <1>5 DEF NoResults
<1>11. OneReply(app.call, wire.out, wire.in, blocking.ready)
      BY <1>4, <1>5, <1>10 DEF OneReply
<1>12. Returning /\ Getting
      BY <1>4, <1>5, <1>10 DEF HasResult, Kinds, Returning, Getting
<1>13. Lanes
      BY <1>4, <1>5, <1>6 DEF Fits, WireLane, EventLane, Lane, Lanes
<1>14. Wanted
      BY <1>4, <1>5 DEF Wanted
<1>15. Accounted
  <2>1. ASSUME NEW id \in Deliveries
        PROVE  Places(id) = 0
    <3>1. CountOf(<<>>, id) = 0
          BY <1>3, CountType
    <3>2. id # 0
          BY DEF Deliveries
    <3>3. {id} \cap {} = {} /\ {id} \cap {0} = {}
          BY <3>2
    <3>4. Cardinality({}) = 0
          BY FS_EmptySet
    <3> HIDE DEF CountOf
    <3> QED BY <1>5, <3>1, <3>3, <3>4 DEF Places
  <2>2. /\ Sides /\ \A id \in Deliveries : IdAt(id)
        BY <1>5, <2>1 DEF Sides, IdAt
  <2>3. AcklessFree /\ GeneratorsGone
        BY <1>4, <1>5 DEF AcklessFree, GeneratorsGone
  <2> QED BY <2>2, <2>3, AccountedParts
<1> QED BY <1>7, <1>8, <1>9, <1>11, <1>12, <1>13, <1>14, <1>15 DEF CallsInv

-----------------------------------------------------------------------------
(* What every run of calls keeps.                                          *)

\* The strengthened invariant: the types, the call under way and its one reply,
\* what the two ends know of each consumer, and where each delivery is, hold after
\* every call, frame, callback and close (BlockingChannel and BlockingConnection).
THEOREM CallsInvariant == Spec => []CallsInv
<1>1. Init => CallsInv
      BY CallsStart
<1>2. CallsInv /\ [Next]_vars => CallsInv'
      BY TypesKept, CallsNest, ChannelEnds, ConsumersOwned, RepliesKept, ReturnsMatch,
         GetsMatch, LanesHold, WantedHolds, AccountedHolds, CallsStutter DEF CallsInv
<1> QED BY <1>1, <1>2, PTL DEF Spec

\* Type correctness of the calls' state.
THEOREM CallTypeCorrect == Spec => []TypeOK
<1>1. CallsInv => TypeOK
  <2> SUFFICES ASSUME CallsInv
               PROVE  TypeOK
        OBVIOUS
  <2>1. /\ ChannelType /\ BlockingType /\ EventsType /\ AppType /\ BrokerType
        BY DEF CallsInv, CallTypes
  <2>2. ChannelEvents \subseteq PendingEvents /\ GeneratorEvents \subseteq PendingEvents
        BY DEF ChannelEvents, GeneratorEvents, PendingEvents, Tags
  <2>3. blocking.genEvents \in Seq(PendingEvents) /\ blocking.pending \in Seq(PendingEvents)
        BY <2>1, <2>2, ElementOfSeq, LenProperties, SeqDef DEF BlockingType
  <2>4. /\ blocking.infos \in [Tags -> {"none", "setting", "active", "tearing", "cancelled"}]
        /\ blocking.generator \in GeneratorTags \cup {None}
        /\ blocking.ready \in [Kinds -> 0..MaxCalls] /\ blocking.got \in 0..MaxDeliveries
        /\ blocking.confirming \in BOOLEAN /\ blocking.returned \in 0..MaxCalls
        BY <2>1 DEF BlockingType, Infos
  <2>5. /\ events.depth \in 0..2 /\ events.requested \in SUBSET {"channel", "wakeup"}
        /\ events.ready \in Seq(Timers \cup {"blocked"}) /\ events.scheduled \subseteq Timers
        /\ events.todo \in Nat
        BY <2>1 DEF EventsType
  <2>6. /\ app.call \in Calls /\ app.dispatcher \in Calls
        /\ app.given \subseteq Deliveries /\ app.calls \in 0..MaxCalls
        BY <2>1 DEF AppType
  <2>7. broker.unacked \subseteq Deliveries /\ broker.sent \in 0..MaxDeliveries
        BY <2>1 DEF BrokerType
  <2>8. channel \in [state : {"open", "closedByBroker", "closed"},
                     tags : [Tags -> {"none", "consuming", "cancelling"}],
                     ackless : SUBSET Tags, getting : BOOLEAN]
        BY <2>1 DEF ChannelType
  <2> QED BY <2>3, <2>4, <2>5, <2>6, <2>7, <2>8 DEF TypeOK
<1> QED BY <1>1, CallsInvariant, PTL

\* A call gets its own result and leaves nothing behind, and the consumers of
\* BlockingChannel and of its Channel match between the calls (_CallbackResult and
\* the finally clauses of the calls).
THEOREM CallsAlwaysCleanUp == Spec => []CallsCleanUp
<1>1. CallsInv => CallsCleanUp
  <2> SUFFICES ASSUME CallsInv
               PROVE  OwnResults /\ ConsumersMatch
        BY DEF CallsCleanUp
  <2>1. /\ CallTypes /\ AtTheEnd /\ OwnConsumer /\ Returning /\ Getting /\ Lanes
        /\ OneReply(app.call, wire.out, wire.in, blocking.ready) /\ CallAndDispatch
        BY DEF CallsInv
  <2>2. OwnResults
        BY <2>1, HeadReply DEF OneReply, CallTypes, Got, Returning, Getting, OwnResults
  <2>3. ConsumersMatch
    <3>1. CASE channel.state # "open"
          BY <2>1, <3>1 DEF AtTheEnd, Tags, ConsumersMatch
    <3>2. CASE channel.state = "open"
      <4>1. \A t \in Tags : Lane(t)
            BY <2>1, <3>2 DEF Lanes
      <4>2. \A t \in Tags : channel.tags[t] # "none" => blocking.infos[t] # "none"
            BY <4>1 DEF Lane, Fits
      <4>3. \A t \in GeneratorTags : channel.tags[t] # "none" => t = blocking.generator
            BY <4>1 DEF Lane, Tags
      <4>4. Idle => \A t \in Tags : /\ blocking.infos[t] \notin {"setting", "tearing"}
                                    /\ blocking.infos[t] = "active" =>
                                           channel.tags[t] = "consuming"
            BY <2>1, <4>1, MadeTypes DEF Idle, OwnConsumer, Lane, Fits
      <4>5. \A e \in ToSet(blocking.pending) : e.tag # None => blocking.infos[e.tag] # "none"
        <5> SUFFICES ASSUME NEW i \in DOMAIN blocking.pending, blocking.pending[i].tag # None
                     PROVE  blocking.infos[blocking.pending[i].tag] # "none"
              BY DEF ToSet
        <5> DEFINE e == blocking.pending[i]
        <5>1. e \in ChannelEvents
              BY <2>1, ElementOfSeq DEF CallTypes, BlockingType
        <5>2. e.tag \in Tags /\ e \in Known(e.tag)
              BY <5>1 DEF ChannelEvents, Tags, Known, EventsOf
        <5>3. blocking.infos[e.tag] = "none" => Free(blocking.pending, Known(e.tag))
              BY <4>1, <5>2 DEF Lane, EventLane
        <5> QED BY <5>2, <5>3 DEF Free
      <4> QED BY <4>2, <4>3, <4>4, <4>5 DEF ConsumersMatch
    <3> QED BY <3>1, <3>2
  <2> QED BY <2>2, <2>3
<1> QED BY <1>1, CallsInvariant, PTL

\* No delivery is lost or doubled, events that wait have asked for their dispatch,
\* and a removed timeout never runs (_remove_pending_deliveries, _flush_output and
\* the dispatch of events).
THEOREM EventsAlwaysAccounted == Spec => []EventsAccounted
<1>1. CallsInv => EventsAccounted
  <2> SUFFICES ASSUME CallsInv
               PROVE  EventsAccounted
        OBVIOUS
  <2>1. CallTypes /\ Wanted
        BY DEF CallsInv
  <2>2. \A t \in app.removed : t # events.callback /\ ~Contains(events.ready, t)
        BY <2>1 DEF Wanted, Free, Contains
  <2>3. channel.state = "open" /\ blocking.pending # <<>> =>
            "channel" \in events.requested \/ events.phase = "channel" \/ app.raised
        BY <2>1 DEF Wanted
  <2>4. ASSUME channel.state = "open", broker.open
        PROVE  /\ \A id \in broker.unacked : Places(id) = 1
               /\ \A id \in broker.ackless : Places(id) <= 1
        BY <2>1, <2>4, AccountedLive DEF Live, CallTypes, BrokerType, IdAt
  <2> QED BY <2>2, <2>3, <2>4 DEF EventsAccounted
<1> QED BY <1>1, CallsInvariant, PTL
=============================================================================
