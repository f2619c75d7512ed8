---------------------------- MODULE QueueProofs ----------------------------
(***************************************************************************)
(* What the selections of module Queues return, for queues of any length.  *)
(***************************************************************************)
EXTENDS Queues, SequenceTheorems, FiniteSetTheorems, TLAPS

\* Induction on the naturals for a set in place of a predicate: were n missing,
\* the successor would map the part of the set below n, which has the element 0,
\* into itself without 0.
LEMMA NatSetInduction ==
  ASSUME NEW S, 0 \in S, \A n \in Nat : n \in S => n + 1 \in S
  PROVE  Nat \subseteq S
<1> SUFFICES ASSUME NEW n \in Nat, n \notin S
             PROVE  FALSE
  OBVIOUS
<1> DEFINE U == S \cap (0..n)
           next == [x \in U |-> x + 1]
<1>1. IsFiniteSet(U) /\ Cardinality(U) \in Nat
  <2>1. IsFiniteSet(0..n) /\ U \in SUBSET (0..n)
    BY FS_Interval
  <2> QED BY <2>1, FS_Subset, FS_CardinalityType
<1>2. next \in [U -> U \ {0}] /\ 0 \in U
  OBVIOUS
<1>3. IsFiniteSet(U \ {0}) /\ Cardinality(U \ {0}) = Cardinality(U) - 1
  BY <1>1, <1>2, FS_RemoveElement
<1>4. \E x, y \in U : x # y /\ next[x] = next[y]
  <2> HIDE DEF U, next
  <2> QED BY <1>1, <1>2, <1>3, FS_PigeonHole
<1> QED BY <1>4

Increasing(f) == \A m, n \in DOMAIN f : m < n => f[m] < f[n]
Enumerations(I) == {f \in [1..Cardinality(I) -> I] : Increasing(f)}

\* A finite set of places has an enumeration in their order.
LEMMA EnumerationExists ==
  ASSUME NEW len \in Nat, NEW K \in SUBSET (1..len)
  PROVE  Enumerations(K) # {}
<1> DEFINE P == {n \in Nat : \A I \in SUBSET (1..n) : Enumerations(I) # {}}
<1>1. 0 \in P
  <2> SUFFICES ASSUME NEW I \in SUBSET (1..0)
               PROVE  Enumerations(I) # {}
    OBVIOUS
  <2>1. I = {} /\ Cardinality(I) = 0
    <3>1. 1..0 = {}
      OBVIOUS
    <3> QED BY <3>1, FS_EmptySet
  <2>2. [x \in 1..0 |-> x] \in Enumerations(I)
    BY <2>1 DEF Enumerations, Increasing
  <2> QED BY <2>2
<1>2. ASSUME NEW n \in Nat, n \in P
      PROVE  n + 1 \in P
  <2> SUFFICES ASSUME NEW I \in SUBSET (1..n + 1)
               PROVE  Enumerations(I) # {}
    OBVIOUS
  <2>1. CASE n + 1 \notin I
    <3>1. I \in SUBSET (1..n)
      BY <2>1
    <3> QED BY <1>2, <3>1
  <2>2. CASE n + 1 \in I
    <3> DEFINE J == I \ {n + 1}
               c == Cardinality(J)
    <3>1. J \in SUBSET (1..n)
      OBVIOUS
    <3>2. IsFiniteSet(I) /\ c \in Nat /\ Cardinality(I) = c + 1
      <4>1. IsFiniteSet(I)
        <5>1. IsFiniteSet(1..n + 1)
          BY FS_Interval
        <5> QED BY <5>1, FS_Subset
      <4>2. IsFiniteSet(J) /\ c = Cardinality(I) - 1
        BY <4>1, <2>2, FS_RemoveElement
      <4> QED BY <4>1, <4>2, FS_CardinalityType
    <3>3. PICK f \in [1..c -> J] : Increasing(f)
      BY <1>2, <3>1 DEF Enumerations
    <3> DEFINE g == [x \in 1..c + 1 |-> IF x = c + 1 THEN n + 1 ELSE f[x]]
    <3>4. g \in [1..c + 1 -> I]
      <4>1. ASSUME NEW x \in 1..c + 1 PROVE (IF x = c + 1 THEN n + 1 ELSE f[x]) \in I
        <5>1. CASE x = c + 1
          BY <2>2, <5>1
        <5>2. CASE x # c + 1
          <6> HIDE DEF c
          <6>1. x \in 1..c
            BY <3>2, <5>2
          <6> QED BY <3>3, <5>2, <6>1
        <5> QED BY <5>1, <5>2
      <4> QED BY <4>1
    <3>5. Increasing(g)
      <4> SUFFICES ASSUME NEW x \in 1..c + 1, NEW y \in 1..c + 1, x < y
                   PROVE  g[x] < g[y]
        BY DEF Increasing
      <4> HIDE DEF c, J
      <4>1. x \in 1..c
        BY <3>2
      <4>2. g[x] = f[x] /\ f[x] \in 1..n
        <5>1. f[x] \in J
          BY <4>1, <3>3
        <5>2. f[x] \in 1..n
          BY <5>1, <3>1
        <5>3. x # c + 1 /\ x \in 1..c + 1
          BY <4>1, <3>2
        <5> QED BY <5>2, <5>3
      <4>3. CASE y = c + 1
        BY <4>2, <4>3
      <4>4. CASE y # c + 1
        <5>1. y \in 1..c /\ g[y] = f[y]
          BY <4>4, <3>2
        <5>2. DOMAIN f = 1..c
          BY <3>3
        <5> QED BY <4>1, <4>2, <5>1, <5>2, <3>3 DEF Increasing
      <4> QED BY <4>3, <4>4
    <3> HIDE DEF g
    <3> QED BY <3>2, <3>4, <3>5 DEF Enumerations
  <2> QED BY <2>1, <2>2
<1>3. Nat \subseteq P
  <2> HIDE DEF P
  <2> QED BY <1>1, <1>2, NatSetInduction
<1> QED BY <1>3

\* InOrder is such an enumeration, and it misses no place.
LEMMA InOrderEnumerates ==
  ASSUME NEW len \in Nat, NEW K \in SUBSET (1..len)
  PROVE  /\ IsFiniteSet(K) /\ Cardinality(K) \in Nat /\ Cardinality(K) <= len
         /\ InOrder(K) \in [1..Cardinality(K) -> K]
         /\ Increasing(InOrder(K))
         /\ IsInjective(InOrder(K))
         /\ \A k \in K : \E n \in 1..Cardinality(K) : InOrder(K)[n] = k
<1> DEFINE c == Cardinality(K)
<1>1. IsFiniteSet(K) /\ c \in Nat /\ c <= len
  <2>1. IsFiniteSet(1..len) /\ Cardinality(1..len) = len
    BY FS_Interval
  <2> QED BY <2>1, FS_Subset, FS_CardinalityType
<1>2. \E f \in [1..c -> K] : Increasing(f)
  BY EnumerationExists DEF Enumerations
<1>3. InOrder(K) \in [1..c -> K] /\ Increasing(InOrder(K))
  BY <1>2 DEF InOrder, Increasing
<1>4. ASSUME NEW x \in 1..c, NEW y \in 1..c, InOrder(K)[x] = InOrder(K)[y]
      PROVE  x = y
  <2>1. InOrder(K)[x] \in 1..len
    BY <1>3
  <2>2. ~(x < y) /\ ~(y < x)
    BY <1>3, <1>4, <2>1 DEF Increasing
  <2> QED BY <2>2, <1>1
<1>5. ASSUME NEW k \in K, \A n \in 1..c : InOrder(K)[n] # k
      PROVE  FALSE
  <2>1. InOrder(K) \in [1..c -> K \ {k}]
    BY <1>3, <1>5
  <2>2. IsFiniteSet(K \ {k}) /\ Cardinality(K \ {k}) = c - 1
    BY <1>1, FS_RemoveElement
  <2>3. IsFiniteSet(1..c) /\ Cardinality(1..c) = c
    BY <1>1, FS_Interval
  <2>4. \E x, y \in 1..c : x # y /\ InOrder(K)[x] = InOrder(K)[y]
    BY <1>1, <2>1, <2>2, <2>3, FS_PigeonHole
  <2> QED BY <2>4, <1>4
<1>6. IsInjective(InOrder(K))
  BY <1>3, <1>4 DEF IsInjective
<1> QED BY <1>1, <1>3, <1>5, <1>6

-----------------------------------------------------------------------------

\* The places of the elements of queue that are in S.
Kept(queue, S) == {i \in DOMAIN queue : queue[i] \in S}

\* Filter takes those places, in their order.
LEMMA FilterPlaces ==
  ASSUME NEW T, NEW queue \in Seq(T), NEW S,
         NEW place, place = InOrder(Kept(queue, S)),
         NEW c, c = Cardinality(Kept(queue, S))
  PROVE  /\ c \in Nat /\ c <= Len(queue)
         /\ place \in [1..c -> Kept(queue, S)]
         /\ Increasing(place) /\ IsInjective(place)
         /\ \A i \in Kept(queue, S) : \E n \in 1..c : place[n] = i
         /\ Filter(queue, S) = [n \in 1..c |-> queue[place[n]]]
         /\ Filter(queue, S) \in Seq(T)
         /\ Len(Filter(queue, S)) = c
<1>1. /\ Len(queue) \in Nat /\ queue \in [1..Len(queue) -> T]
      /\ Kept(queue, S) \in SUBSET (1..Len(queue))
  BY LenProperties DEF Kept
<1>2. /\ c \in Nat /\ c <= Len(queue)
      /\ place \in [1..c -> Kept(queue, S)]
      /\ Increasing(place) /\ IsInjective(place)
      /\ \A i \in Kept(queue, S) : \E n \in 1..c : place[n] = i
  BY <1>1, InOrderEnumerates
<1>3. Filter(queue, S) = [n \in 1..c |-> queue[place[n]]]
  <2>1. DOMAIN place = 1..c
    BY <1>2
  <2>2. Filter(queue, S) = [n \in DOMAIN place |-> queue[place[n]]]
    BY DEF Filter, Kept
  <2> QED BY <2>1, <2>2
<1>4. \A n \in 1..c : queue[place[n]] \in T
  BY <1>1, <1>2
<1>5. Filter(queue, S) \in Seq(T) /\ Len(Filter(queue, S)) = c
  BY <1>2, <1>3, <1>4
<1> QED BY <1>2, <1>3, <1>5

\* Its elements are those of queue in S, each once if queue has each once.
LEMMA FilterElements ==
  ASSUME NEW T, NEW queue \in Seq(T), NEW S
  PROVE  /\ Filter(queue, S) \in Seq(T)
         /\ ToSet(Filter(queue, S)) = ToSet(queue) \cap S
         /\ IsInjective(queue) => IsInjective(Filter(queue, S))
<1> DEFINE I == Kept(queue, S)
           place == InOrder(I)
           c == Cardinality(I)
<1>1. /\ c \in Nat
      /\ place \in [1..c -> I]
      /\ IsInjective(place)
      /\ \A i \in I : \E n \in 1..c : place[n] = i
      /\ Filter(queue, S) = [n \in 1..c |-> queue[place[n]]]
      /\ Filter(queue, S) \in Seq(T)
  BY FilterPlaces
<1> HIDE DEF I, place, c
<1>2. ToSet(Filter(queue, S)) = {queue[place[n]] : n \in 1..c}
  <2>1. DOMAIN Filter(queue, S) = 1..c /\ \A n \in 1..c : Filter(queue, S)[n] = queue[place[n]]
    BY <1>1
  <2> QED BY <2>1, Zenon DEF ToSet
<1>3. {queue[place[n]] : n \in 1..c} = {queue[i] : i \in I}
  BY <1>1
<1>4. {queue[i] : i \in I} = ToSet(queue) \cap S
  BY DEF I, Kept, ToSet
<1>5. ASSUME IsInjective(queue)
      PROVE  IsInjective(Filter(queue, S))
  <2> SUFFICES ASSUME NEW m \in 1..c, NEW n \in 1..c, queue[place[m]] = queue[place[n]]
               PROVE  m = n
    BY <1>1 DEF IsInjective
  <2>1. place[m] \in DOMAIN queue /\ place[n] \in DOMAIN queue
    BY <1>1 DEF I, Kept
  <2>2. place[m] = place[n]
    BY <1>5, <2>1 DEF IsInjective
  <2> QED BY <1>1, <2>2 DEF IsInjective
<1> QED BY <1>1, <1>2, <1>3, <1>4, <1>5

\* Drop keeps the others.
LEMMA DropElements ==
  ASSUME NEW T, NEW queue \in Seq(T), NEW S
  PROVE  /\ Drop(queue, S) \in Seq(T)
         /\ ToSet(Drop(queue, S)) = ToSet(queue) \ S
         /\ IsInjective(queue) => IsInjective(Drop(queue, S))
BY FilterElements DEF Drop

\* Who is before whom stays so.
LEMMA DropOrder ==
  ASSUME NEW T, NEW queue \in Seq(T), NEW S,
         NEW m \in DOMAIN Drop(queue, S), NEW n \in DOMAIN Drop(queue, S), m < n
  PROVE  \E i, j \in DOMAIN queue :
           i < j /\ queue[i] = Drop(queue, S)[m] /\ queue[j] = Drop(queue, S)[n]
<1> DEFINE others == ToSet(queue) \ S
           I == Kept(queue, others)
           place == InOrder(I)
           c == Cardinality(I)
<1>1. /\ c \in Nat /\ place \in [1..c -> I] /\ Increasing(place)
      /\ Drop(queue, S) = [x \in 1..c |-> queue[place[x]]]
  <2>1. Drop(queue, S) = Filter(queue, others)
    BY DEF Drop
  <2> HIDE DEF others
  <2> QED BY <2>1, FilterPlaces
<1>2. I \subseteq DOMAIN queue
  BY DEF Kept
<1> HIDE DEF others, I, place, c
<1>3. m \in 1..c /\ n \in 1..c
  BY <1>1
<1>4. place[m] \in DOMAIN queue /\ place[n] \in DOMAIN queue /\ place[m] < place[n]
  BY <1>1, <1>2, <1>3 DEF Increasing
<1> QED BY <1>1, <1>3, <1>4

\* A queue with no element twice is as long as it has elements.
LEMMA InjectiveLen ==
  ASSUME NEW T, NEW queue \in Seq(T), IsInjective(queue)
  PROVE  /\ IsFiniteSet(ToSet(queue))
         /\ Cardinality(ToSet(queue)) = Len(queue)
<1>1. /\ Len(queue) \in Nat /\ DOMAIN queue = 1..Len(queue)
      /\ queue \in [1..Len(queue) -> ToSet(queue)]
  BY LenProperties DEF ToSet
<1>2. queue \in Surjection(1..Len(queue), ToSet(queue))
  BY <1>1 DEF Surjection, ToSet
<1>3. queue \in Injection(1..Len(queue), ToSet(queue))
  BY <1>1 DEF Injection, IsInjective
<1>4. IsFiniteSet(1..Len(queue)) /\ Cardinality(1..Len(queue)) = Len(queue)
  BY <1>1, FS_Interval
<1> QED BY <1>2, <1>3, <1>4, FS_Surjection

\* What push_back and pop_front do to the elements.
LEMMA AppendElements ==
  ASSUME NEW T, NEW queue \in Seq(T), NEW e \in T
  PROVE  /\ Append(queue, e) \in Seq(T)
         /\ ToSet(Append(queue, e)) = ToSet(queue) \cup {e}
         /\ IsInjective(queue) /\ e \notin ToSet(queue) => IsInjective(Append(queue, e))
<1>1. /\ Append(queue, e) \in Seq(T)
      /\ Len(queue) \in Nat /\ DOMAIN queue = 1..Len(queue)
      /\ DOMAIN Append(queue, e) = 1..Len(queue) + 1
      /\ \A i \in 1..Len(queue) : Append(queue, e)[i] = queue[i]
      /\ Append(queue, e)[Len(queue) + 1] = e
  BY AppendProperties, LenProperties
<1>2. ToSet(Append(queue, e)) = ToSet(queue) \cup {e}
  <2>1. \A i \in 1..Len(queue) + 1 : i \in 1..Len(queue) \/ i = Len(queue) + 1
    BY <1>1
  <2>2. Len(queue) + 1 \in 1..Len(queue) + 1 /\ \A i \in 1..Len(queue) : i \in 1..Len(queue) + 1
    BY <1>1
  <2> QED BY <1>1, <2>1, <2>2, Zenon DEF ToSet
<1>3. IsInjective(queue) /\ e \notin ToSet(queue) => IsInjective(Append(queue, e))
  BY <1>1 DEF IsInjective, ToSet
<1> QED BY <1>1, <1>2, <1>3

\* rest is queue without its first element.
LEMMA RestElements ==
  ASSUME NEW T, NEW queue \in Seq(T), NEW n \in Nat, DOMAIN queue = 1..n, n > 0,
         NEW rest, DOMAIN rest = 1..n - 1, \A i \in 1..n - 1 : rest[i] = queue[i + 1]
  PROVE  /\ ToSet(queue) = ToSet(rest) \cup {queue[1]}
         /\ IsInjective(queue) => IsInjective(rest) /\ queue[1] \notin ToSet(rest)
<1>1. ToSet(queue) = ToSet(rest) \cup {queue[1]}
  <2>1. ASSUME NEW i \in 1..n, i # 1
        PROVE  queue[i] \in ToSet(rest)
    <3>1. i - 1 \in 1..n - 1 /\ rest[i - 1] = queue[i]
      BY <2>1
    <3> QED BY <3>1, Zenon DEF ToSet
  <2>2. ASSUME NEW j \in 1..n - 1
        PROVE  rest[j] \in ToSet(queue)
    <3>1. j + 1 \in 1..n
      OBVIOUS
    <3> QED BY <3>1, Zenon DEF ToSet
  <2>3. 1 \in 1..n
    OBVIOUS
  <2> QED BY <2>1, <2>2, <2>3, Zenon DEF ToSet
<1>2. ASSUME IsInjective(queue)
      PROVE  IsInjective(rest) /\ queue[1] \notin ToSet(rest)
  <2>1. \A i, j \in 1..n : queue[i] = queue[j] => i = j
    BY <1>2 DEF IsInjective
  <2>2. ASSUME NEW i \in 1..n - 1, NEW j \in 1..n - 1, rest[i] = rest[j]
        PROVE  i = j
    <3>1. i + 1 \in 1..n /\ j + 1 \in 1..n
      OBVIOUS
    <3> QED BY <3>1, <2>1, <2>2
  <2>3. ASSUME NEW i \in 1..n - 1, rest[i] = queue[1]
        PROVE  FALSE
    <3>1. i + 1 \in 1..n /\ 1 \in 1..n /\ i + 1 # 1
      OBVIOUS
    <3> QED BY <3>1, <2>1, <2>3
  <2>4. IsInjective(rest)
    BY <2>2 DEF IsInjective
  <2>5. queue[1] \notin ToSet(rest)
    BY <2>3 DEF ToSet
  <2> QED BY <2>4, <2>5
<1> QED BY <1>1, <1>2

LEMMA TailElements ==
  ASSUME NEW T, NEW queue \in Seq(T), queue # <<>>,
         NEW head, head = Head(queue), NEW rest, rest = Tail(queue)
  PROVE  /\ head \in T /\ rest \in Seq(T)
         /\ ToSet(queue) = ToSet(rest) \cup {head}
         /\ IsInjective(queue) => IsInjective(rest) /\ head \notin ToSet(rest)
<1>1. /\ Len(queue) \in Nat /\ Len(queue) > 0 /\ DOMAIN queue = 1..Len(queue)
      /\ head = queue[1] /\ head \in T /\ rest \in Seq(T)
      /\ DOMAIN rest = 1..Len(queue) - 1
      /\ \A i \in 1..Len(queue) - 1 : rest[i] = queue[i + 1]
  BY HeadTailProperties, LenProperties, EmptySeq
<1>2. /\ ToSet(queue) = ToSet(rest) \cup {queue[1]}
      /\ IsInjective(queue) => IsInjective(rest) /\ queue[1] \notin ToSet(rest)
  BY <1>1, RestElements, ZenonT(60)
<1> QED BY <1>1, <1>2, Zenon

\* The places of a concatenation.
LEMMA ConcatPlaces ==
  ASSUME NEW T, NEW s \in Seq(T), NEW t \in Seq(T)
  PROVE  /\ s \o t \in Seq(T) /\ Len(s \o t) = Len(s) + Len(t)
         /\ \A i \in 1..Len(s) : (s \o t)[i] = s[i]
         /\ \A i \in 1..Len(t) : (s \o t)[Len(s) + i] = t[i]
         /\ \A i \in 1..Len(s \o t) : i \in 1..Len(s) \/ i - Len(s) \in 1..Len(t)
OBVIOUS
=============================================================================
