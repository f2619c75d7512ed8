-------------------------- MODULE IterationProofs --------------------------
(***************************************************************************)
(* Proofs about the iterations of Engine: a batch is still true of its     *)
(* requests when its results are applied, and the budget of an iteration   *)
(* always has room for everybody who is running.                           *)
(***************************************************************************)
EXTENDS EngineProofs

-----------------------------------------------------------------------------
(* Counting                                                                *)

\* Under the bound b the elements of R with c of each: what a batch takes of
\* the budget.
Loads(R, c) == UNION {{r} \X (1..c[r]) : r \in R}

LEMMA LoadsType ==
  ASSUME NEW R, IsFiniteSet(R), NEW b \in Nat, NEW c, \A r \in R : c[r] \in 0..b
  PROVE  IsFiniteSet(Loads(R, c)) /\ Cardinality(Loads(R, c)) \in Nat
<1>1. Loads(R, c) \in SUBSET (R \X (1..b))
  <2> SUFFICES ASSUME NEW r \in R, NEW k \in 1..c[r]
               PROVE  k \in 1..b
    BY DEF Loads
  <2> QED OBVIOUS
<1>2. IsFiniteSet(R \X (1..b))
  <2>1. IsFiniteSet(1..b)
    BY FS_Interval
  <2> QED BY <2>1, FS_Product
<1> QED BY <1>1, <1>2, FS_Subset, FS_CardinalityType

\* More elements, or more of each, are not less.
LEMMA LoadsMonotone ==
  ASSUME NEW R, NEW Q, IsFiniteSet(Q), R \subseteq Q, NEW b \in Nat,
         NEW c, NEW d, \A r \in R : c[r] \in Nat /\ c[r] <= d[r],
         \A r \in Q : d[r] \in 0..b
  PROVE  /\ Cardinality(Loads(R, c)) \in Nat /\ Cardinality(Loads(Q, d)) \in Nat
         /\ Cardinality(Loads(R, c)) <= Cardinality(Loads(Q, d))
<1>1. IsFiniteSet(Loads(Q, d)) /\ Cardinality(Loads(Q, d)) \in Nat
  BY LoadsType
<1>2. Loads(R, c) \in SUBSET Loads(Q, d)
  <2> SUFFICES ASSUME NEW r \in R, NEW k \in 1..c[r]
               PROVE  r \in Q /\ k \in 1..d[r]
    BY DEF Loads
  <2> QED OBVIOUS
<1> QED BY <1>1, <1>2, FS_Subset, FS_CardinalityType

\* What different elements have adds up.
LEMMA LoadsUnion ==
  ASSUME NEW R, IsFiniteSet(R), NEW Q, IsFiniteSet(Q), \A q \in Q : q \notin R, NEW b \in Nat,
         NEW c, \A q \in R \cup Q : c[q] \in 0..b
  PROVE  /\ Cardinality(Loads(R, c)) \in Nat /\ Cardinality(Loads(Q, c)) \in Nat
         /\ Cardinality(Loads(R \cup Q, c)) = Cardinality(Loads(R, c)) + Cardinality(Loads(Q, c))
<1>1. Loads(R \cup Q, c) = Loads(R, c) \cup Loads(Q, c)
  BY DEF Loads
<1>2. Loads(R, c) \cap Loads(Q, c) = {}
  BY DEF Loads
<1>3. /\ IsFiniteSet(Loads(R, c)) /\ Cardinality(Loads(R, c)) \in Nat
      /\ IsFiniteSet(Loads(Q, c)) /\ Cardinality(Loads(Q, c)) \in Nat
  BY LoadsType
<1>4. Cardinality(Loads(R, c) \cup Loads(Q, c))
        = Cardinality(Loads(R, c)) + Cardinality(Loads(Q, c)) - Cardinality(Loads(R, c) \cap Loads(Q, c))
  BY <1>3, FS_Union, Zenon
<1>5. Cardinality(Loads(R, c) \cap Loads(Q, c)) = 0
  BY <1>2, FS_EmptySet
<1>6. Cardinality(Loads(R \cup Q, c))
        = Cardinality(Loads(R, c)) + Cardinality(Loads(Q, c)) - 0
  BY <1>1, <1>4, <1>5, Zenon
<1> QED BY <1>3, <1>6

\* When each has the same, they have that many times their number.
LEMMA LoadsEqual ==
  ASSUME NEW R, IsFiniteSet(R), NEW n \in Nat, NEW c, \A q \in R : c[q] = n
  PROVE  Cardinality(Loads(R, c)) = Cardinality(R) * n
<1>1. Loads(R, c) = R \X (1..n)
  BY DEF Loads
<1>2. IsFiniteSet(1..n) /\ Cardinality(1..n) = n
  BY FS_Interval
<1> QED BY <1>1, <1>2, FS_Product

\* One more element counts for what it has.
LEMMA LoadsAdd ==
  ASSUME NEW R, IsFiniteSet(R), NEW b \in Nat, NEW c, NEW r, r \notin R,
         \A q \in R \cup {r} : c[q] \in 0..b
  PROVE  /\ Cardinality(Loads(R, c)) \in Nat
         /\ Cardinality(Loads(R \cup {r}, c)) = Cardinality(Loads(R, c)) + c[r]
<1>1. IsFiniteSet({r}) /\ Cardinality({r}) = 1
  BY FS_Singleton
<1>2. Cardinality(Loads({r}, c)) = 1 * c[r]
  <2> DEFINE n == c[r]
  <2>1. n \in Nat /\ \A q \in {r} : c[q] = n
    OBVIOUS
  <2> HIDE DEF n
  <2>2. Cardinality(Loads({r}, c)) = 1 * n
    BY <1>1, <2>1, LoadsEqual
  <2> QED BY <2>2 DEF n
<1>3. /\ Cardinality(Loads(R, c)) \in Nat
      /\ Cardinality(Loads(R \cup {r}, c)) = Cardinality(Loads(R, c)) + Cardinality(Loads({r}, c))
  BY <1>1, LoadsUnion
<1>4. c[r] \in Nat
  OBVIOUS
<1> QED BY <1>2, <1>3, <1>4

\* Counting places of a list of different elements counts the elements.
LEMMA LoadsByPlace ==
  ASSUME NEW I, NEW R, NEW s \in Bijection(I, R),
         NEW b, NEW c, \A i \in I : b[i] = c[s[i]],
         IsFiniteSet(Loads(R, c))
  PROVE  Cardinality(Loads(I, b)) = Cardinality(Loads(R, c))
<1> DEFINE A == Loads(I, b)
           B == Loads(R, c)
           f == [x \in A |-> <<s[x[1]], x[2]>>]
<1>0. /\ \A i, j \in I : s[i] = s[j] => i = j
      /\ \A i \in I : s[i] \in R
      /\ \A r \in R : \E i \in I : s[i] = r
  BY DEF Bijection, Injection, Surjection, IsInjective
<1>1. \A x : x \in A <=> \E i \in I : \E k \in 1..b[i] : x = <<i, k>>
  BY DEF Loads
<1>2. \A y : y \in B <=> \E i \in I : \E k \in 1..b[i] : y = <<s[i], k>>
  <2>1. \A y : y \in B <=> \E r \in R : \E k \in 1..c[r] : y = <<r, k>>
    BY DEF Loads
  <2> HIDE DEF B
  <2> QED BY <1>0, <2>1
<1> HIDE DEF A, B
<1>3. f \in [A -> B]
  BY <1>1, <1>2
<1>4. \A x, y \in A : f[x] = f[y] => x = y
  BY <1>0, <1>1
<1>5. ASSUME NEW y \in B
      PROVE  \E x \in A : f[x] = y
  <2>1. PICK i \in I : \E k \in 1..b[i] : y = <<s[i], k>>
    BY <1>2
  <2>2. PICK k \in 1..b[i] : y = <<s[i], k>>
    BY <2>1
  <2>3. <<i, k>> \in A
    BY <1>1
  <2>4. f[<<i, k>>] = y
    BY <2>2, <2>3
  <2> QED BY <2>3, <2>4
<1>6. f \in Injection(A, B) /\ f \in Surjection(A, B)
  BY <1>3, <1>4, <1>5 DEF Injection, Surjection, IsInjective
<1> HIDE DEF f
<1>7. IsFiniteSet(B)
  BY DEF B
<1>8. Cardinality(A) = Cardinality(B)
  BY <1>6, <1>7, FS_Injection
<1> QED BY <1>8 DEF A, B

-----------------------------------------------------------------------------
(* The invariant                                                           *)

\* From the schedule that made the lists to the application of the results.
Scheduled == worker \in {"admitting", "assembling", "computing"}

\* What a running request takes of the budget of an iteration, and several of them.
Share == [r \in Running |-> IF Prefilled(r) THEN 1 ELSE Chunk(r)]
Load(R) == Cardinality(Loads(R, Share))

\* The running requests that schedule counts before it looks at r.
Ahead(q, r) == \E i, j \in DOMAIN running_queue :
                 i < j /\ running_queue[i] = q /\ running_queue[j] = r
Before(r) == {q \in Running : Prefilled(q) \/ Ahead(q, r)}

\* The lists have every running request, each once, and say of it what is true
\* until the results are applied.
ListsOK ==
  /\ ~Scheduled /\ worker # "dead" => to_prefill = <<>> /\ to_decode = <<>>
  /\ Scheduled =>
       /\ IsInjective(to_prefill) /\ IsInjective(to_decode)
       /\ ToSet(to_prefill) = {r \in Running : ~Prefilled(r)}
       /\ ToSet(to_decode) = {r \in Running : Prefilled(r)}
       /\ Running \cap now_late = {}
  /\ worker = "admitting" => Waiting \cap now_late = {}
  /\ worker = "computing" => batch = Items
  /\ worker \in {"idle", "asleep"} => Running = {}

\* Whoever still has some of its prompt to go finds room in the budget behind
\* everybody schedule counts before it.
RoomForAll == \A r \in Running : ~Prefilled(r) => Load(Before(r)) < max_tokens_per_iter

\* The counter counts, and it passes the budget by less than a chunk.
CountOK ==
  /\ worker = "admitting" => total_tokens = Load(Running)
  /\ Scheduled => \/ \A r \in Running : Prefilled(r)
                  \/ Load(Running) <= max_tokens_per_iter - 1 + max_prefill_chunk_size

IterationOK == ListsOK /\ RoomForAll /\ CountOK /\ IterationBudget

-----------------------------------------------------------------------------
(* Shares and loads                                                        *)

\* A share is between one token and a chunk.
SharesOK == /\ IsFiniteSet(Running)
            /\ \A r \in Running : /\ Share[r] \in 1..max_prefill_chunk_size
                                  /\ r \in DOMAIN requests

LEMMA ShareType == QueuesOK => SharesOK
<1> SUFFICES ASSUME QueuesOK, NEW r \in Running
             PROVE  Share[r] \in 1..max_prefill_chunk_size /\ r \in DOMAIN requests
  <2>1. QueuesOK => IsFiniteSet(Running)
    BY InjectiveLen DEF QueuesOK, Running
  <2> QED BY <2>1 DEF SharesOK
<1>1. r \in DOMAIN requests
  BY DEF QueuesOK
<1>2. /\ Chunk(r) \in 0..max_prefill_chunk_size /\ (~Prefilled(r) => Chunk(r) > 0)
      /\ max_prefill_chunk_size \in Nat \ {0}
  BY <1>1, ChunkType, EngineAssumption
<1> QED BY <1>1, <1>2 DEF Share

LEMMA ShareTypeNext == QueuesOK' => SharesOK'
BY ShareType, PTL

LEMMA LoadsJoined ==
  ASSUME NEW R, IsFiniteSet(R), NEW Q, IsFiniteSet(Q), \A q \in Q : q \notin R,
         NEW W, W = R \cup Q,
         NEW c, \A q \in W : c[q] \in 1..max_prefill_chunk_size
  PROVE  /\ Cardinality(Loads(R, c)) \in Nat /\ Cardinality(Loads(Q, c)) \in Nat
         /\ Cardinality(Loads(W, c)) = Cardinality(Loads(R, c)) + Cardinality(Loads(Q, c))
<1>1. max_prefill_chunk_size \in Nat /\ \A q \in R \cup Q : c[q] \in 0..max_prefill_chunk_size
  BY EngineAssumption
<1> QED BY <1>1, LoadsUnion

\* What the loads of two sets of requests under two ways to share are to each other.
LEMMA LoadsCompared ==
  ASSUME NEW Q, IsFiniteSet(Q), NEW d, \A q \in Q : d[q] \in 1..max_prefill_chunk_size,
         NEW R, R \subseteq Q, NEW c, \A q \in R : c[q] \in Nat /\ c[q] <= d[q]
  PROVE  /\ Cardinality(Loads(R, c)) \in Nat /\ Cardinality(Loads(Q, d)) \in Nat
         /\ Cardinality(Loads(R, c)) <= Cardinality(Loads(Q, d))
<1>1. max_prefill_chunk_size \in Nat /\ \A q \in Q : d[q] \in 0..max_prefill_chunk_size
  BY EngineAssumption
<1> QED BY <1>1, LoadsMonotone

LEMMA LoadsExtended ==
  ASSUME NEW Q, IsFiniteSet(Q), NEW d, \A q \in Q : d[q] \in 1..max_prefill_chunk_size,
         NEW R, R \subseteq Q, NEW r \in Q \ R
  PROVE  /\ Cardinality(Loads(R, d)) \in Nat
         /\ Cardinality(Loads(R \cup {r}, d)) = Cardinality(Loads(R, d)) + d[r]
<1>1. max_prefill_chunk_size \in Nat /\ \A q \in R \cup {r} : d[q] \in 0..max_prefill_chunk_size
  BY EngineAssumption
<1>2. IsFiniteSet(R)
  BY FS_Subset
<1> QED BY <1>1, <1>2, LoadsAdd

-----------------------------------------------------------------------------
(* The running prefills                                                    *)

Ready == {r \in Running : Prefilled(r)}
DecodesDue == Filter(running_queue, Ready)
PrefillsLeft == Drop(running_queue, Ready)

\* schedule counts everybody who is running: the loop over the running prefills, which
\* stops where the budget is reached, gets through them all.
LEMMA AllListed ==
  ASSUME StateOK, RoomForAll
  PROVE  /\ WithinBudget(DecodesDue, PrefillsLeft) = PrefillsLeft
         /\ TokensAt(DecodesDue, PrefillsLeft, Len(PrefillsLeft)) = Load(Running)
         /\ \/ Ready = Running
            \/ Load(Running) <= max_tokens_per_iter - 1 + max_prefill_chunk_size
<1> DEFINE listed(n) == Ready \cup {PrefillsLeft[i] : i \in 1..n}
<1>1. /\ PrefillsLeft \in Seq(Req) /\ ToSet(PrefillsLeft) = Running \ Ready /\ IsInjective(PrefillsLeft)
      /\ DecodesDue \in Seq(Req) /\ ToSet(DecodesDue) = Running \cap Ready /\ IsInjective(DecodesDue)
  BY DropElements, FilterElements DEF StateOK, QueuesOK, Running, DecodesDue, PrefillsLeft
<1>2. /\ Len(PrefillsLeft) \in Nat /\ DOMAIN PrefillsLeft = 1..Len(PrefillsLeft)
      /\ \A i \in 1..Len(PrefillsLeft) :
           /\ PrefillsLeft[i] \in Running /\ PrefillsLeft[i] \notin Ready
           /\ PrefillsLeft[i] \in DOMAIN requests
      /\ \A i, j \in 1..Len(PrefillsLeft) : PrefillsLeft[i] = PrefillsLeft[j] => i = j
      /\ \A r \in Running \ Ready : \E i \in 1..Len(PrefillsLeft) : r = PrefillsLeft[i]
  <2>1. Len(PrefillsLeft) \in Nat /\ DOMAIN PrefillsLeft = 1..Len(PrefillsLeft)
    BY <1>1, LenProperties
  <2>2. \A i \in 1..Len(PrefillsLeft) : PrefillsLeft[i] \in Running \ Ready
    BY <1>1, <2>1 DEF ToSet
  <2> QED BY <1>1, <2>1, <2>2 DEF ToSet, IsInjective, StateOK, QueuesOK, Ready
<1>3. /\ IsFiniteSet(Running) /\ \A r \in Running : Share[r] \in 1..max_prefill_chunk_size
      /\ max_prefill_chunk_size \in Nat /\ max_tokens_per_iter \in Nat
  BY ShareType, EngineAssumption DEF StateOK, SharesOK
<1>4. /\ \A r \in Ready : r \in Running /\ Share[r] = 1
      /\ \A r \in Running \ Ready : Share[r] = Chunk(r)
  BY DEF Share, Ready
<1>5. ASSUME NEW n \in 0..Len(PrefillsLeft)
      PROVE  TokensAt(DecodesDue, PrefillsLeft, n) = Load(listed(n)) /\ Load(listed(n)) \in Nat
  <2> DEFINE part == {PrefillsLeft[i] : i \in 1..n}
  <2>1. part \subseteq Running \ Ready /\ 1..n \subseteq 1..Len(PrefillsLeft)
    BY <1>2
  <2>2. IsFiniteSet(part) /\ IsFiniteSet(Ready)
    BY <1>3, <1>4, <2>1, FS_Subset
  <2>3. Len(DecodesDue) = Load(Ready) /\ Load(Ready) \in Nat
    <3>1. Len(DecodesDue) = Cardinality(Ready) /\ Len(DecodesDue) \in Nat
      <4>1. ToSet(DecodesDue) = Ready
        BY <1>1, <1>4
      <4> QED BY <1>1, <4>1, InjectiveLen, LenProperties
    <3>2. Load(Ready) = Cardinality(Ready) * 1
      BY <1>4, <2>2, LoadsEqual DEF Load
    <3> QED BY <3>1, <3>2
  <2>4. Cardinality(ChunkTokens(PrefillsLeft, n)) = Load(part)
    <3> DEFINE chunk == [i \in 1..n |-> Chunk(PrefillsLeft[i])]
    <3>1. ChunkTokens(PrefillsLeft, n) = Loads(1..n, chunk)
      BY DEF ChunkTokens, Loads
    <3>2. \A i \in 1..n : chunk[i] = Share[PrefillsLeft[i]]
      BY <1>2, <1>4, <2>1
    <3>3. IsFiniteSet(Loads(part, Share))
      <4>1. \A r \in part : Share[r] \in 0..max_prefill_chunk_size
        BY <1>3, <2>1
      <4> QED BY <1>3, <2>2, <4>1, LoadsType
    <3> DEFINE place == [i \in 1..n |-> PrefillsLeft[i]]
    <3>4. place \in Bijection(1..n, part)
      BY <1>2, <2>1 DEF Bijection, Injection, Surjection, IsInjective
    <3>5. \A i \in 1..n : chunk[i] = Share[place[i]]
      BY <3>2
    <3> HIDE DEF chunk, place, part
    <3>6. Cardinality(Loads(1..n, chunk)) = Cardinality(Loads(part, Share))
      BY <3>3, <3>4, <3>5, LoadsByPlace
    <3> QED BY <3>1, <3>6 DEF Load
  <2>5. Load(listed(n)) = Load(Ready) + Load(part) /\ Load(part) \in Nat
    <3>1. listed(n) = Ready \cup part
      OBVIOUS
    <3>2. \A r \in part : r \notin Ready
      BY <2>1
    <3>3. \A r \in listed(n) : Share[r] \in 1..max_prefill_chunk_size
      BY <1>3, <1>4, <2>1
    <3> HIDE DEF part, listed
    <3>4. /\ Cardinality(Loads(part, Share)) \in Nat
          /\ Cardinality(Loads(listed(n), Share))
               = Cardinality(Loads(Ready, Share)) + Cardinality(Loads(part, Share))
      BY ONLY <2>2, <3>1, <3>2, <3>3, LoadsJoined
    <3> QED BY <3>4 DEF Load
  <2> HIDE DEF Load, listed, part
  <2> QED BY <2>3, <2>4, <2>5 DEF TokensAt
<1>6. ASSUME NEW n \in 1..Len(PrefillsLeft)
      PROVE  TokensAt(DecodesDue, PrefillsLeft, n - 1) < max_tokens_per_iter
  <2>1. n - 1 \in 0..Len(PrefillsLeft) /\ n - 1 \in Nat
    BY <1>2
  <2>2. listed(n - 1) \subseteq Before(PrefillsLeft[n])
    <3> SUFFICES ASSUME NEW i \in 1..n - 1
                 PROVE  PrefillsLeft[i] \in Before(PrefillsLeft[n])
      BY <1>4 DEF Before, Ready
    <3>1. i \in DOMAIN PrefillsLeft /\ n \in DOMAIN PrefillsLeft /\ i < n
      BY <1>2
    <3>2. \E x, y \in DOMAIN running_queue :
            x < y /\ running_queue[x] = PrefillsLeft[i] /\ running_queue[y] = PrefillsLeft[n]
      <4>1. running_queue \in Seq(Req) /\ PrefillsLeft = Drop(running_queue, Ready)
        BY DEF StateOK, QueuesOK, PrefillsLeft
      <4>2. \E x, y \in DOMAIN running_queue :
              /\ x < y
              /\ running_queue[x] = Drop(running_queue, Ready)[i]
              /\ running_queue[y] = Drop(running_queue, Ready)[n]
        BY <3>1, <4>1, DropOrder
      <4> QED BY <4>1, <4>2
    <3> QED BY <1>2, <3>1, <3>2 DEF Before, Ahead
  <2>3. Load(Before(PrefillsLeft[n])) < max_tokens_per_iter
    <3>1. PrefillsLeft[n] \in Running /\ ~Prefilled(PrefillsLeft[n])
      BY <1>2 DEF Ready
    <3> QED BY <3>1 DEF RoomForAll
  <2>4. /\ Before(PrefillsLeft[n]) \subseteq Running
        /\ IsFiniteSet(Before(PrefillsLeft[n]))
    <3>1. Before(PrefillsLeft[n]) \subseteq Running
      BY DEF Before
    <3> QED BY <1>3, <3>1, FS_Subset
  <2>5. Load(listed(n - 1)) <= Load(Before(PrefillsLeft[n])) /\ Load(Before(PrefillsLeft[n])) \in Nat
    <3> HIDE DEF listed
    <3>1. \A r \in Running : Share[r] \in Nat /\ Share[r] <= Share[r]
      BY <1>3
    <3>2. /\ \A r \in listed(n - 1) : Share[r] \in Nat /\ Share[r] <= Share[r]
          /\ \A r \in Before(PrefillsLeft[n]) : Share[r] \in 1..max_prefill_chunk_size
      BY <1>3, <2>2, <2>4, <3>1
    <3> QED BY <2>2, <2>4, <3>2, LoadsCompared DEF Load
  <2> HIDE DEF Load, listed
  <2> QED BY <1>3, <1>5, <2>1, <2>3, <2>5
<1>7. WithinBudget(DecodesDue, PrefillsLeft) = PrefillsLeft
  <2>1. {n \in DOMAIN PrefillsLeft : TokensAt(DecodesDue, PrefillsLeft, n - 1) < max_tokens_per_iter} = 1..Len(PrefillsLeft)
    BY <1>2, <1>6
  <2>2. Cardinality(1..Len(PrefillsLeft)) = Len(PrefillsLeft)
    <3> DEFINE n == Len(PrefillsLeft)
    <3>1. n \in Nat
      BY <1>2
    <3> HIDE DEF n
    <3>2. Cardinality(1..n) = n
      BY <3>1, FS_Interval
    <3> QED BY <3>2 DEF n
  <2>3. WithinBudget(DecodesDue, PrefillsLeft) = SubSeq(PrefillsLeft, 1, Len(PrefillsLeft))
    BY <2>1, <2>2 DEF WithinBudget
  <2>4. SubSeq(PrefillsLeft, 1, Len(PrefillsLeft)) = PrefillsLeft
    BY <1>1
  <2> QED BY <2>3, <2>4
<1>8. listed(Len(PrefillsLeft)) = Running
  BY <1>2, <1>4
<1>9. TokensAt(DecodesDue, PrefillsLeft, Len(PrefillsLeft)) = Load(Running)
  <2>1. Len(PrefillsLeft) \in 0..Len(PrefillsLeft)
    BY <1>2
  <2> HIDE DEF listed, Load
  <2> QED BY <1>5, <1>8, <2>1
<1>10. ASSUME Ready # Running
       PROVE  Load(Running) <= max_tokens_per_iter - 1 + max_prefill_chunk_size
  <2> DEFINE n == Len(PrefillsLeft)
  <2>1. n \in 1..n /\ n \in 1..Len(PrefillsLeft) /\ n - 1 \in 0..Len(PrefillsLeft) /\ n \in Nat
    <3>1. Ready \subseteq Running
      BY <1>4
    <3>2. Len(PrefillsLeft) > 0
      BY <1>2, <1>10, <3>1
    <3> QED BY <1>2, <3>2
  <2>2. /\ Running = listed(n - 1) \cup {PrefillsLeft[n]} /\ PrefillsLeft[n] \in Running
        /\ PrefillsLeft[n] \notin listed(n - 1) /\ listed(n - 1) \subseteq Running
    <3>1. \A i \in 1..n : i \in 1..n - 1 \/ i = n
      BY <2>1
    <3>2. \A i \in 1..n - 1 : i \in 1..n /\ i # n
      BY <2>1
    <3>3. listed(n) = listed(n - 1) \cup {PrefillsLeft[n]}
      <4> HIDE DEF n
      <4> QED BY <2>1, <3>1, <3>2
    <3>4. PrefillsLeft[n] \in Running /\ PrefillsLeft[n] \notin Ready
      BY <1>2, <1>4, <2>1
    <3>5. \A i \in 1..n - 1 : PrefillsLeft[i] # PrefillsLeft[n]
      BY <1>2, <2>1, <3>2
    <3>6. listed(n) = Running
      BY <1>8
    <3> QED BY <3>3, <3>4, <3>5, <3>6
  <2>3. Load(listed(n - 1) \cup {PrefillsLeft[n]}) = Load(listed(n - 1)) + Share[PrefillsLeft[n]]
    <3> HIDE DEF listed, n
    <3>1. PrefillsLeft[n] \in Running \ listed(n - 1)
      BY <2>2
    <3>2. /\ IsFiniteSet(Running) /\ \A r \in Running : Share[r] \in 1..max_prefill_chunk_size
          /\ listed(n - 1) \subseteq Running
      BY <1>3, <2>2
    <3>3. Cardinality(Loads(listed(n - 1) \cup {PrefillsLeft[n]}, Share))
            = Cardinality(Loads(listed(n - 1), Share)) + Share[PrefillsLeft[n]]
      BY <3>1, <3>2, LoadsExtended
    <3> QED BY <3>3 DEF Load
  <2>4. Load(listed(n - 1)) < max_tokens_per_iter /\ Load(listed(n - 1)) \in Nat
    <3> HIDE DEF Load, listed
    <3> QED BY <1>5, <1>6, <2>1
  <2>5. Share[PrefillsLeft[n]] \in 1..max_prefill_chunk_size
    BY <1>3, <2>2
  <2>6. Load(Running) = Load(listed(n - 1)) + Share[PrefillsLeft[n]]
    BY <2>2, <2>3
  <2> HIDE DEF Load, listed, n
  <2> QED BY <1>3, <2>4, <2>5, <2>6
<1> QED BY <1>7, <1>9, <1>10

-----------------------------------------------------------------------------
(* The batch                                                               *)

\* An item per running request, that says of it what is true.
LEMMA ItemsOfRunning ==
  ASSUME QueuesOK, to_prefill \in Seq(Req), to_decode \in Seq(Req),
         IsInjective(to_prefill), IsInjective(to_decode),
         ToSet(to_prefill) = {r \in Running : ~Prefilled(r)},
         ToSet(to_decode) = {r \in Running : Prefilled(r)}
  PROVE  /\ Items \in Seq(BatchItem) /\ DOMAIN Items = 1..Len(Items)
         /\ \A i \in DOMAIN Items :
              /\ Items[i].req \in Running
              /\ Items[i].is_prefill <=> ~Prefilled(Items[i].req)
              /\ Items[i] = IF Prefilled(Items[i].req) THEN DecodeItem(Items[i].req)
                                                       ELSE PrefillItem(Items[i].req)
         /\ \A i, j \in DOMAIN Items : Items[i].req = Items[j].req => i = j
         /\ \A r \in Running : \E i \in DOMAIN Items : Items[i].req = r
<1> DEFINE m == Len(to_prefill)
           n == Len(to_decode)
<1>1. /\ m \in Nat /\ n \in Nat
      /\ Items \in Seq(BatchItem) /\ Len(Items) = m + n
      /\ \A i \in 1..m : Items[i] = PrefillItem(to_prefill[i]) /\ to_prefill[i] \in Running
      /\ \A i \in 1..n : Items[m + i] = DecodeItem(to_decode[i]) /\ to_decode[i] \in Running
      /\ \A i \in 1..m + n : i \in 1..m \/ \E j \in 1..n : i = m + j
  BY ItemsType
<1>2. /\ DOMAIN to_prefill = 1..m /\ DOMAIN to_decode = 1..n
      /\ DOMAIN Items = 1..Len(Items)
  BY <1>1, LenProperties
<1>3. /\ \A i \in 1..m : ~Prefilled(to_prefill[i])
      /\ \A i \in 1..n : Prefilled(to_decode[i])
      /\ \A i, j \in 1..m : to_prefill[i] = to_prefill[j] => i = j
      /\ \A i, j \in 1..n : to_decode[i] = to_decode[j] => i = j
      /\ \A r \in Running : \/ ~Prefilled(r) /\ \E i \in 1..m : to_prefill[i] = r
                            \/ Prefilled(r) /\ \E i \in 1..n : to_decode[i] = r
  <2>1. /\ \A i \in 1..m : to_prefill[i] \in ToSet(to_prefill)
        /\ \A i \in 1..n : to_decode[i] \in ToSet(to_decode)
    BY <1>2 DEF ToSet
  <2>2. /\ \A i \in 1..m : ~Prefilled(to_prefill[i])
        /\ \A i \in 1..n : Prefilled(to_decode[i])
    BY <2>1
  <2>3. \A i, j \in 1..m : to_prefill[i] = to_prefill[j] => i = j
    BY <1>2 DEF IsInjective
  <2>4. \A i, j \in 1..n : to_decode[i] = to_decode[j] => i = j
    BY <1>2 DEF IsInjective
  <2>5. \A r \in Running : ~Prefilled(r) => \E i \in 1..m : to_prefill[i] = r
    BY <1>2 DEF ToSet
  <2>6. \A r \in Running : Prefilled(r) => \E i \in 1..n : to_decode[i] = r
    BY <1>2 DEF ToSet
  <2> QED BY <2>2, <2>3, <2>4, <2>5, <2>6
<1>4. \A r : /\ PrefillItem(r).req = r /\ PrefillItem(r).is_prefill = TRUE
             /\ DecodeItem(r).req = r /\ DecodeItem(r).is_prefill = FALSE
  BY DEF PrefillItem, DecodeItem
<1> HIDE DEF m, n, Items
<1>5. \A i \in 1..m : /\ i \in DOMAIN Items
                      /\ Items[i].req = to_prefill[i] /\ Items[i].is_prefill = TRUE
                      /\ Items[i] = PrefillItem(Items[i].req)
  BY <1>1, <1>2, <1>4
<1>6. \A i \in 1..n : /\ m + i \in DOMAIN Items
                      /\ Items[m + i].req = to_decode[i] /\ Items[m + i].is_prefill = FALSE
                      /\ Items[m + i] = DecodeItem(Items[m + i].req)
  <2> SUFFICES ASSUME NEW i \in 1..n
               PROVE  /\ m + i \in DOMAIN Items
                      /\ Items[m + i].req = to_decode[i] /\ Items[m + i].is_prefill = FALSE
                      /\ Items[m + i] = DecodeItem(Items[m + i].req)
    OBVIOUS
  <2>1. m + i \in DOMAIN Items
    BY <1>1, <1>2
  <2>2. Items[m + i] = DecodeItem(to_decode[i])
    BY <1>1
  <2> QED BY <1>4, <2>1, <2>2
<1>7. \A i \in DOMAIN Items : i \in 1..m \/ \E j \in 1..n : i = m + j
  BY <1>1, <1>2
<1>8. ASSUME NEW i \in DOMAIN Items
      PROVE  /\ Items[i].req \in Running
             /\ Items[i].is_prefill <=> ~Prefilled(Items[i].req)
             /\ Items[i] = IF Prefilled(Items[i].req) THEN DecodeItem(Items[i].req)
                                                      ELSE PrefillItem(Items[i].req)
  <2>1. CASE i \in 1..m
    BY <2>1, <1>1, <1>3, <1>5
  <2>2. ASSUME NEW j \in 1..n, i = m + j
        PROVE  /\ Items[i].req \in Running
               /\ Items[i].is_prefill <=> ~Prefilled(Items[i].req)
               /\ Items[i] = IF Prefilled(Items[i].req) THEN DecodeItem(Items[i].req)
                                                        ELSE PrefillItem(Items[i].req)
    BY <2>2, <1>1, <1>3, <1>6
  <2> QED BY <2>1, <2>2, <1>7
<1>9. ASSUME NEW i \in DOMAIN Items, NEW j \in DOMAIN Items, Items[i].req = Items[j].req
      PROVE  i = j
  <2>1. CASE i \in 1..m /\ j \in 1..m
    BY <2>1, <1>3, <1>5, <1>9
  <2>2. ASSUME NEW x \in 1..n, i = m + x, NEW y \in 1..n, j = m + y
        PROVE  i = j
    BY <2>2, <1>3, <1>6, <1>9
  <2>3. ASSUME NEW x \in 1..n, i = m + x, j \in 1..m
        PROVE  FALSE
    BY <2>3, <1>3, <1>5, <1>6, <1>9
  <2>4. ASSUME NEW y \in 1..n, j = m + y, i \in 1..m
        PROVE  FALSE
    BY <2>4, <1>3, <1>5, <1>6, <1>9
  <2> QED BY <2>1, <2>2, <2>3, <2>4, <1>7
<1>10. \A r \in Running : \E i \in DOMAIN Items : Items[i].req = r
  BY <1>3, <1>5, <1>6
<1> QED BY <1>1, <1>2, <1>8, <1>9, <1>10

\* No items, nobody running.
LEMMA NoItems ==
  ASSUME to_prefill \in Seq(Req), to_decode \in Seq(Req), Items = <<>>,
         QueuesOK, ToSet(to_prefill) \subseteq Running, ToSet(to_decode) \subseteq Running
  PROVE  to_prefill = <<>> /\ to_decode = <<>>
<1>1. Len(Items) = Len(to_prefill) + Len(to_decode)
  BY ItemsType
<1>2. Len(Items) = 0
  <2> HIDE DEF Items
  <2> QED BY EmptySeq
<1>3. Len(to_prefill) \in Nat /\ Len(to_decode) \in Nat
  BY LenProperties
<1>4. Len(to_prefill) = 0 /\ Len(to_decode) = 0
  BY <1>1, <1>2, <1>3
<1> QED BY <1>4, EmptySeq

\* The tokens of the batch are the load of the running requests.
LEMMA BatchLoad ==
  ASSUME QueuesOK,
         DOMAIN batch = 1..Len(batch),
         \A i \in DOMAIN batch :
            /\ batch[i].req \in Running
            /\ batch[i] = IF Prefilled(batch[i].req) THEN DecodeItem(batch[i].req)
                                                     ELSE PrefillItem(batch[i].req),
         \A i, j \in DOMAIN batch : batch[i].req = batch[j].req => i = j,
         \A r \in Running : \E i \in DOMAIN batch : batch[i].req = r
  PROVE  BatchTokens = Load(Running)
<1> DEFINE input == [i \in DOMAIN batch |-> batch[i].input]
           place == [i \in DOMAIN batch |-> batch[i].req]
<1>1. /\ IsFiniteSet(Running) /\ max_prefill_chunk_size \in Nat
      /\ \A r \in Running : Share[r] \in 0..max_prefill_chunk_size
  BY ShareType, EngineAssumption DEF SharesOK
<1>2. place \in Bijection(DOMAIN batch, Running)
  BY DEF Bijection, Injection, Surjection, IsInjective
<1>3. \A i \in DOMAIN batch : input[i] = Share[place[i]]
  <2> SUFFICES ASSUME NEW i \in DOMAIN batch
               PROVE  batch[i].input = Share[batch[i].req]
    OBVIOUS
  <2>1. /\ DecodeItem(batch[i].req).input = 1
        /\ PrefillItem(batch[i].req).input = Chunk(batch[i].req)
    BY DEF DecodeItem, PrefillItem
  <2> QED BY <2>1 DEF Share
<1>4. BatchTokens = Cardinality(Loads(DOMAIN batch, input))
  <2>1. \A i \in DOMAIN batch : batch[i].input = input[i]
    OBVIOUS
  <2> HIDE DEF input
  <2>2. UNION {{i} \X (1..batch[i].input) : i \in DOMAIN batch}
          = UNION {{i} \X (1..input[i]) : i \in DOMAIN batch}
    BY <2>1
  <2> QED BY <2>2 DEF BatchTokens, Loads
<1>5. IsFiniteSet(Loads(Running, Share))
  BY <1>1, LoadsType
<1> HIDE DEF input, place
<1>6. Cardinality(Loads(DOMAIN batch, input)) = Cardinality(Loads(Running, Share))
  BY <1>2, <1>3, <1>5, LoadsByPlace
<1> QED BY <1>4, <1>6 DEF Load

-----------------------------------------------------------------------------
(* The steps                                                               *)

\* What is true of the running requests stays so while nobody touches them.
LEMMA RunningSame ==
  ASSUME QueuesOK, UNCHANGED running_queue, \A r \in Running : requests'[r] = requests[r]
  PROVE  /\ Running' = Running /\ Share' = Share
         /\ \A r \in Running : /\ Prefilled(r)' <=> Prefilled(r)
                               /\ PrefillItem(r)' = PrefillItem(r)
                               /\ DecodeItem(r)' = DecodeItem(r)
         /\ Load(Running)' = Load(Running)
         /\ RoomForAll => RoomForAll'
<1>1. Running' = Running
  BY DEF Running
<1>2. \A r \in Running : /\ Prefilled(r)' <=> Prefilled(r)
                         /\ Chunk(r)' = Chunk(r)
  BY DEF Prefilled, Chunk, PromptLen
<1>3. Share' = Share
  BY <1>1, <1>2 DEF Share
<1>4. Load(Running)' = Load(Running)
  BY <1>1, <1>3 DEF Load
<1>5. \A r \in Running : /\ PrefillItem(r)' = PrefillItem(r)
                         /\ DecodeItem(r)' = DecodeItem(r)
  BY <1>2 DEF PrefillItem, DecodeItem
<1>6. ASSUME NEW r \in Running
      PROVE  Before(r)' = Before(r)
  BY <1>1, <1>2 DEF Before, Ahead
<1>7. ASSUME NEW r \in Running
      PROVE  Load(Before(r))' = Load(Before(r))
  BY <1>3, <1>6 DEF Load
<1>8. ASSUME RoomForAll
      PROVE  RoomForAll'
  <2> SUFFICES ASSUME NEW r \in Running, ~Prefilled(r)
               PROVE  Load(Before(r))' < max_tokens_per_iter
    BY <1>1, <1>2 DEF RoomForAll
  <2>1. Load(Before(r)) < max_tokens_per_iter
    BY <1>8 DEF RoomForAll
  <2> QED BY <1>7, <2>1
<1> QED BY <1>1, <1>2, <1>3, <1>4, <1>5, <1>8

\* The batch that was assembled is the one that would be assembled now.
LEMMA ItemsSame ==
  ASSUME QueuesOK, UNCHANGED <<running_queue, to_prefill, to_decode>>,
         \A r \in Running : requests'[r] = requests[r],
         ToSet(to_prefill) \subseteq Running, ToSet(to_decode) \subseteq Running
  PROVE  Items' = Items
<1>1. /\ \A i \in DOMAIN to_prefill : PrefillItem(to_prefill[i])' = PrefillItem(to_prefill[i])
      /\ \A i \in DOMAIN to_decode : DecodeItem(to_decode[i])' = DecodeItem(to_decode[i])
  <2>1. /\ \A i \in DOMAIN to_prefill : to_prefill[i] \in Running
        /\ \A i \in DOMAIN to_decode : to_decode[i] \in Running
    BY DEF ToSet
  <2> QED BY <2>1 DEF PrefillItem, DecodeItem, Chunk, PromptLen
<1>2. /\ [i \in DOMAIN to_prefill |-> PrefillItem(to_prefill[i])]'
           = [i \in DOMAIN to_prefill |-> PrefillItem(to_prefill[i])]
      /\ [i \in DOMAIN to_decode |-> DecodeItem(to_decode[i])]'
           = [i \in DOMAIN to_decode |-> DecodeItem(to_decode[i])]
  BY <1>1
<1> QED BY <1>2 DEF Items

LEMMA IterationFrame ==
  ASSUME StateOK, IterationOK,
         UNCHANGED <<running_queue, to_prefill, to_decode, batch>>,
         \A r \in Running : requests'[r] = requests[r],
         \/ worker' = "dead"
         \/ /\ worker \notin {"admitting", "assembling", "computing", "dead"}
            /\ worker' \notin {"admitting", "assembling", "computing"}
            /\ worker' \in {"idle", "asleep"} => Running = {}
         \/ /\ worker' = worker /\ UNCHANGED <<total_tokens, now_late>>
            /\ worker = "admitting" => UNCHANGED waiting_queue
         \/ /\ worker = "admitting" /\ worker' = "assembling"
            /\ UNCHANGED <<total_tokens, now_late>>
  PROVE  IterationOK'
<1>1. /\ Running' = Running /\ Share' = Share
      /\ \A r \in Running : Prefilled(r)' <=> Prefilled(r)
      /\ Load(Running)' = Load(Running)
      /\ RoomForAll'
  BY RunningSame DEF StateOK, IterationOK
<1>2. IterationBudget'
  BY DEF IterationOK, IterationBudget, Decodes, BatchTokens
<1>3. CASE worker' = "dead"
  BY <1>1, <1>2, <1>3 DEF IterationOK, ListsOK, CountOK, Scheduled
<1>4. CASE /\ worker \notin {"admitting", "assembling", "computing", "dead"}
           /\ worker' \notin {"admitting", "assembling", "computing"}
           /\ worker' \in {"idle", "asleep"} => Running = {}
  BY <1>1, <1>2, <1>4 DEF IterationOK, ListsOK, CountOK, Scheduled
<1>5. CASE \/ /\ worker' = worker /\ UNCHANGED <<total_tokens, now_late>>
              /\ worker = "admitting" => UNCHANGED waiting_queue
           \/ /\ worker = "admitting" /\ worker' = "assembling"
              /\ UNCHANGED <<total_tokens, now_late>>
  <2>1. CountOK'
    BY <1>1, <1>5 DEF IterationOK, CountOK, Scheduled
  <2>2. /\ {r \in Running : Prefilled(r)}' = {r \in Running : Prefilled(r)}
        /\ {r \in Running : ~Prefilled(r)}' = {r \in Running : ~Prefilled(r)}
    BY <1>1
  <2>3. worker' = "computing" => batch' = Items'
    <3> SUFFICES ASSUME worker' = "computing"
                 PROVE  batch' = Items'
      OBVIOUS
    <3>1. worker = "computing"
      BY <1>5
    <3>2. /\ batch = Items /\ batch' = batch
          /\ ToSet(to_prefill) \subseteq Running /\ ToSet(to_decode) \subseteq Running
      BY <3>1 DEF IterationOK, ListsOK, Scheduled
    <3>3. Items' = Items
      BY <3>2, ItemsSame DEF StateOK
    <3> QED BY <3>2, <3>3
  <2>4. worker' = "admitting" => (Waiting \cap now_late = {})'
    BY <1>5 DEF IterationOK, ListsOK, Waiting
  <2>5. ListsOK'
    BY <1>1, <1>5, <2>2, <2>3, <2>4 DEF IterationOK, ListsOK, Scheduled
  <2> QED BY <1>1, <1>2, <2>1, <2>5 DEF IterationOK
<1> QED BY <1>3, <1>4, <1>5

\* Whoever leaves makes room.
LEMMA RoomAfterRemoval ==
  ASSUME StateOK, QueuesOK', RoomForAll, NEW r,
         running_queue' = Drop(running_queue, {r}), Running' = Running \ {r},
         \A q \in Running' : requests'[q] = requests[q]
  PROVE  RoomForAll'
<1>1. /\ IsFiniteSet(Running) /\ \A q \in Running : Share[q] \in 1..max_prefill_chunk_size
      /\ max_prefill_chunk_size \in Nat /\ max_tokens_per_iter \in Nat
  BY ShareType, EngineAssumption DEF StateOK, SharesOK
<1>2. \A q \in Running' : Share'[q] = Share[q] /\ (Prefilled(q)' <=> Prefilled(q))
  BY DEF Share, Prefilled, Chunk, PromptLen
<1> SUFFICES ASSUME NEW q \in Running', ~Prefilled(q)'
             PROVE  Load(Before(q))' < max_tokens_per_iter
  BY DEF RoomForAll
<1>3. Before(q)' \subseteq Before(q)
  <2> SUFFICES ASSUME NEW x \in Running', Prefilled(x)' \/ Ahead(x, q)'
               PROVE  x \in Before(q)
    BY DEF Before
  <2>1. CASE Prefilled(x)'
    BY <1>2, <2>1 DEF Before
  <2>2. CASE Ahead(x, q)'
    <3>1. PICK i \in DOMAIN running_queue', j \in DOMAIN running_queue' :
            i < j /\ running_queue'[i] = x /\ running_queue'[j] = q
      BY <2>2 DEF Ahead
    <3>2. running_queue \in Seq(Req)
      BY DEF StateOK, QueuesOK
    <3>3. i \in DOMAIN Drop(running_queue, {r}) /\ j \in DOMAIN Drop(running_queue, {r})
      BY <3>1
    <3>4. \E k, l \in DOMAIN running_queue :
            /\ k < l
            /\ running_queue[k] = Drop(running_queue, {r})[i]
            /\ running_queue[l] = Drop(running_queue, {r})[j]
      BY <3>1, <3>2, <3>3, DropOrder
    <3> QED BY <3>1, <3>4 DEF Before, Ahead
  <2> QED BY <2>1, <2>2
<1>4. Before(q) \subseteq Running /\ Before(q)' \subseteq Running' /\ IsFiniteSet(Before(q))
  <2>1. Before(q) \subseteq Running /\ Before(q)' \subseteq Running'
    BY DEF Before
  <2> QED BY <1>1, <2>1, FS_Subset
<1>5. /\ \A x \in Before(q) : Share[x] \in 1..max_prefill_chunk_size
      /\ \A x \in Before(q)' : Share'[x] \in Nat /\ Share'[x] <= Share[x]
  BY <1>1, <1>2, <1>3, <1>4
<1>6. /\ Cardinality(Loads(Before(q)', Share')) \in Nat /\ Cardinality(Loads(Before(q), Share)) \in Nat
      /\ Cardinality(Loads(Before(q)', Share')) <= Cardinality(Loads(Before(q), Share))
  BY <1>3, <1>4, <1>5, LoadsCompared
<1>7. Cardinality(Loads(Before(q), Share)) < max_tokens_per_iter
  BY <1>2 DEF RoomForAll, Load
<1> QED BY <1>1, <1>6, <1>7 DEF Load

LEMMA RemovalIteration ==
  ASSUME StateOK, IterationOK, StateOK', ExpireRunning \/ Finish, NEW r,
         running_queue' = Drop(running_queue, {r}), Running' = Running \ {r},
         DOMAIN requests' = DOMAIN requests \ {r},
         \A q \in DOMAIN requests' : requests'[q] = requests[q]
  PROVE  IterationOK'
<1>1. /\ worker \in {"expiring", "finishing"} /\ worker' = worker
      /\ UNCHANGED <<to_prefill, to_decode, batch>>
  BY DEF ExpireRunning, Finish, iteration, work
<1>2. RoomForAll'
  BY RoomAfterRemoval DEF StateOK, IterationOK, QueuesOK
<1>3. IterationBudget'
  BY <1>1 DEF IterationOK, IterationBudget, Decodes, BatchTokens
<1> QED BY <1>1, <1>2, <1>3 DEF IterationOK, ListsOK, CountOK, Scheduled

LEMMA ListRunningIteration ==
  ASSUME StateOK, IterationOK, ListRunning
  PROVE  IterationOK'
<1>1. /\ worker' = "admitting"
      /\ to_decode' = DecodesDue
      /\ to_prefill' = WithinBudget(DecodesDue, PrefillsLeft)
      /\ total_tokens' = TokensAt(to_decode', to_prefill', Len(to_prefill'))
      /\ UNCHANGED <<running_queue, now_late, batch>>
      /\ RunningExpired
  BY DEF ListRunning, DecodesDue, PrefillsLeft, Ready, work
<1>2. /\ to_prefill' = PrefillsLeft
      /\ total_tokens' = Load(Running)
      /\ Ready = Running \/ Load(Running) <= max_tokens_per_iter - 1 + max_prefill_chunk_size
  BY <1>1, AllListed DEF IterationOK
<1>3. /\ Waiting' = Waiting \ now_late /\ Running' = Running
      /\ DOMAIN requests' = DOMAIN requests \ (now_late \cap Waiting)
      /\ \A q \in DOMAIN requests' : requests'[q] = requests[q]
      /\ IsInjective(to_decode') /\ ToSet(to_decode') = Ready
      /\ IsInjective(to_prefill')
  BY ListRunningStep DEF Ready
<1>4. \A r \in Running : requests'[r] = requests[r]
  BY <1>3 DEF StateOK, QueuesOK
<1>5. /\ Load(Running)' = Load(Running) /\ RoomForAll'
      /\ \A r \in Running : Prefilled(r)' <=> Prefilled(r)
  BY <1>1, <1>4, RunningSame DEF StateOK, IterationOK
<1>6. ToSet(to_prefill') = {r \in Running : ~Prefilled(r)}
  <2>1. ToSet(PrefillsLeft) = Running \ Ready
    BY DropElements DEF StateOK, QueuesOK, Running, PrefillsLeft
  <2> QED BY <1>2, <2>1 DEF Ready
<1>7. Running \cap now_late = {}
  BY <1>1 DEF RunningExpired, Running, ToSet
<1>8. ListsOK'
  <2>1. /\ ToSet(to_prefill') = {r \in Running : ~Prefilled(r)}'
        /\ ToSet(to_decode') = {r \in Running : Prefilled(r)}'
    BY <1>3, <1>5, <1>6 DEF Ready
  <2> QED BY <1>1, <1>3, <1>7, <2>1 DEF ListsOK, Scheduled
<1>9. CountOK'
  <2>1. Ready = Running => \A r \in Running' : Prefilled(r)'
    BY <1>3, <1>5 DEF Ready
  <2>2. total_tokens' = Load(Running)'
    BY <1>2, <1>5
  <2>3. Ready = Running \/ Load(Running)' <= max_tokens_per_iter - 1 + max_prefill_chunk_size
    BY <1>2, <1>5
  <2> QED BY <1>1, <2>1, <2>2, <2>3 DEF CountOK
<1>10. IterationBudget'
  BY <1>1 DEF IterationOK, IterationBudget, Decodes, BatchTokens
<1> QED BY <1>5, <1>8, <1>9, <1>10 DEF IterationOK

LEMMA AdmitIteration ==
  ASSUME StateOK, BMP!IInv, IterationOK, Admit, NEW x, x = Head(waiting_queue)
  PROVE  IterationOK'
<1>1. /\ worker = "admitting" /\ worker' = "admitting" /\ total_tokens < max_tokens_per_iter
      /\ UNCHANGED <<now_late, batch>>
  BY DEF Admit, MayAdmit, work
<1>2. /\ StateOK'
      /\ x \in Waiting
      /\ Waiting' = Waiting \ {x} /\ Running' = Running \cup {x}
      /\ running_queue' = Append(running_queue, x)
      /\ DOMAIN requests' = DOMAIN requests
      /\ \A q \in DOMAIN requests \ {x} : requests'[q] = requests[q]
      /\ Prefilled(x)' =>
           /\ to_decode' = Append(to_decode, x) /\ to_prefill' = to_prefill
           /\ total_tokens' = total_tokens + 1
      /\ ~Prefilled(x)' =>
           /\ to_prefill' = Append(to_prefill, x) /\ to_decode' = to_decode
           /\ total_tokens' = total_tokens + Chunk(x)'
  BY AdmitStep
<1>3. /\ x \notin Running /\ x \in Running' /\ x \in Req
      /\ \A q \in Running : q # x /\ requests'[q] = requests[q]
  <2>1. x \in Req
    BY <1>2, LenProperties DEF StateOK, QueuesOK, Waiting, ToSet
  <2> QED BY <1>2, <2>1 DEF StateOK, QueuesOK
<1>4. /\ max_prefill_chunk_size \in Nat /\ max_tokens_per_iter \in Nat
      /\ IsFiniteSet(Running)
      /\ \A q \in Running : Share[q] \in 1..max_prefill_chunk_size
      /\ IsFiniteSet(Running')
      /\ \A q \in Running' : Share'[q] \in 1..max_prefill_chunk_size
  BY <1>2, ShareType, ShareTypeNext, EngineAssumption DEF StateOK, SharesOK
<1>5. /\ \A q \in Running : (Prefilled(q)' <=> Prefilled(q)) /\ Share'[q] = Share[q]
      /\ Share'[x] = IF Prefilled(x)' THEN 1 ELSE Chunk(x)'
  BY <1>2, <1>3 DEF Share, Prefilled, Chunk, PromptLen
<1>6. total_tokens = Cardinality(Loads(Running, Share)) /\ total_tokens \in Nat
  BY <1>1 DEF IterationOK, CountOK, Load, StateOK, WorkOK
<1>7. Cardinality(Loads(Running, Share')) = total_tokens
  <2>1. Loads(Running, Share') = Loads(Running, Share)
    BY <1>5 DEF Loads
  <2> QED BY <1>6, <2>1
<1>8. total_tokens' = total_tokens + Share'[x]
  BY <1>2, <1>5
<1>9. Cardinality(Loads(Running', Share')) = total_tokens'
  <2>1. x \in Running' \ Running /\ Running \subseteq Running' /\ Running' = Running \cup {x}
    BY <1>2, <1>3
  <2>2. Cardinality(Loads(Running \cup {x}, Share')) = Cardinality(Loads(Running, Share')) + Share'[x]
    BY <1>4, <2>1, LoadsExtended
  <2> QED BY <1>7, <1>8, <2>1, <2>2
<1>10. CountOK'
  <2>1. total_tokens' <= max_tokens_per_iter - 1 + max_prefill_chunk_size
    <3>1. Share'[x] \in 1..max_prefill_chunk_size
      BY <1>3, <1>4
    <3> QED BY <1>1, <1>4, <1>6, <1>8, <3>1
  <2> QED BY <1>1, <1>9, <2>1 DEF CountOK, Load
<1>11. RoomForAll'
  <2> SUFFICES ASSUME NEW r \in Running', ~Prefilled(r)'
               PROVE  Cardinality(Loads(Before(r)', Share')) < max_tokens_per_iter
    BY DEF RoomForAll, Load
  <2>1. /\ running_queue \in Seq(Req) /\ Len(running_queue) \in Nat
        /\ DOMAIN running_queue = 1..Len(running_queue)
        /\ DOMAIN running_queue' = 1..Len(running_queue) + 1
        /\ \A i \in 1..Len(running_queue) : running_queue'[i] = running_queue[i] /\ running_queue[i] \in Running
        /\ running_queue'[Len(running_queue) + 1] = x
    <3>1. running_queue \in Seq(Req) /\ running_queue' = Append(running_queue, x)
      BY <1>2 DEF StateOK, QueuesOK
    <3> QED BY <1>3, <3>1, AppendProperties, LenProperties DEF Running, ToSet
  <2>2. \A i \in 1..Len(running_queue) + 1 : i \in 1..Len(running_queue) \/ i = Len(running_queue) + 1
    BY <2>1
  <2>3. ASSUME NEW q, Ahead(q, r)'
        PROVE  q \in Running /\ q # r
    <3>1. PICK i \in DOMAIN running_queue', j \in DOMAIN running_queue' :
            i < j /\ running_queue'[i] = q /\ running_queue'[j] = r
      BY <2>3 DEF Ahead
    <3>2. i \in 1..Len(running_queue)
      BY <2>1, <2>2, <3>1
    <3>3. q \in Running
      BY <2>1, <3>1, <3>2
    <3>4. IsInjective(running_queue')
      BY <1>2 DEF StateOK, QueuesOK
    <3>5. q # r
      BY <2>1, <3>1, <3>2, <3>4 DEF IsInjective
    <3> QED BY <3>3, <3>5
  <2>4. Before(r)' \subseteq Running' \ {r}
    BY <1>2, <2>3 DEF Before
  <2>5. CASE r = x
    <3>1. Before(r)' \subseteq Running
      BY <1>2, <2>4, <2>5
    <3>2. /\ \A q \in Before(r)' : Share'[q] \in Nat /\ Share'[q] <= Share[q]
      BY <1>4, <1>5, <3>1
    <3>3. Cardinality(Loads(Before(r)', Share')) <= Cardinality(Loads(Running, Share))
      BY <1>4, <3>1, <3>2, LoadsCompared
    <3>4. Cardinality(Loads(Before(r)', Share')) \in Nat
      BY <1>4, <3>1, <3>2, LoadsCompared
    <3> QED BY <1>1, <1>4, <1>6, <3>3, <3>4
  <2>6. CASE r # x
    <3> DEFINE others == Running \ {r}
               load == Cardinality(Loads(others, Share'))
    <3>1. r \in Running /\ Share'[r] \in 1..max_prefill_chunk_size
      BY <1>2, <1>4, <2>6
    <3>2. load \in Nat /\ total_tokens = load + Share'[r]
      <4>1. /\ r \in Running \ others /\ others \subseteq Running /\ others \cup {r} = Running
            /\ \A q \in Running : Share'[q] \in 1..max_prefill_chunk_size
        BY <1>2, <1>4, <3>1
      <4> HIDE DEF others
      <4>2. load \in Nat /\ Cardinality(Loads(others \cup {r}, Share')) = load + Share'[r]
        BY <1>4, <4>1, LoadsExtended
      <4> QED BY <1>7, <4>1, <4>2
    <3>3. others \subseteq Running' /\ IsFiniteSet(others)
      <4>1. others \subseteq Running /\ others \subseteq Running'
        BY <1>2
      <4> QED BY <1>4, <4>1, FS_Subset
    <3>4. CASE ~Prefilled(x)'
      <4>1. Before(r)' \subseteq others
        <5>1. x \notin Before(r)'
          BY <1>3, <2>3, <3>4 DEF Before
        <5> QED BY <1>2, <2>4, <5>1
      <4>2. /\ \A q \in Before(r)' : Share'[q] \in Nat /\ Share'[q] <= Share'[q]
            /\ \A q \in others : Share'[q] \in 1..max_prefill_chunk_size
        BY <1>4, <2>4, <3>3
      <4> HIDE DEF others
      <4>3. /\ Cardinality(Loads(Before(r)', Share')) \in Nat
            /\ Cardinality(Loads(Before(r)', Share')) <= load
        BY <3>3, <4>1, <4>2, LoadsCompared
      <4> HIDE DEF load
      <4> QED BY <1>1, <1>4, <3>1, <3>2, <4>3
    <3>5. CASE Prefilled(x)'
      <4> DEFINE more == others \cup {x}
      <4>1. /\ x \in Running' \ others /\ Share'[x] = 1
            /\ Before(r)' \subseteq more /\ more \subseteq Running'
        BY <1>2, <1>3, <1>5, <2>4, <3>3, <3>5
      <4> HIDE DEF others
      <4>2. Cardinality(Loads(more, Share')) = load + Share'[x]
        BY <1>4, <3>3, <4>1, LoadsExtended
      <4>3. IsFiniteSet(more)
        BY <1>4, <4>1, FS_Subset
      <4>4. /\ \A q \in Before(r)' : Share'[q] \in Nat /\ Share'[q] <= Share'[q]
            /\ \A q \in more : Share'[q] \in 1..max_prefill_chunk_size
        BY <1>4, <4>1
      <4> HIDE DEF more
      <4>5. /\ Cardinality(Loads(Before(r)', Share')) \in Nat
            /\ Cardinality(Loads(Before(r)', Share')) <= Cardinality(Loads(more, Share'))
        BY <4>1, <4>3, <4>4, LoadsCompared
      <4> HIDE DEF load
      <4> QED BY <1>1, <1>4, <3>1, <3>2, <4>1, <4>2, <4>5
    <3> QED BY <3>4, <3>5
  <2> QED BY <2>5, <2>6
<1>12. ListsOK'
  <2>1. /\ to_prefill \in Seq(Req) /\ to_decode \in Seq(Req)
        /\ IsInjective(to_prefill) /\ IsInjective(to_decode)
        /\ ToSet(to_prefill) = {r \in Running : ~Prefilled(r)}
        /\ ToSet(to_decode) = {r \in Running : Prefilled(r)}
        /\ Running \cap now_late = {} /\ Waiting \cap now_late = {}
    BY <1>1 DEF IterationOK, ListsOK, Scheduled, StateOK, WorkOK
  <2>2. /\ ToSet(Append(to_prefill, x)) = ToSet(to_prefill) \cup {x}
        /\ IsInjective(Append(to_prefill, x))
        /\ ToSet(Append(to_decode, x)) = ToSet(to_decode) \cup {x}
        /\ IsInjective(Append(to_decode, x))
    <3>1. x \notin ToSet(to_prefill) /\ x \notin ToSet(to_decode)
      BY <1>3, <2>1
    <3> QED BY <1>3, <2>1, <3>1, AppendElements
  <2>3. /\ IsInjective(to_prefill') /\ IsInjective(to_decode')
        /\ ToSet(to_prefill') = {r \in Running' : ~Prefilled(r)'}
        /\ ToSet(to_decode') = {r \in Running' : Prefilled(r)'}
    <3>1. ASSUME Prefilled(x)'
          PROVE  /\ IsInjective(to_prefill') /\ IsInjective(to_decode')
                 /\ ToSet(to_prefill') = ToSet(to_prefill) /\ ToSet(to_decode') = ToSet(to_decode) \cup {x}
      BY <1>2, <1>5, <2>1, <2>2, <3>1
    <3>2. ASSUME ~Prefilled(x)'
          PROVE  /\ IsInjective(to_prefill') /\ IsInjective(to_decode')
                 /\ ToSet(to_prefill') = ToSet(to_prefill) \cup {x} /\ ToSet(to_decode') = ToSet(to_decode)
      BY <1>2, <1>5, <2>1, <2>2, <3>2
    <3>3. /\ {r \in Running' : ~Prefilled(r)'}
               = {r \in Running : ~Prefilled(r)} \cup (IF Prefilled(x)' THEN {} ELSE {x})
          /\ {r \in Running' : Prefilled(r)'}
               = {r \in Running : Prefilled(r)} \cup (IF Prefilled(x)' THEN {x} ELSE {})
      BY <1>2, <1>5
    <3> QED BY <2>1, <3>1, <3>2, <3>3
  <2>4. Running' \cap now_late' = {} /\ Waiting' \cap now_late' = {}
    BY <1>1, <1>2, <2>1
  <2> QED BY <1>1, <2>3, <2>4 DEF ListsOK, Scheduled
<1>13. IterationBudget'
  BY <1>1 DEF IterationOK, IterationBudget, Decodes, BatchTokens
<1> QED BY <1>10, <1>11, <1>12, <1>13 DEF IterationOK

\* What ListsOK says of a batch that is being computed.
LEMMA BatchOfRunning ==
  ASSUME StateOK, ListsOK, worker \in {"assembling", "computing"}
  PROVE  /\ Items \in Seq(BatchItem) /\ DOMAIN Items = 1..Len(Items)
         /\ \A i \in DOMAIN Items :
              /\ Items[i].req \in Running
              /\ Items[i].is_prefill <=> ~Prefilled(Items[i].req)
              /\ Items[i] = IF Prefilled(Items[i].req) THEN DecodeItem(Items[i].req)
                                                       ELSE PrefillItem(Items[i].req)
         /\ \A i, j \in DOMAIN Items : Items[i].req = Items[j].req => i = j
         /\ \A r \in Running : \E i \in DOMAIN Items : Items[i].req = r
BY ItemsOfRunning DEF StateOK, WorkOK, ListsOK, Scheduled

Counted == StateOK /\ ListsOK /\ CountOK /\ worker = "computing"

LEMMA BudgetOfItems == Counted => IterationBudget
<1> SUFFICES ASSUME StateOK, ListsOK, CountOK, worker = "computing"
             PROVE  IterationBudget
  BY DEF Counted
<1>1. batch = Items
  BY DEF ListsOK
<1>2. /\ DOMAIN batch = 1..Len(batch)
      /\ \A i \in DOMAIN batch :
           /\ batch[i].req \in Running
           /\ batch[i].is_prefill <=> ~Prefilled(batch[i].req)
           /\ batch[i] = IF Prefilled(batch[i].req) THEN DecodeItem(batch[i].req)
                                                    ELSE PrefillItem(batch[i].req)
      /\ \A i, j \in DOMAIN batch : batch[i].req = batch[j].req => i = j
      /\ \A r \in Running : \E i \in DOMAIN batch : batch[i].req = r
  BY <1>1, BatchOfRunning
<1>3. BatchTokens = Load(Running)
  BY <1>2, BatchLoad DEF StateOK
<1>4. CASE \A r \in Running : Prefilled(r)
  BY <1>2, <1>4 DEF IterationBudget, Decodes
<1>5. CASE Load(Running) <= max_tokens_per_iter - 1 + max_prefill_chunk_size
  BY <1>3, <1>5 DEF IterationBudget
<1> QED BY <1>4, <1>5 DEF CountOK, Scheduled

LEMMA BudgetOfItemsNext == Counted' => IterationBudget'
BY BudgetOfItems, PTL

LEMMA AssembleIteration ==
  ASSUME StateOK, IterationOK, Assemble
  PROVE  IterationOK'
<1>1. /\ worker = "assembling" /\ worker' = "computing" /\ batch' = Items
      /\ UNCHANGED <<queues, iteration>>
  BY DEF Assemble
<1>2. /\ Running' = Running /\ Load(Running)' = Load(Running) /\ RoomForAll'
      /\ \A r \in Running : Prefilled(r)' <=> Prefilled(r)
  BY <1>1, RunningSame DEF StateOK, IterationOK, queues
<1>3. Items' = Items
  <2>1. ToSet(to_prefill) \subseteq Running /\ ToSet(to_decode) \subseteq Running
    BY <1>1 DEF IterationOK, ListsOK, Scheduled
  <2> QED BY <1>1, <2>1, ItemsSame DEF StateOK, queues, iteration
<1>4. CountOK'
  BY <1>1, <1>2 DEF IterationOK, CountOK, Scheduled
<1>5. ListsOK'
  <2>1. /\ {r \in Running : Prefilled(r)}' = {r \in Running : Prefilled(r)}
        /\ {r \in Running : ~Prefilled(r)}' = {r \in Running : ~Prefilled(r)}
    BY <1>2
  <2>2. batch' = Items'
    BY <1>1, <1>3
  <2> HIDE DEF Items
  <2> QED BY <1>1, <1>2, <2>1, <2>2 DEF IterationOK, ListsOK, Scheduled, iteration
<1>6. StateOK'
  BY AssembleStep
<1>7. IterationBudget'
  BY <1>1, <1>4, <1>5, <1>6, BudgetOfItemsNext DEF Counted
<1> QED BY <1>2, <1>4, <1>5, <1>7 DEF IterationOK

\* Everybody takes a whole chunk, or gets to the end of its prompt: who still is not
\* there has a chunk less to go, which is what the count went beyond the budget.
LEMMA ApplyIteration ==
  ASSUME StateOK, IterationOK, Apply
  PROVE  IterationOK'
<1>1. /\ worker = "computing" /\ worker' = "finishing"
      /\ to_prefill' = <<>> /\ to_decode' = <<>> /\ batch' = <<>>
      /\ UNCHANGED running_queue
  BY DEF Apply
<1>2. /\ StateOK' /\ Running' = Running
      /\ DOMAIN requests' = DOMAIN requests
      /\ \A r \in DOMAIN requests :
           /\ requests'[r].prompt_tokens = requests[r].prompt_tokens
           /\ requests'[r].prefill_cursor =
                requests[r].prefill_cursor + (IF r \in ToSet(to_prefill) THEN Chunk(r) ELSE 0)
  BY ApplyStep
<1>3. /\ max_prefill_chunk_size \in Nat \ {0} /\ max_tokens_per_iter \in Nat
      /\ IsFiniteSet(Running)
      /\ \A r \in Running : Share[r] \in 1..max_prefill_chunk_size /\ r \in DOMAIN requests
      /\ \A r \in Running : Share'[r] \in 1..max_prefill_chunk_size
  BY <1>2, ShareType, ShareTypeNext, EngineAssumption DEF StateOK, SharesOK
<1>4. \A r \in Running : r \in ToSet(to_prefill) <=> ~Prefilled(r)
  BY <1>1 DEF IterationOK, ListsOK, Scheduled
<1>5. ASSUME NEW r \in Running
      PROVE  /\ Share'[r] <= Share[r]
             /\ ~Prefilled(r)' => ~Prefilled(r) /\ Share[r] = max_prefill_chunk_size
  <2> DEFINE n == Len(requests[r].prompt_tokens)
             cursor == requests[r].prefill_cursor
  <2>1. /\ n \in Nat /\ cursor \in Nat /\ cursor <= n
        /\ r \in DOMAIN requests
    <3>1. requests[r] \in Request /\ PromptLen(r) \in Nat /\ cursor <= PromptLen(r)
      BY <1>3, ChunkType DEF StateOK, QueuesOK
    <3> QED BY <1>3, <3>1 DEF Request, PromptLen
  <2>2. /\ Prefilled(r) <=> cursor >= n
        /\ Chunk(r) = Least(n - cursor, max_prefill_chunk_size)
    BY DEF Prefilled, Chunk, PromptLen
  <2>3. /\ Share[r] = IF Prefilled(r) THEN 1 ELSE Chunk(r)
        /\ Share'[r] = IF Prefilled(r)' THEN 1 ELSE Chunk(r)'
    BY <1>2 DEF Share
  <2>4. Len(requests'[r].prompt_tokens) = n
    BY <1>2, <2>1
  <2>5. requests'[r].prefill_cursor = cursor + (IF Prefilled(r) THEN 0 ELSE Chunk(r))
    BY <1>2, <1>4, <2>1
  <2> DEFINE after == requests'[r].prefill_cursor
  <2>6. /\ Prefilled(r)' <=> after >= n
        /\ Chunk(r)' = Least(n - after, max_prefill_chunk_size)
    BY <2>4 DEF Prefilled, Chunk, PromptLen
  <2> HIDE DEF n, cursor, after
  <2>7. after = cursor + (IF Prefilled(r) THEN 0 ELSE Chunk(r))
    BY <2>5 DEF after
  <2>8. CASE Prefilled(r)
    BY <2>1, <2>2, <2>3, <2>6, <2>7, <2>8
  <2>9. CASE ~Prefilled(r)
    BY <1>3, <2>1, <2>2, <2>3, <2>6, <2>7, <2>9 DEF Least
  <2> QED BY <2>8, <2>9
<1>6. RoomForAll'
  <2> SUFFICES ASSUME NEW r \in Running, ~Prefilled(r)'
               PROVE  Cardinality(Loads(Before(r)', Share')) < max_tokens_per_iter
    BY <1>2 DEF RoomForAll, Load
  <2> DEFINE others == Running \ {r}
             load == Cardinality(Loads(others, Share))
  <2>1. Before(r)' \subseteq others
    <3>1. \A q : Ahead(q, r)' => q # r
      <4>1. IsInjective(running_queue')
        BY <1>2 DEF StateOK, QueuesOK
      <4>2. running_queue' \in Seq(Req)
        BY <1>2 DEF StateOK, QueuesOK
      <4>3. DOMAIN running_queue' = 1..Len(running_queue') /\ Len(running_queue') \in Nat
        BY <4>2, LenProperties
      <4> QED BY <4>1, <4>3 DEF Ahead, IsInjective
    <3> QED BY <1>2, <3>1 DEF Before
  <2>2. others \subseteq Running /\ r \in Running \ others /\ others \cup {r} = Running
    OBVIOUS
  <2>3. IsFiniteSet(others)
    BY <1>3, <2>2, FS_Subset
  <2>4. /\ \A q \in Before(r)' : Share'[q] \in Nat /\ Share'[q] <= Share[q]
        /\ \A q \in others : Share[q] \in 1..max_prefill_chunk_size
    BY <1>3, <1>5, <2>1
  <2> HIDE DEF others
  <2>5. /\ Cardinality(Loads(Before(r)', Share')) \in Nat
        /\ Cardinality(Loads(Before(r)', Share')) <= load
    BY <2>1, <2>3, <2>4, LoadsCompared
  <2>6. load \in Nat /\ Cardinality(Loads(others \cup {r}, Share)) = load + Share[r]
    BY <1>3, <2>2, LoadsExtended
  <2>7. Load(Running) <= max_tokens_per_iter - 1 + max_prefill_chunk_size
    BY <1>1, <1>5 DEF IterationOK, CountOK, Scheduled
  <2>8. load + Share[r] <= max_tokens_per_iter - 1 + max_prefill_chunk_size
    BY <2>2, <2>6, <2>7 DEF Load
  <2>9. Share[r] = max_prefill_chunk_size
    BY <1>5
  <2> HIDE DEF load
  <2> QED BY <1>3, <2>5, <2>6, <2>8, <2>9
<1>7. IterationBudget'
  BY <1>1 DEF IterationBudget, Decodes
<1> QED BY <1>1, <1>6, <1>7 DEF IterationOK, ListsOK, CountOK, Scheduled

LEMMA SleepIteration ==
  ASSUME StateOK, IterationOK, Sleep
  PROVE  IterationOK'
<1>1. /\ worker = "assembling" /\ worker' = "idle" /\ Items = <<>>
      /\ UNCHANGED <<queues, work, to_prefill, to_decode>>
  BY DEF Sleep
<1>2. /\ ToSet(to_prefill) = {r \in Running : ~Prefilled(r)}
      /\ ToSet(to_decode) = {r \in Running : Prefilled(r)}
  BY <1>1 DEF IterationOK, ListsOK, Scheduled
<1>3. to_prefill = <<>> /\ to_decode = <<>>
  <2>1. ToSet(to_prefill) \subseteq Running /\ ToSet(to_decode) \subseteq Running
    BY <1>2
  <2> QED BY <1>1, <2>1, NoItems DEF StateOK, WorkOK
<1>4. Running = {}
  BY <1>2, <1>3 DEF ToSet
<1>5. Running' = Running
  BY <1>1 DEF queues, Running
<1>6. RoomForAll'
  BY <1>4, <1>5 DEF RoomForAll
<1>7. IterationBudget'
  BY <1>1 DEF work, IterationOK, IterationBudget, Decodes, BatchTokens
<1> QED BY <1>1, <1>3, <1>4, <1>5, <1>6, <1>7 DEF IterationOK, ListsOK, CountOK, Scheduled

LEMMA IterationStep ==
  ASSUME StateOK, BMP!IInv, IterationOK, [Next]_vars
  PROVE  IterationOK'
<1>1. ASSUME NEW r \in Req, AddRequest(r)
      PROVE  IterationOK'
  <2>1. \A q \in Running : requests'[q] = requests[q]
    <3>1. \A q \in DOMAIN requests : requests'[q] = requests[q]
      BY <1>1, AddRequestStep DEF AddRequest
    <3> QED BY <3>1 DEF StateOK, QueuesOK
  <2> QED BY <1>1, <2>1, IterationFrame DEF AddRequest, Locked, iteration, work
<1>2. CASE ExpireRunning
  <2>1. StateOK' /\ \E r \in Running \cap now_late :
                       /\ Running' = Running \ {r}
                       /\ running_queue' = Drop(running_queue, {r})
                       /\ DOMAIN requests' = DOMAIN requests \ {r}
                       /\ \A q \in DOMAIN requests' : requests'[q] = requests[q]
    BY <1>2, ExpireRunningStep
  <2> QED BY <1>2, <2>1, RemovalIteration
<1>3. CASE ListRunning
  BY <1>3, ListRunningIteration
<1>4. CASE Admit
  BY <1>4, AdmitIteration
<1>5. CASE AdmitRefused
  <2>1. worker = "admitting" /\ worker' = "assembling" /\ UNCHANGED <<queues, iteration, work>>
    BY <1>5 DEF AdmitRefused, MayAdmit
  <2> QED BY <2>1, IterationFrame DEF queues, iteration, work
<1>6. CASE Assemble
  BY <1>6, AssembleIteration
<1>7. CASE Forward
  BY <1>7, IterationFrame DEF Forward, AtItem, queues, iteration
<1>8. CASE Apply
  BY <1>8, ApplyIteration
<1>9. CASE Finish
  BY <1>9, FinishStep, RemovalIteration
<1>10. CASE Quiet
  <2>1. UNCHANGED queues
    BY <1>10, QuietStep
  <2>2. CASE Sleep
    BY <2>2, SleepIteration
  <2>3. CASE AdmitEnd
    BY <2>1, <2>3, IterationFrame DEF AdmitEnd, queues, iteration, work
  <2>4. CASE StartSchedule \/ Wait \/ Wake \/ EndIteration
    <3>1. worker \in {"idle", "asleep"} => Running = {}
      BY DEF IterationOK, ListsOK
    <3> QED BY <2>1, <2>4, <3>1, IterationFrame
          DEF StartSchedule, Wait, Wake, EndIteration, queues, iteration, work
  <2>5. CASE ServerEnds \/ ForwardPanics \/ ForwardFails
    BY <2>1, <2>5, IterationFrame DEF ServerEnds, ForwardPanics, ForwardFails, queues, iteration, work
  <2>6. CASE \/ ShutdownSignal \/ UNCHANGED vars
             \/ \E r \in Req : Handler(r) \/ DeadlinePasses(r)
    BY <2>1, <2>6, IterationFrame DEF ShutdownSignal, Handler, NotifyOne, Respond, DeadlinePasses,
       vars, queues, iteration, work
  <2> QED BY <1>10, <2>2, <2>3, <2>4, <2>5, <2>6 DEF Quiet
<1> QED BY <1>1, <1>2, <1>3, <1>4, <1>5, <1>6, <1>7, <1>8, <1>9, <1>10, Steps

THEOREM IterationInvariant == Spec => []IterationOK
<1>1. Init => IterationOK
  <2> SUFFICES ASSUME Init
               PROVE  IterationOK
    OBVIOUS
  <2>1. Running = {}
    BY DEF Init, Running, ToSet
  <2> QED BY <2>1 DEF Init, IterationOK, ListsOK, RoomForAll, CountOK, Scheduled,
                      IterationBudget, Decodes
<1>2. StateOK /\ BMP!IInv /\ IterationOK /\ [Next]_vars => IterationOK'
  BY IterationStep
<1> QED BY <1>1, <1>2, StateInvariant, PTL DEF Spec

-----------------------------------------------------------------------------
(* What follows                                                            *)

\* The results of a batch find the requests as the schedule left them: nobody removes
\* or advances one in between, none is there twice, and none had expired.
THEOREM ResultsFindTheirRequests == Spec => []BatchIsCurrent
<1>1. StateOK /\ IterationOK => BatchIsCurrent
  <2> SUFFICES ASSUME StateOK, ListsOK, worker = "computing", NEW i \in DOMAIN batch
               PROVE  /\ batch[i].req \in Running \ now_late
                      /\ batch[i].is_prefill <=> ~Prefilled(batch[i].req)
                      /\ batch[i].is_prefill => batch[i].input = Chunk(batch[i].req)
                      /\ \A j \in DOMAIN batch : batch[i].req = batch[j].req => i = j
    BY DEF IterationOK, BatchIsCurrent
  <2>1. batch = Items
    BY DEF ListsOK
  <2>2. /\ batch[i].req \in Running
        /\ batch[i].is_prefill <=> ~Prefilled(batch[i].req)
        /\ batch[i] = IF Prefilled(batch[i].req) THEN DecodeItem(batch[i].req)
                                                 ELSE PrefillItem(batch[i].req)
        /\ \A j \in DOMAIN batch : batch[i].req = batch[j].req => i = j
    BY <2>1, BatchOfRunning
  <2>3. PrefillItem(batch[i].req).input = Chunk(batch[i].req)
    BY DEF PrefillItem
  <2>4. batch[i].req \notin now_late
    BY DEF StateOK, WorkOK, ListsOK, Scheduled, Batched
  <2> QED BY <2>2, <2>3, <2>4
<1> QED BY <1>1, StateInvariant, IterationInvariant, PTL

\* The tokens of a batch with a prefill in it pass the budget by less than a chunk.
THEOREM BudgetKept == Spec => []IterationBudget
<1>1. IterationOK => IterationBudget
  BY DEF IterationOK
<1> QED BY <1>1, IterationInvariant, PTL

\* Every iteration serves everybody who is running, whatever the lengths of the
\* prompts, the budget and the chunk are: nobody who has been admitted waits a turn.
THEOREM NobodyWaitsATurn == Spec => []EveryRunningServed
<1>1. StateOK /\ IterationOK => EveryRunningServed
  <2> SUFFICES ASSUME StateOK, ListsOK
               PROVE  EveryRunningServed
    BY DEF IterationOK
  <2>1. ASSUME worker = "computing"
        PROVE  Batched = Running
    <3>1. batch = Items
      BY <2>1 DEF ListsOK
    <3>2. /\ \A i \in DOMAIN batch : batch[i].req \in Running
          /\ \A r \in Running : \E i \in DOMAIN batch : batch[i].req = r
      BY <2>1, <3>1, BatchOfRunning
    <3> QED BY <3>2 DEF Batched
  <2> QED BY <2>1 DEF ListsOK, EveryRunningServed
<1> QED BY <1>1, StateInvariant, IterationInvariant, PTL
=============================================================================
