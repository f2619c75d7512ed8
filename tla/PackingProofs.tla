---------------------------- MODULE PackingProofs ----------------------------
(***************************************************************************)
(* What the functions of the model code compute for calls of every size:   *)
(* the division of layers and dimensions among ranks, the packing of       *)
(* four-bit weights, the rounding of quantized ones, the layers of int4 and *)
(* AWQ files.  Other functions are the matter of ModelCodeProofs.          *)
(***************************************************************************)
EXTENDS MCModelCode, FiniteSetTheorems, SequenceTheorems, WellFoundedInduction, TLAPS

-----------------------------------------------------------------------------
(* Division                                                                *)

\* Quotient and remainder.
LEMMA Division ==
  ASSUME NEW a \in Int, NEW b \in Nat \ {0}
  PROVE  /\ a \div b \in Int /\ a % b \in 0..b - 1
         /\ a = b * (a \div b) + (a % b)
OBVIOUS

\* Multiples of k are ordered as their factors are.
LEMMA Multiples ==
  ASSUME NEW a \in Int, NEW b \in Int, NEW k \in Nat, a <= b
  PROVE  /\ a * k \in Int /\ b * k \in Int
         /\ a * k <= b * k
         /\ (a + 1) * k = a * k + k
OBVIOUS

\* A number lies in one interval [r * k, r * k + k) only, that of its quotient.
LEMMA OneInterval ==
  ASSUME NEW x \in Int, NEW k \in Nat \ {0}, NEW r \in Int
  PROVE  /\ x \div k \in Int
         /\ x \in Nat => x \div k \in Nat
         /\ (r * k <= x /\ x < r * k + k) <=> r = x \div k
<1> DEFINE q == x \div k
<1>1. q \in Int /\ q * k <= x /\ x < q * k + k
  BY Division
<1>2. ASSUME x \in Nat PROVE q \in Nat
  <2>1. SUFFICES ASSUME q + 1 <= 0 PROVE FALSE
    BY <1>1
  <2>2. (q + 1) * k <= 0 * k /\ (q + 1) * k = q * k + k
    BY <2>1, <1>1, Multiples
  <2> QED BY <2>2, <1>1, <1>2
<1>3. ASSUME r * k <= x, x < r * k + k PROVE r = q
  <2>1. CASE r + 1 <= q
    <3>1. (r + 1) * k <= q * k /\ (r + 1) * k = r * k + k
      BY <2>1, <1>1, Multiples
    <3> QED BY <3>1, <1>1, <1>3
  <2>2. CASE q + 1 <= r
    <3>1. (q + 1) * k <= r * k /\ (q + 1) * k = q * k + k
      BY <2>2, <1>1, Multiples
    <3> QED BY <3>1, <1>1, <1>3
  <2> QED BY <2>1, <2>2, <1>1
<1> QED BY <1>1, <1>2, <1>3

\* The division of what was multiplied.
LEMMA QuotientRemainder ==
  ASSUME NEW L \in Nat \ {0}, NEW q \in Nat, NEW j \in 0..L - 1
  PROVE  /\ q * L \in Nat /\ q * L + j \in Nat
         /\ (q * L + j) \div L = q /\ (q * L + j) % L = j
<1>1. q * L \in Int /\ 0 * L <= q * L
  BY Multiples
<1> DEFINE x == q * L + j
<1>2. x \in Nat /\ q * L <= x /\ x < q * L + L
  BY <1>1
<1> HIDE DEF x
<1>3. q = x \div L
  BY <1>2, OneInterval
<1>4. x % L \in 0..L - 1 /\ x = L * q + (x % L)
  BY <1>2, <1>3, Division
<1>5. L * q = q * L
  OBVIOUS
<1> QED BY <1>1, <1>2, <1>3, <1>4, <1>5 DEF x

-----------------------------------------------------------------------------
(* Layers and shards                                                       *)

\* PipelineContext::new: whatever the number of ranks and of layers, every
\* layer is run by exactly one stage.
THEOREM StagesPartition ==
  ASSUME NEW world_size \in Nat \ {0}, NEW total_layers \in Nat
  PROVE  LayersPartitioned(world_size, total_layers)
<1> DEFINE k == LayersPerGpu(world_size, total_layers)
<1> SUFFICES ASSUME NEW index \in 0..total_layers - 1
             PROVE  \E rank \in 0..world_size - 1 :
                      \A r \in 0..world_size - 1 :
                        ShouldProcessLayer(Stage(r, world_size, total_layers), index) <=> r = rank
  BY DEF LayersPartitioned
<1>1. k \in Int /\ total_layers <= world_size * k
  BY Division DEF LayersPerGpu
<1>2. k \in Nat \ {0}
  <2>1. SUFFICES ASSUME k <= 0 PROVE FALSE
    BY <1>1
  <2>2. k * world_size <= 0 * world_size
    BY <2>1, <1>1, Multiples
  <2> QED BY <2>2, <1>1
<1> DEFINE rank == index \div k
<1>3. rank \in Nat /\ rank * k <= index
  BY <1>2, OneInterval
<1>4. rank < world_size
  <2>1. SUFFICES ASSUME world_size <= rank PROVE FALSE
    BY <1>3
  <2>2. world_size * k <= rank * k
    BY <2>1, <1>2, <1>3, Multiples
  <2> QED BY <2>2, <1>1, <1>3
<1>5. ASSUME NEW r \in 0..world_size - 1
      PROVE  ShouldProcessLayer(Stage(r, world_size, total_layers), index) <=> r = rank
  <2> HIDE DEF k
  <2>1. r * k \in Int
    BY <1>2
  <2>2. ShouldProcessLayer(Stage(r, world_size, total_layers), index)
          <=> r * k <= index /\ index < r * k + k
    BY <2>1, <1>2 DEF ShouldProcessLayer, Stage, k
  <2> QED BY <2>2, <1>2, OneInterval
<1>6. rank \in 0..world_size - 1
  BY <1>3, <1>4
<1> HIDE DEF rank
<1> QED BY <1>5, <1>6

\* shard_dim: the shards are disjoint and cover the dimension but for the
\* remainder of the division, the last dim_size % world_size indices.
THEOREM ShardsCoverMultiple ==
  ASSUME NEW world_size \in Nat \ {0}, NEW dim_size \in Nat
  PROVE  ShardsTile(world_size, dim_size)
<1> DEFINE k == ShardSize(world_size, dim_size)
           kept == UNION {Shard(r, world_size, dim_size) : r \in 0..world_size - 1}
           all == world_size * k
<1>1. k \in Nat /\ all \in Nat /\ all = dim_size - (dim_size % world_size)
  <2>1. k \in Nat
    BY OneInterval DEF ShardSize
  <2>2. 0 * world_size <= k * world_size /\ k * world_size \in Int
    BY <2>1, Multiples
  <2>3. dim_size = world_size * k + (dim_size % world_size)
    BY Division DEF ShardSize
  <2>4. dim_size % world_size \in Int
    BY Division
  <2> HIDE DEF k
  <2>5. all = k * world_size
    BY <2>1
  <2> QED BY <2>1, <2>2, <2>3, <2>4, <2>5
<1>2. \A r \in Int : Shard(r, world_size, dim_size) = r * k .. r * k + k - 1
  BY DEF Shard
<1> HIDE DEF k
<1>3. ASSUME NEW r \in 0..world_size - 1, NEW x \in Shard(r, world_size, dim_size)
      PROVE  /\ x \in 0..all - 1 /\ k # 0
             /\ r = x \div k
  <2>1. r \in Int /\ r * k \in Int /\ x \in Int /\ r * k <= x /\ x < r * k + k
    <3> DEFINE lo == r * k
    <3>1. lo \in Int
      BY <1>1
    <3>2. Shard(r, world_size, dim_size) = lo .. lo + k - 1
      BY <1>2
    <3> HIDE DEF lo
    <3>3. x \in Int /\ lo <= x /\ x < lo + k
      BY <3>1, <3>2, <1>1
    <3> QED BY <3>1, <3>3 DEF lo
  <2>2. 0 * k <= r * k
    BY <1>1, Multiples
  <2>3. (r + 1) * k <= world_size * k /\ (r + 1) * k = r * k + k
    BY <1>1, Multiples
  <2>4. x \in 0..all - 1 /\ k # 0
    <3>1. world_size * k \in Int
      BY <1>1
    <3> QED BY <3>1, <2>1, <2>2, <2>3, <1>1
  <2>5. x \in Nat /\ k \in Nat \ {0}
    <3> HIDE DEF all
    <3> QED BY <2>4, <1>1
  <2>6. (r * k <= x /\ x < r * k + k) <=> r = x \div k
    BY <2>1, <2>5, OneInterval
  <2>7. r = x \div k
    BY <2>1, <2>6
  <2> QED BY <2>4, <2>7
<1>4. ASSUME NEW x \in 0..all - 1
      PROVE  \E r \in 0..world_size - 1 : x \in Shard(r, world_size, dim_size)
  <2> DEFINE r == x \div k
  <2>1. k # 0
    BY <1>1
  <2>2. r \in Nat /\ r * k <= x /\ x < r * k + k
    BY <2>1, <1>1, OneInterval
  <2> HIDE DEF r
  <2>3. r * k \in Int
    BY <2>2, <1>1
  <2>4. r < world_size
    <3>1. SUFFICES ASSUME world_size <= r PROVE FALSE
      BY <2>2
    <3>2. world_size * k <= r * k
      BY <3>1, <2>2, <1>1, Multiples
    <3> QED BY <3>2, <2>2, <2>3, <1>1
  <2>5. x \in Shard(r, world_size, dim_size)
    <3> DEFINE lo == r * k
    <3>1. Shard(r, world_size, dim_size) = lo .. lo + k - 1
      BY <2>2, <1>2
    <3>2. lo \in Int /\ lo <= x /\ x < lo + k
      BY <2>2, <2>3
    <3> HIDE DEF lo
    <3> QED BY <3>1, <3>2, <1>1
  <2> QED BY <2>2, <2>4, <2>5
<1> HIDE DEF all
<1>5. kept = 0..all - 1
  BY <1>3, <1>4
<1>6. ASSUME NEW r \in 0..world_size - 1, NEW q \in 0..world_size - 1, r # q
      PROVE  Shard(r, world_size, dim_size) \cap Shard(q, world_size, dim_size) = {}
  BY <1>3, <1>6
<1> QED BY <1>1, <1>5, <1>6 DEF ShardsTile

-----------------------------------------------------------------------------
(* Packing                                                                 *)

\* Bytes hold their nibbles.
LEMMA Nibbles ==
  ASSUME NEW lo \in 0..15, NEW hi \in 0..15
  PROVE  LowNibble(lo + 16 * hi) = lo /\ HighNibble(lo + 16 * hi) = hi
BY DEF LowNibble, HighNibble

\* The k-th nibble of packed values is the k-th value.
LEMMA NibbleAt ==
  ASSUME NEW values \in Seq(0..15), NEW k \in 1..Len(values)
  PROVE  (IF k % 2 = 1 THEN LowNibble(PackI4(values)[(k + 1) \div 2])
                       ELSE HighNibble(PackI4(values)[k \div 2])) = values[k]
<1> DEFINE n == Len(values)
           packed == PackI4(values)
           bytes == DivCeil(n, 2)
<1>1. n \in Nat /\ bytes \in Nat /\ n <= 2 * bytes /\ 2 * bytes <= n + 1
  BY DEF DivCeil
<1>2. Len(packed) = bytes
  BY <1>1 DEF PackI4
<1>3. \A j \in 1..n : values[j] \in 0..15 /\ values[j] % 16 = values[j]
  <2> SUFFICES ASSUME NEW j \in 1..n PROVE values[j] \in 0..15 /\ values[j] % 16 = values[j]
    OBVIOUS
  <2>1. values[j] \in 0..15
    OBVIOUS
  <2> QED BY <2>1
<1>4. CASE k % 2 = 1
  <2> DEFINE i == (k + 1) \div 2
  <2>1. i \in 1..bytes /\ 2 * i - 1 = k
    BY <1>4, <1>1
  <2>2. packed[i] = (IF 2 * i <= n THEN (values[k] % 16) + 16 * (values[2 * i] % 16)
                                   ELSE values[k] % 16)
    BY <2>1 DEF PackI4
  <2>3. values[k] \in 0..15 /\ values[k] % 16 = values[k]
    BY <1>3
  <2>4. CASE 2 * i <= n
    <3>1. values[2 * i] \in 0..15 /\ values[2 * i] % 16 = values[2 * i]
      BY <2>4, <2>1, <1>3
    <3>2. packed[i] = values[k] + 16 * values[2 * i]
      BY <3>1, <2>2, <2>3, <2>4
    <3>3. LowNibble(packed[i]) = values[k]
      BY <3>1, <3>2, <2>3, Nibbles
    <3> QED BY <3>3, <1>4
  <2>5. CASE ~(2 * i <= n)
    <3>1. LowNibble(values[k]) = values[k]
      BY <2>3 DEF LowNibble
    <3> QED BY <3>1, <2>2, <2>3, <2>5, <1>4
  <2> QED BY <2>4, <2>5
<1>5. CASE k % 2 # 1
  <2> DEFINE i == k \div 2
  <2>1. i \in 1..bytes /\ 2 * i = k /\ 2 * i - 1 \in 1..n /\ 2 * i <= n
    BY <1>5, <1>1
  <2>2. packed[i] = (values[2 * i - 1] % 16) + 16 * (values[k] % 16)
    BY <2>1 DEF PackI4
  <2>3. /\ values[k] \in 0..15 /\ values[k] % 16 = values[k]
        /\ values[2 * i - 1] \in 0..15 /\ values[2 * i - 1] % 16 = values[2 * i - 1]
    BY <2>1, <1>3
  <2>4. HighNibble(packed[i]) = values[k]
    <3>1. packed[i] = values[2 * i - 1] + 16 * values[k]
      BY <2>2, <2>3
    <3> QED BY <3>1, <2>3, Nibbles
  <2> QED BY <2>4, <1>5
<1> QED BY <1>4, <1>5

\* unpack_i4, asked for as many values or more, returns first what pack_i4 was given.
LEMMA UnpackedAt ==
  ASSUME NEW values \in Seq(0..15), NEW m \in Nat, Len(values) <= m, NEW k \in 1..Len(values)
  PROVE  UnpackI4(PackI4(values), m)[k] = values[k]
<1>1. Len(values) \in Nat /\ Len(PackI4(values)) = DivCeil(Len(values), 2)
  BY DEF PackI4, DivCeil
<1>2. k \in 1..(IF m <= 2 * Len(PackI4(values)) THEN m ELSE 2 * Len(PackI4(values)))
  BY <1>1 DEF DivCeil
<1> QED BY <1>2, NibbleAt DEF UnpackI4

\* unpack_i4 returns what pack_i4 was given: four-bit values, any number of them.
THEOREM PackUnpack ==
  ASSUME NEW values \in Seq(0..15)
  PROVE  UnpackI4(PackI4(values), Len(values)) = values
<1> DEFINE n == Len(values)
<1>1. n \in Nat /\ Len(PackI4(values)) = DivCeil(n, 2) /\ n <= 2 * DivCeil(n, 2)
  BY DEF PackI4, DivCeil
<1>2. DOMAIN UnpackI4(PackI4(values), n) = 1..n
  BY <1>1 DEF UnpackI4
<1>3. \A k \in 1..n : UnpackI4(PackI4(values), n)[k] = values[k]
  BY UnpackedAt
<1>4. UnpackI4(PackI4(values), n) = [k \in 1..n |-> UnpackI4(PackI4(values), n)[k]]
  BY <1>2 DEF UnpackI4
<1> QED BY <1>3, <1>4

-----------------------------------------------------------------------------
(* AWQ words                                                               *)

\* A digit of a number to base 16 is what division and remainder find.
LEMMA Digit ==
  ASSUME NEW k \in Nat \ {0}, NEW low \in 0..k - 1, NEW d \in 0..15, NEW high \in Int,
         NEW word \in Int, word = low + k * (d + 16 * high)
  PROVE  (word \div k) % 16 = d
<1> DEFINE r == d + 16 * high
<1>1. r \in Int /\ r % 16 = d
  OBVIOUS
<1>2. r * k = k * r /\ r * k \in Int
  BY <1>1
<1>3. r * k <= word /\ word < r * k + k
  BY <1>2
<1> HIDE DEF r
<1>4. r = word \div k
  BY <1>1, <1>3, OneInterval
<1> QED BY <1>1, <1>4

\* The digits below the next one.
LEMMA NextDigit ==
  ASSUME NEW k \in Nat \ {0}, NEW low \in 0..k - 1, NEW d \in 0..15, NEW high \in Int
  PROVE  /\ low + k * d \in 0..16 * k - 1
         /\ low + k * (d + 16 * high) = (low + k * d) + 16 * k * high
<1>1. d * k \in Int /\ 0 * k <= d * k /\ d * k <= 15 * k /\ d * k = k * d
  BY Multiples
<1>2. k * (d + 16 * high) = k * d + 16 * k * high
  OBVIOUS
<1> QED BY <1>1, <1>2

\* unpack_i32_word returns the nibbles a word was made of, the top one included,
\* which holds the word's sign.
THEOREM WordUnpack ==
  ASSUME NEW v \in [0..7 -> 0..15], NEW n \in 0..7
  PROVE  WordNibble(AwqWord(v), n) = v[n]
<1> DEFINE word == AwqWord(v)
           At(i, low, high) ==
             /\ low \in 0..Place[i] - 1 /\ high \in Int
             /\ word = low + Place[i] * (v[i] + 16 * high)
           Reached(i, high) == \E low : At(i, low, high)
<1>1. \A i \in 0..7 : v[i] \in 0..15 /\ Place[i] \in Nat \ {0}
  BY DEF Place
<1>2. ASSUME NEW i \in 0..6, NEW j \in 1..7, j = i + 1,
             NEW high \in Int, NEW higher \in Int, high = v[j] + 16 * higher,
             Reached(i, high)
      PROVE  Reached(j, higher)
  <2>1. PICK low : At(i, low, high)
    BY <1>2
  <2>2. Place[j] = 16 * Place[i]
    BY <1>2 DEF Place
  <2>3. /\ low + Place[i] * v[i] \in 0..16 * Place[i] - 1
        /\ word = (low + Place[i] * v[i]) + 16 * Place[i] * high
    BY <1>1, <2>1, NextDigit
  <2>4. At(j, low + Place[i] * v[i], higher)
    BY <1>2, <2>2, <2>3
  <2> QED BY <2>4
<1>3. ASSUME NEW i \in 0..7, NEW low, NEW high, At(i, low, high)
      PROVE  WordNibble(word, i) = v[i]
  <2> DEFINE k == Place[i]
             d == v[i]
  <2>1. d \in 0..15 /\ k \in Nat \ {0}
    BY <1>1
  <2>2. low \in 0..k - 1 /\ high \in Int /\ word = low + k * (d + 16 * high)
    BY <1>3
  <2> HIDE DEF word, k, d
  <2>3. word \in Int
    BY <2>1, <2>2
  <2>4. (word \div k) % 16 = d
    BY <2>1, <2>2, <2>3, Digit
  <2> QED BY <2>4 DEF WordNibble, k, d
<1> DEFINE t7 == IF v[7] < 8 THEN 0 ELSE -1
           t6 == v[7] + 16 * t7
           t5 == v[6] + 16 * t6
           t4 == v[5] + 16 * t5
           t3 == v[4] + 16 * t4
           t2 == v[3] + 16 * t3
           t1 == v[2] + 16 * t2
           t0 == v[1] + 16 * t1
<1>4. t6 = (IF v[7] < 8 THEN v[7] ELSE v[7] - 16) /\ t6 \in Int /\ t7 \in Int
  BY <1>1
<1>5. word = v[0] + 16 * t0
  BY <1>4 DEF AwqWord
<1> HIDE DEF word, t7, t6, t5, t4, t3, t2, t1, t0
<1>6. /\ t5 \in Int /\ t4 \in Int /\ t3 \in Int /\ t2 \in Int /\ t1 \in Int /\ t0 \in Int
  <2>1. t5 \in Int
    BY <1>1, <1>4 DEF t5
  <2>2. t4 \in Int
    BY <1>1, <2>1 DEF t4
  <2>3. t3 \in Int
    BY <1>1, <2>2 DEF t3
  <2>4. t2 \in Int
    BY <1>1, <2>3 DEF t2
  <2>5. t1 \in Int
    BY <1>1, <2>4 DEF t1
  <2>6. t0 \in Int
    BY <1>1, <2>5 DEF t0
  <2> QED BY <2>1, <2>2, <2>3, <2>4, <2>5, <2>6
<1>7. Reached(0, t0)
  <2>1. Place[0] = 1 /\ v[0] \in 0..15
    BY <1>1 DEF Place
  <2>2. At(0, 0, t0)
    BY <2>1, <1>5, <1>6
  <2> QED BY <2>2
<1> HIDE DEF At, Reached
<1>8. Reached(1, t1)
  <2>1. 0 \in 0..6 /\ 1 \in 1..7 /\ 1 = 0 + 1
    OBVIOUS
  <2>2. t0 = v[1] + 16 * t1
    BY DEF t0
  <2>3. t0 \in Int /\ t1 \in Int
    BY <1>4, <1>6
  <2> QED BY <2>1, <2>2, <2>3, <1>7, <1>2
<1>9. Reached(2, t2)
  <2>1. 1 \in 0..6 /\ 2 \in 1..7 /\ 2 = 1 + 1
    OBVIOUS
  <2>2. t1 = v[2] + 16 * t2
    BY DEF t1
  <2>3. t1 \in Int /\ t2 \in Int
    BY <1>4, <1>6
  <2> QED BY <2>1, <2>2, <2>3, <1>8, <1>2
<1>10. Reached(3, t3)
  <2>1. 2 \in 0..6 /\ 3 \in 1..7 /\ 3 = 2 + 1
    OBVIOUS
  <2>2. t2 = v[3] + 16 * t3
    BY DEF t2
  <2>3. t2 \in Int /\ t3 \in Int
    BY <1>4, <1>6
  <2> QED BY <2>1, <2>2, <2>3, <1>9, <1>2
<1>11. Reached(4, t4)
  <2>1. 3 \in 0..6 /\ 4 \in 1..7 /\ 4 = 3 + 1
    OBVIOUS
  <2>2. t3 = v[4] + 16 * t4
    BY DEF t3
  <2>3. t3 \in Int /\ t4 \in Int
    BY <1>4, <1>6
  <2> QED BY <2>1, <2>2, <2>3, <1>10, <1>2
<1>12. Reached(5, t5)
  <2>1. 4 \in 0..6 /\ 5 \in 1..7 /\ 5 = 4 + 1
    OBVIOUS
  <2>2. t4 = v[5] + 16 * t5
    BY DEF t4
  <2>3. t4 \in Int /\ t5 \in Int
    BY <1>4, <1>6
  <2> QED BY <2>1, <2>2, <2>3, <1>11, <1>2
<1>13. Reached(6, t6)
  <2>1. 5 \in 0..6 /\ 6 \in 1..7 /\ 6 = 5 + 1
    OBVIOUS
  <2>2. t5 = v[6] + 16 * t6
    BY DEF t5
  <2>3. t5 \in Int /\ t6 \in Int
    BY <1>4, <1>6
  <2> QED BY <2>1, <2>2, <2>3, <1>12, <1>2
<1>14. Reached(7, t7)
  <2>1. 6 \in 0..6 /\ 7 \in 1..7 /\ 7 = 6 + 1
    OBVIOUS
  <2>2. t6 = v[7] + 16 * t7
    BY DEF t6
  <2>3. t6 \in Int /\ t7 \in Int
    BY <1>4, <1>6
  <2> QED BY <2>1, <2>2, <2>3, <1>13, <1>2
<1>15. \E low, high : At(n, low, high)
  BY <1>7, <1>8, <1>9, <1>10, <1>11, <1>12, <1>13, <1>14 DEF Reached
<1> QED BY <1>15, <1>3 DEF word

-----------------------------------------------------------------------------
(* Least and greatest numbers                                              *)

\* In a finite set nothing goes down for ever: of the elements below an element of a
\* strict order, the fewest are below a minimal one.
LEMMA MinimalExists ==
  ASSUME NEW S, IsFiniteSet(S), S # {}, NEW R,
         \A x \in S : <<x, x>> \notin R,
         \A x, y, z \in S : <<x, y>> \in R /\ <<y, z>> \in R => <<x, z>> \in R
  PROVE  \E x \in S : \A y \in S : <<y, x>> \notin R
<1> DEFINE Below(x) == {y \in S : <<y, x>> \in R}
           all == {Below(x) : x \in S}
<1>1. \E least \in all : \A a \in all : <<a, least>> \notin StrictSubsetOrdering(S)
  <2>1. IsWellFoundedOn(StrictSubsetOrdering(S), SUBSET S)
    BY FS_StrictSubsetOrderingWellFounded, FS_FiniteSubsetsOfFinite
  <2>2. all \subseteq SUBSET S /\ all # {}
    <3>1. \A x : Below(x) \in SUBSET S
      OBVIOUS
    <3>2. PICK x \in S : TRUE
      OBVIOUS
    <3>3. Below(x) \in all
      OBVIOUS
    <3> HIDE DEF Below
    <3> QED BY <3>1, <3>3
  <2> HIDE DEF all
  <2> QED BY <2>1, <2>2, WFMin
<1>2. PICK x \in S : \A y \in S : <<Below(y), Below(x)>> \notin StrictSubsetOrdering(S)
  <2> HIDE DEF Below
  <2> QED BY <1>1
<1>3. ASSUME NEW y \in S, <<y, x>> \in R
      PROVE  FALSE
  <2>1. Below(y) \subseteq Below(x) /\ y \in Below(x) /\ y \notin Below(y)
    BY <1>3
  <2>2. Below(y) # Below(x) /\ Below(y) \in SUBSET S /\ Below(x) \in SUBSET S
    BY <2>1
  <2> HIDE DEF Below
  <2> QED BY <1>2, <2>1, <2>2 DEF StrictSubsetOrdering
<1> QED BY <1>3

\* A finite set of integers has a least and a greatest one.
LEMMA LeastAndGreatest ==
  ASSUME NEW S \in SUBSET Int, IsFiniteSet(S), S # {}
  PROVE  /\ \E x \in S : \A y \in S : x <= y
         /\ \E x \in S : \A y \in S : x >= y
<1> DEFINE Less == {p \in S \X S : p[1] < p[2]}
           More == {p \in S \X S : p[1] > p[2]}
<1>1. ASSUME NEW x \in S, NEW y \in S
      PROVE  /\ x \in Int /\ y \in Int
             /\ <<x, y>> \in Less <=> x < y
             /\ <<x, y>> \in More <=> x > y
  OBVIOUS
<1> HIDE DEF Less, More
<1>2. PICK low \in S : \A y \in S : <<y, low>> \notin Less
  <2>1. \A x \in S : <<x, x>> \notin Less
    BY <1>1
  <2>2. \A x, y, z \in S : <<x, y>> \in Less /\ <<y, z>> \in Less => <<x, z>> \in Less
    BY <1>1
  <2> QED BY <2>1, <2>2, MinimalExists
<1>3. PICK high \in S : \A y \in S : <<y, high>> \notin More
  <2>1. \A x \in S : <<x, x>> \notin More
    BY <1>1
  <2>2. \A x, y, z \in S : <<x, y>> \in More /\ <<y, z>> \in More => <<x, z>> \in More
    BY <1>1
  <2> QED BY <2>1, <2>2, MinimalExists
<1>4. ASSUME NEW y \in S PROVE low <= y /\ high >= y
  <2>1. y \in Int /\ low \in Int /\ high \in Int /\ ~(y < low) /\ ~(y > high)
    BY <1>1, <1>2, <1>3
  <2> QED BY <2>1
<1> QED BY <1>4

\* The least and the greatest of a finite set, as the scales take them.
LEMMA MinMax ==
  ASSUME NEW S \in SUBSET Int, IsFiniteSet(S), S # {}
  PROVE  /\ Scale!Min(S) \in S /\ \A x \in S : Scale!Min(S) <= x
         /\ Scale!Max(S) \in S /\ \A x \in S : x <= Scale!Max(S)
<1>1. PICK low \in S : \A x \in S : low <= x
  BY LeastAndGreatest
<1>2. PICK high \in S : \A x \in S : high >= x
  BY LeastAndGreatest
<1>3. Scale!Min(S) \in S /\ \A x \in S : Scale!Min(S) <= x
  BY <1>1 DEF Scale!Min
<1>4. Scale!Max(S) \in S /\ \A x \in S : Scale!Max(S) >= x
  BY <1>2 DEF Scale!Max
<1>5. ASSUME NEW x \in S PROVE x <= Scale!Max(S)
  <2>1. Scale!Max(S) >= x /\ x \in Int /\ Scale!Max(S) \in Int
    BY <1>4
  <2> QED BY <2>1
<1> QED BY <1>3, <1>4, <1>5

-----------------------------------------------------------------------------
(* Rounding                                                                *)

\* f32::round is off by half a step at most, and by exactly that only where
\* the half lies.
LEMMA Rounded ==
  ASSUME NEW a \in Int, NEW d \in Nat \ {0}
  PROVE  /\ Scale!Round(a, d) \in Int
         /\ 2 * d * Scale!Round(a, d) - d <= 2 * a
         /\ 2 * a <= 2 * d * Scale!Round(a, d) + d
<1> DEFINE r == Scale!Round(a, d)
<1>1. 2 * d \in Nat \ {0}
  OBVIOUS
<1>2. CASE a < 0
  <2> DEFINE b == d - 2 * a
             q == b \div (2 * d)
  <2>1. b \in Int /\ r = -q
    BY <1>2 DEF Scale!Round
  <2> HIDE DEF q
  <2>2. q \in Int /\ b % (2 * d) \in 0..2 * d - 1 /\ b = 2 * d * q + (b % (2 * d))
    BY <2>1, <1>1, Division DEF q
  <2> DEFINE p == d * q
  <2>3. p \in Int /\ d * r = -p
    BY <2>1, <2>2
  <2>4. 2 * d * q = 2 * p /\ 2 * d * r = -2 * p
    BY <2>1, <2>2, <2>3
  <2> HIDE DEF p, r
  <2> QED BY <2>1, <2>2, <2>3, <2>4 DEF r
<1>3. CASE ~(a < 0)
  <2> DEFINE b == 2 * a + d
             q == b \div (2 * d)
  <2>1. b \in Int /\ r = q
    BY <1>3 DEF Scale!Round
  <2> HIDE DEF q
  <2>2. q \in Int /\ b % (2 * d) \in 0..2 * d - 1 /\ b = 2 * d * q + (b % (2 * d))
    BY <2>1, <1>1, Division DEF q
  <2> QED BY <2>1, <2>2
<1> QED BY <1>2, <1>3

\* A value, a / d, as a number of 0..high.
Quantized(a, d, high) == Scale!Clamp(Scale!Round(a, d), 0, high)

\* Clamped, the value is within half a step exactly if it lies in the range or
\* half a step outside of it.
LEMMA ClampedWithin ==
  ASSUME NEW a \in Int, NEW d \in Nat \ {0}, NEW high \in Nat
  PROVE  /\ Quantized(a, d, high) \in 0..high
         /\ (2 * Scale!Magnitude(a - Quantized(a, d, high) * d) <= d)
              <=> (-d <= 2 * a /\ 2 * a <= (2 * high + 1) * d)
<1> DEFINE r == Scale!Round(a, d)
           top == high * d
           q == Quantized(a, d, high)
<1>0. q = Scale!Clamp(r, 0, high)
  BY DEF Quantized
<1> SUFFICES /\ q \in 0..high
             /\ (2 * Scale!Magnitude(a - q * d) <= d)
                  <=> (-d <= 2 * a /\ 2 * a <= (2 * high + 1) * d)
  OBVIOUS
<1> HIDE DEF q
<1>1. r \in Int /\ r * d \in Int /\ 2 * (r * d) - d <= 2 * a /\ 2 * a <= 2 * (r * d) + d
  <2>1. r \in Int /\ 2 * d * r - d <= 2 * a /\ 2 * a <= 2 * d * r + d
    BY Rounded
  <2> HIDE DEF r
  <2>2. 2 * d * r = 2 * (r * d) /\ r * d \in Int
    BY <2>1
  <2> QED BY <2>1, <2>2
<1> HIDE DEF r
<1>2. top \in Int /\ (2 * high + 1) * d = 2 * top + d
  OBVIOUS
<1>3. q \in 0..high
  BY <1>0, <1>1 DEF Scale!Clamp
<1>4. CASE r < 0
  <2>1. q = 0 /\ q * d = 0
    BY <1>0, <1>4 DEF Scale!Clamp
  <2>2. (r + 1) * d <= 0 * d /\ (r + 1) * d = r * d + d
    BY <1>1, <1>4, Multiples
  <2>3. 0 * d <= high * d
    BY Multiples
  <2>4. 2 * a <= -d
    BY <2>2, <1>1
  <2>5. Scale!Magnitude(a - q * d) = -a
    BY <2>1, <2>4 DEF Scale!Magnitude
  <2>6. top >= 0
    BY <2>3
  <2> HIDE DEF top
  <2> QED BY <1>2, <1>3, <2>4, <2>5, <2>6
<1>5. CASE r > high
  <2>1. q = high
    BY <1>0, <1>5, <1>1 DEF Scale!Clamp
  <2>2. (high + 1) * d <= r * d /\ (high + 1) * d = top + d
    BY <1>1, <1>5, Multiples
  <2>3. 0 * d <= high * d
    BY Multiples
  <2>4. 2 * a >= 2 * top + d /\ q * d = top
    BY <2>1, <2>2, <1>1
  <2>5. top >= 0
    BY <2>3
  <2> HIDE DEF top
  <2>6. Scale!Magnitude(a - q * d) = a - top
    BY <1>2, <2>4, <2>5 DEF Scale!Magnitude
  <2> QED BY <1>2, <1>3, <2>4, <2>5, <2>6
<1>6. CASE r \in 0..high
  <2>1. q = r
    BY <1>0, <1>6, <1>1 DEF Scale!Clamp
  <2>2. 0 * d <= r * d /\ r * d <= high * d
    BY <1>6, Multiples
  <2> QED BY <1>1, <1>2, <1>3, <2>1, <2>2 DEF Scale!Magnitude
<1> QED BY <1>1, <1>4, <1>5, <1>6

-----------------------------------------------------------------------------
(* Scales                                                                  *)

\* What of a group of weights decides its scale.
LEMMA PartsType ==
  ASSUME NEW n \in Nat \ {0}, NEW weights \in [1..n -> Int]
  PROVE  /\ Scale!Parts(weights) \in SUBSET Int
         /\ IsFiniteSet(Scale!Parts(weights))
         /\ \A i \in 1..n : weights[i] \in Scale!Parts(weights)
         /\ Scale!Parts(weights) # {}
<1>1. IsFiniteSet(1..n)
  BY FS_Interval
<1> DEFINE S == Scale!Parts(weights)
<1>2. S = {weights[i] : i \in 1..n}
  BY DEF Scale!Parts
<1>3. IsFiniteSet(S)
  <2>1. weights \in Surjection(1..n, S)
    BY <1>2 DEF Surjection
  <2> QED BY <1>1, <2>1, FS_Surjection
<1>4. 1 \in 1..n
  OBVIOUS
<1>5. \A i \in 1..n : weights[i] \in S
  BY <1>2
<1>6. S \in SUBSET Int
  BY <1>2
<1> QED BY <1>3, <1>4, <1>5, <1>6

\* A weight of a group that is between the least and the greatest of its group, with
\* the group's scale n / d and zero point.
Spans(low, high, n, d) ==
  /\ low \in Int /\ high \in Int /\ n \in Nat \ {0} /\ d \in Nat \ {0}
  /\ n * (high - low) = 15 * d \/ high = low
Zero(low, n, d) == Quantized(-low * n, d, 15)
FourBits(v, low, n, d) == Quantized(v * n + Zero(low, n, d) * d, d, 15)

\* fake_quantize of a weight within its group's range, for the scale n / d of the group:
\* it comes back within half a step exactly if it is at most 15.5 steps away from 0.
LEMMA KeptInRange ==
  ASSUME NEW low, NEW high, NEW n, NEW d, Spans(low, high, n, d),
         NEW v \in Int, low <= v, v <= high
  PROVE  2 * Scale!Magnitude(v * n - (FourBits(v, low, n, d) - Zero(low, n, d)) * d) <= d
           <=> 2 * Scale!Magnitude(v) * n <= 31 * d
<1> USE DEF Spans
<1> DEFINE zero == Zero(low, n, d)
           q == FourBits(v, low, n, d)
<1>0. zero = Quantized(-low * n, d, 15) /\ q = Quantized(v * n + zero * d, d, 15)
  BY DEF Zero, FourBits
<1> HIDE DEF zero, q
<1>1. n * low \in Int /\ n * v \in Int /\ n * high \in Int
      /\ n * low <= n * v /\ n * v <= n * high /\ -low * n = -(n * low) /\ v * n = n * v
  OBVIOUS
<1> DEFINE lo == n * low
           w == n * v
           hi == n * high
           r == Scale!Round(-lo, d)
<1>2. zero \in 0..15 /\ zero * d \in Int /\ 0 <= zero * d /\ zero * d <= 15 * d
  <2>1. -lo \in Int /\ zero = Quantized(-lo, d, 15)
    BY <1>0, <1>1
  <2>2. zero \in 0..15
    BY <2>1, ClampedWithin
  <2>3. 0 * d <= zero * d /\ zero * d <= 15 * d
    BY <2>2, Multiples
  <2> QED BY <2>2, <2>3
<1> DEFINE z == zero * d
<1>3. 2 * Scale!Magnitude(v * n - (q - zero) * d) <= d
        <=> -d <= 2 * (w + z) /\ 2 * (w + z) <= 31 * d
  <2>1. q = Quantized(w + z, d, 15) /\ w + z \in Int
    BY <1>0, <1>1, <1>2
  <2>2. /\ q \in 0..15
        /\ (2 * Scale!Magnitude((w + z) - q * d) <= d)
              <=> (-d <= 2 * (w + z) /\ 2 * (w + z) <= (2 * 15 + 1) * d)
    BY <2>1, ClampedWithin
  <2>3. v * n - (q - zero) * d = (w + z) - q * d
    <3>1. (q - zero) * d = q * d - zero * d
      BY <2>2, <1>2
    <3>2. q * d \in Int
      BY <2>2
    <3> QED BY <1>1, <1>2, <3>1, <3>2
  <2> QED BY <2>2, <2>3
<1>4. 2 * Scale!Magnitude(v) * n = 2 * Scale!Magnitude(w)
  BY <1>1 DEF Scale!Magnitude
<1>5. r \in Int /\ zero = (IF r < 0 THEN 0 ELSE IF r > 15 THEN 15 ELSE r)
  BY <1>0, <1>1, Rounded DEF Quantized, Scale!Clamp
<1>6. r * d \in Int /\ 2 * (r * d) - d <= -2 * lo /\ -2 * lo <= 2 * (r * d) + d
  <2>1. r \in Int /\ 2 * d * r - d <= 2 * (-lo) /\ 2 * (-lo) <= 2 * d * r + d
    BY <1>1, Rounded
  <2> HIDE DEF r
  <2>2. 2 * d * r = 2 * (r * d) /\ r * d \in Int
    BY <2>1
  <2> QED BY <1>1, <2>1, <2>2
<1>7. lo \in Int /\ w \in Int /\ hi \in Int /\ z \in Int /\ lo <= w /\ w <= hi
      /\ 0 <= z /\ z <= 15 * d /\ (hi = lo + 15 * d \/ hi = lo)
  <2>1. n * (high - low) = hi - lo
    OBVIOUS
  <2> QED BY <2>1, <1>1, <1>2
<1> DEFINE p == r * d
           kept == -d <= 2 * (w + z) /\ 2 * (w + z) <= 31 * d
<1>8. p \in Int /\ 2 * p - d <= -2 * lo /\ -2 * lo <= 2 * p + d
  BY <1>6
<1>9. /\ r < 0 => z = 0 /\ p + d <= 0
      /\ r > 15 => z = 15 * d /\ p >= 16 * d
      /\ ~(r < 0) /\ ~(r > 15) => z = p
  <2> HIDE DEF r
  <2>1. ASSUME r < 0 PROVE z = 0 /\ p + d <= 0
    <3>1. (r + 1) * d <= 0 * d /\ (r + 1) * d = r * d + d
      BY <1>5, <2>1, Multiples
    <3> QED BY <3>1, <1>5, <2>1
  <2>2. ASSUME r > 15 PROVE z = 15 * d /\ p >= 16 * d
    <3>1. 16 * d <= r * d
      BY <1>5, <2>2, Multiples
    <3> QED BY <3>1, <1>5, <1>8, <2>2
  <2> QED BY <2>1, <2>2, <1>5
<1>10. kept <=> 2 * Scale!Magnitude(w) <= 31 * d
  <2> HIDE DEF p, z, w, lo, hi
  <2>1. CASE r < 0
    <3>1. w > 0 /\ z = 0
      BY <2>1, <1>7, <1>8, <1>9
    <3>2. Scale!Magnitude(w) = w
      BY <3>1, <1>7 DEF Scale!Magnitude
    <3> QED BY <3>1, <3>2, <1>7
  <2>2. CASE r > 15
    <3>1. w < 0 /\ z = 15 * d
      BY <2>2, <1>7, <1>8, <1>9
    <3>2. Scale!Magnitude(w) = -w
      BY <3>1, <1>7 DEF Scale!Magnitude
    <3> QED BY <3>1, <3>2, <1>7
  <2>3. CASE ~(r < 0) /\ ~(r > 15)
    <3>1. -d <= 2 * (w + z) /\ 2 * (w + z) <= 31 * d
      BY <2>3, <1>7, <1>8, <1>9
    <3>2. 2 * w <= 31 * d /\ -2 * w <= 31 * d
      BY <2>3, <1>7, <1>8, <1>9
    <3>3. 2 * Scale!Magnitude(w) <= 31 * d
      BY <3>2, <1>7 DEF Scale!Magnitude
    <3> QED BY <3>1, <3>3
  <2> QED BY <2>1, <2>2, <2>3
<1> QED BY <1>3, <1>4, <1>10 DEF zero, q

\* Int4Linear::quantize and unpack_weights: a weight of a group comes back within half a
\* step exactly if it is at most 15.5 steps away from 0.
THEOREM Int4GroupKeeps ==
  ASSUME NEW n \in Nat \ {0}, NEW weights \in [1..n -> Int], NEW units \in Nat \ {0},
         NEW i \in 1..n
  PROVE  Scale!Kept(Scale!Int4Group(weights, units), weights, i)
           <=> 2 * Scale!Magnitude(weights[i]) * Scale!Int4Group(weights, units).scale.n
                 <= 31 * Scale!Int4Group(weights, units).scale.d
<1> DEFINE layer == Scale!Int4Group(weights, units)
           low == Scale!Min(Scale!Parts(weights))
           high == Scale!Max(Scale!Parts(weights))
           scale == Scale!Int4Scale(weights, units)
           zero == Scale!ZeroPoint(weights, scale)
           q == Quantized(weights[i] * scale.n + zero * scale.d, scale.d, 15)
<1>1. weights[i] \in Int /\ low \in Int /\ high \in Int /\ low <= weights[i] /\ weights[i] <= high
  BY PartsType, MinMax
<1>2. scale = IF high - low > 0 THEN [n |-> 15, d |-> high - low] ELSE [n |-> 1, d |-> units]
  BY DEF Scale!Int4Scale
<1>3. zero = Zero(low, scale.n, scale.d)
  BY DEF Scale!ZeroPoint, Zero, Quantized
<1>4. layer.scale = scale /\ layer.zero = zero /\ layer.q[i] = q
  BY DEF Scale!Int4Group, Quantized
<1> HIDE DEF layer, low, high, scale, zero
<1>5. Spans(low, high, scale.n, scale.d)
  BY <1>1, <1>2 DEF Spans
<1>6. 2 * Scale!Magnitude(weights[i] * scale.n - (q - zero) * scale.d) <= scale.d
        <=> 2 * Scale!Magnitude(weights[i]) * scale.n <= 31 * scale.d
  <2>1. q = FourBits(weights[i], low, scale.n, scale.d)
    BY <1>3 DEF FourBits
  <2> HIDE DEF q
  <2> QED BY <1>1, <1>3, <1>5, <2>1, KeptInRange
<1>7. Scale!Kept(layer, weights, i)
        <=> 2 * Scale!Magnitude(weights[i] * scale.n - (q - zero) * scale.d) <= scale.d
  BY <1>4 DEF Scale!Kept, Scale!Restored
<1> QED BY <1>4, <1>6, <1>7 DEF layer

\* Int8Linear::quantize and unpack_weights: every weight comes back within half a step,
\* since a step is a 127th of the largest magnitude.
THEOREM Int8LayerKeeps ==
  ASSUME NEW n \in Nat \ {0}, NEW weights \in [1..n -> Int], NEW units \in Nat \ {0},
         NEW i \in 1..n
  PROVE  Scale!Kept(Scale!Int8Layer(weights, units), weights, i)
<1> DEFINE S == Scale!Parts(weights)
           T == {Scale!Magnitude(v) : v \in S}
           abs_max == Scale!Max(T)
           v == weights[i]
<1>1. v \in S /\ S \in SUBSET Int /\ IsFiniteSet(S)
  BY PartsType
<1>2. T \in SUBSET Int /\ IsFiniteSet(T) /\ Scale!Magnitude(v) \in T
  <2>1. IsFiniteSet(T)
    <3>1. [x \in S |-> Scale!Magnitude(x)] \in Surjection(S, T)
      BY DEF Surjection
    <3> QED BY <1>1, <3>1, FS_Surjection
  <2>2. \A x \in Int : Scale!Magnitude(x) \in Int
    BY DEF Scale!Magnitude
  <2> QED BY <1>1, <2>1, <2>2
<1> HIDE DEF T, S
<1>3. abs_max \in Int /\ Scale!Magnitude(v) <= abs_max
  BY <1>2, MinMax
<1> HIDE DEF abs_max
<1> DEFINE n1 == IF abs_max > 0 THEN 127 ELSE 1
           d == IF abs_max > 0 THEN abs_max ELSE units
           a == v * n1 + 128 * d
           q == Quantized(a, d, 255)
           layer == Scale!Int8Layer(weights, units)
<1>4. layer.scale.n = n1 /\ layer.scale.d = d /\ layer.zero = 128 /\ layer.q[i] = q
  BY DEF Scale!Int8Layer, Quantized, abs_max, T, S
<1> HIDE DEF layer
<1>5. v \in Int
  BY <1>1
<1>6. /\ d \in Nat \ {0} /\ n1 \in {1, 127} /\ v * n1 \in Int
      /\ -127 * d <= v * n1 /\ v * n1 <= 127 * d
  BY <1>3, <1>5 DEF Scale!Magnitude
<1> HIDE DEF v, d, n1
<1>7. q \in 0..255 /\ 2 * Scale!Magnitude(a - q * d) <= d
  <2>1. a \in Int /\ -d <= 2 * a /\ 2 * a <= (2 * 255 + 1) * d
    BY <1>6
  <2> HIDE DEF a
  <2> DEFINE high == 255
  <2>2. q = Quantized(a, d, high) /\ high \in Nat /\ a \in Int /\ d \in Nat \ {0}
    BY <1>6, <2>1
  <2> HIDE DEF q, high
  <2>3. /\ q \in 0..high
        /\ (2 * Scale!Magnitude(a - q * d) <= d) <=> (-d <= 2 * a /\ 2 * a <= (2 * high + 1) * d)
    BY <2>2, ClampedWithin
  <2> QED BY <2>1, <2>3 DEF high
<1>8. v * n1 - (q - 128) * d = a - q * d
  <2> HIDE DEF q
  <2>1. (q - 128) * d = q * d - 128 * d /\ q * d \in Int
    BY <1>6, <1>7
  <2> QED BY <1>6, <2>1
<1> HIDE DEF a, q
<1>9. Scale!Kept(layer, weights, i) <=> 2 * Scale!Magnitude(v * n1 - (q - 128) * d) <= d
  BY <1>4 DEF Scale!Kept, Scale!Restored, v
<1> QED BY <1>7, <1>8, <1>9 DEF layer

-----------------------------------------------------------------------------
(* The calls                                                               *)

\* A call is one of its own function.
CallOK ==
  /\ call.op = "paged" => call \in PagedCalls
  /\ call.op = "stages" => call \in StageCalls
  /\ call.op = "scale" => call \in ScaleCalls
  /\ call.op = "int4" => call \in Int4Calls
  /\ call.op = "awq" => call \in AwqCalls
  /\ call.op = "load" => call \in LoadCalls
  /\ call.op = "start" => call \in StartCalls
  /\ call.op = "gguf" => call \in QuantizedCalls
  /\ call.op = "graph" => call \in GraphCalls
  /\ call.op = "build" => call \in BuildCalls
  /\ call.op = "serve" => call \in ServeCalls
  /\ call.op = "speculate" => call \in SpeculativeCalls
  /\ call.op = "sample" => call \in SampleCalls
  /\ call.op = "chat" => call \in ChatCalls

\* The name of a call tells its function.
LEMMA OpOfCall ==
  /\ \A c \in PagedCalls : c.op = "paged"
  /\ \A c \in Int4Calls : c.op = "int4"
  /\ \A c \in AwqCalls : c.op = "awq"
  /\ \A c \in StageCalls : c.op = "stages"
  /\ \A c \in SpeculativeCalls : c.op = "speculate"
  /\ \A c \in ServeCalls : c.op = "serve"
  /\ \A c \in GraphCalls : c.op = "graph"
  /\ \A c \in SampleCalls : c.op = "sample"
  /\ \A c \in LoadCalls : c.op = "load"
  /\ \A c \in ChatCalls : c.op = "chat"
  /\ \A c \in QuantizedCalls : c.op = "gguf"
  /\ \A c \in BuildCalls : c.op = "build"
  /\ \A c \in StartCalls : c.op = "start"
  /\ \A c \in ScaleCalls : c.op = "scale"
  /\ \A c \in LayerCalls : c.op = "layer"
<1>1. \A c \in PagedCalls : c.op = "paged"
  BY DEF PagedCalls
<1>2. \A c \in Int4Calls : c.op = "int4"
  BY DEF Int4Calls
<1>3. \A c \in AwqCalls : c.op = "awq"
  BY DEF AwqCalls
<1>4. \A c \in StageCalls : c.op = "stages"
  BY DEF StageCalls
<1>5. \A c \in SpeculativeCalls : c.op = "speculate"
  BY DEF SpeculativeCalls
<1>6. \A c \in ServeCalls : c.op = "serve"
  BY DEF ServeCalls
<1>7. \A c \in GraphCalls : c.op = "graph"
  BY DEF GraphCalls
<1>8. \A c \in SampleCalls : c.op = "sample"
  BY DEF SampleCalls
<1>9. \A c \in LoadCalls : c.op = "load"
  BY DEF LoadCalls
<1>10. \A c \in ChatCalls : c.op = "chat"
  BY DEF ChatCalls
<1>11. \A c \in QuantizedCalls : c.op = "gguf"
  BY DEF QuantizedCalls
<1>12. \A c \in BuildCalls : c.op = "build"
  BY DEF BuildCalls
<1>13. \A c \in StartCalls : c.op = "start"
  BY DEF StartCalls
<1>14. \A c \in ScaleCalls : c.op = "scale"
  BY DEF ScaleCalls
<1>15. \A c \in LayerCalls : c.op = "layer"
  BY DEF LayerCalls
<1> QED
  BY <1>1, <1>2, <1>3, <1>4, <1>5, <1>6, <1>7, <1>8, <1>9, <1>10, <1>11, <1>12, <1>13, <1>14,
     <1>15

\* A behaviour begins with a call.
LEMMA CallsStart == Init => CallOK
BY OpOfCall DEF Init, CallOK

\* A step is one of the function that was called.
LEMMA StepOfCall ==
  ASSUME Next
  PROVE  /\ UNCHANGED call
         /\ call.op = "paged" => Attend
         /\ call.op = "stages" => Divide
         /\ call.op = "scale" => RoundWeights
         /\ call.op = "int4" => QuantizeLayer \/ UnpackLayer
         /\ call.op = "awq" => UnpackAwqLayer
         /\ call.op = "load" => LoadModel
         /\ call.op = "start" => StartServer
         /\ call.op = "serve" => Serve
         /\ call.op = "gguf" => ServeQuantized
         /\ call.op = "graph" => UseEngine
         /\ call.op = "build" => BuildModel
         /\ call.op = "layer" => LoadQuantizedLayer
         /\ call.op = "speculate" => Speculate
         /\ call.op = "sample" => Sample
         /\ call.op = "chat" => ChatPost \/ ChatGenerate \/ ChatExpire \/ ChatReceive \/ ChatEnd
<1>1. Speculate => call.op = "speculate" /\ UNCHANGED call
  BY DEF Speculate
<1>2. Attend => call.op = "paged" /\ UNCHANGED call
  BY DEF Attend
<1>3. QuantizeLayer => call.op = "int4" /\ UNCHANGED call
  BY DEF QuantizeLayer
<1>4. UnpackLayer => call.op = "int4" /\ UNCHANGED call
  BY DEF UnpackLayer
<1>5. UnpackAwqLayer => call.op = "awq" /\ UNCHANGED call
  BY DEF UnpackAwqLayer
<1>6. Divide => call.op = "stages" /\ UNCHANGED call
  BY DEF Divide
<1>7. Serve => call.op = "serve" /\ UNCHANGED call
  BY DEF Serve
<1>8. UseEngine => call.op = "graph" /\ UNCHANGED call
  BY DEF UseEngine
<1>9. Sample => call.op = "sample" /\ UNCHANGED call
  BY DEF Sample
<1>10. LoadModel => call.op = "load" /\ UNCHANGED call
  BY DEF LoadModel
<1>11. ServeQuantized => call.op = "gguf" /\ UNCHANGED call
  BY DEF ServeQuantized
<1>12. BuildModel => call.op = "build" /\ UNCHANGED call
  BY DEF BuildModel
<1>13. LoadQuantizedLayer => call.op = "layer" /\ UNCHANGED call
  BY DEF LoadQuantizedLayer
<1>14. RoundWeights => call.op = "scale" /\ UNCHANGED call
  BY DEF RoundWeights
<1>15. StartServer => call.op = "start" /\ UNCHANGED call
  BY DEF StartServer
<1>16. ChatPost => call.op = "chat" /\ UNCHANGED call
  BY DEF ChatPost
<1>17. ChatGenerate => call.op = "chat" /\ UNCHANGED call
  BY DEF ChatGenerate, Answering
<1>18. ChatExpire => call.op = "chat" /\ UNCHANGED call
  BY DEF ChatExpire, Answering
<1>19. ChatReceive => call.op = "chat" /\ UNCHANGED call
  BY DEF ChatReceive, Answering
<1>20. ChatEnd => call.op = "chat" /\ UNCHANGED call
  BY DEF ChatEnd, Answering
<1> QED
  BY <1>1, <1>2, <1>3, <1>4, <1>5, <1>6, <1>7, <1>8, <1>9, <1>10, <1>11, <1>12, <1>13, <1>14,
     <1>15, <1>16, <1>17, <1>18, <1>19, <1>20 DEF Next

\* A behaviour keeps its call.
LEMMA CallsKept ==
  ASSUME CallOK, [Next]_<<call, result>>
  PROVE  CallOK' /\ UNCHANGED call
<1>1. UNCHANGED call
  BY StepOfCall
<1> QED BY <1>1 DEF CallOK

\* Every layer runs on one rank, whatever the number of ranks and of layers.
THEOREM EveryRankItsShare == Spec => []RanksDivide
<1>1. CallOK => RanksDivide
  <2> SUFFICES ASSUME CallOK, call.op = "stages"
               PROVE  /\ LayersPartitioned(call.world_size, call.size)
                      /\ ShardsTile(call.world_size, call.size)
    BY DEF RanksDivide
  <2>1. call.world_size \in Nat \ {0} /\ call.size \in Nat
    BY ModelCodeAssumption DEF CallOK, StageCalls
  <2> QED BY <2>1, StagesPartition, ShardsCoverMultiple
<1>2. Init => CallOK
  BY CallsStart
<1>3. CallOK /\ [Next]_<<call, result>> => CallOK'
  BY CallsKept
<1> QED BY <1>1, <1>2, <1>3, PTL DEF Spec

\* A layer is what its function made of the call.
RoundedOK ==
  call.op = "scale" =>
    result \in {NoResult, IF call.bits = 4 THEN Scale!Int4Group(call.weights, call.units)
                                         ELSE Scale!Int8Layer(call.weights, call.units)}

\* Int4 groups keep what is near zero, int8 layers everything: for weights of any size.
THEOREM NearZeroKept == Spec => []KeptNearZero
<1>1. CallOK /\ RoundedOK => KeptNearZero
  <2> SUFFICES ASSUME CallOK, RoundedOK, call.op = "scale", result # NoResult,
                      NEW i \in DOMAIN call.weights
               PROVE  Scale!Kept(result, call.weights, i) <=>
                        \/ call.bits = 8
                        \/ 2 * Scale!Magnitude(call.weights[i]) * result.scale.n
                             <= 31 * result.scale.d
    BY DEF KeptNearZero
  <2> DEFINE weights == call.weights
  <2>1. call.bits \in {4, 8} /\ call.units \in Nat \ {0}
    BY DEF CallOK, ScaleCalls
  <2>2. PICK n \in Nat \ {0} : weights \in [1..n -> Int]
    <3>1. weights \in [1..2 -> -MaxWeight..MaxWeight]
             \/ weights \in [1..3 -> -(MaxWeight \div 5)..MaxWeight \div 5]
      BY DEF CallOK, ScaleCalls
    <3>2. weights \in [1..2 -> Int] \/ weights \in [1..3 -> Int]
      BY <3>1
    <3>3. 2 \in Nat \ {0} /\ 3 \in Nat \ {0}
      OBVIOUS
    <3> HIDE DEF weights
    <3> QED BY <3>2, <3>3
  <2>3. i \in 1..n
    BY <2>2
  <2>4. CASE call.bits = 4
    <3>1. result = Scale!Int4Group(weights, call.units)
      BY <2>4 DEF RoundedOK
    <3> HIDE DEF weights
    <3>2. Scale!Kept(Scale!Int4Group(weights, call.units), weights, i)
            <=> 2 * Scale!Magnitude(weights[i]) * Scale!Int4Group(weights, call.units).scale.n
                  <= 31 * Scale!Int4Group(weights, call.units).scale.d
      BY <2>1, <2>2, <2>3, Int4GroupKeeps
    <3> QED BY <2>4, <3>1, <3>2 DEF weights
  <2>5. CASE call.bits = 8
    <3>1. result = Scale!Int8Layer(weights, call.units)
      BY <2>5 DEF RoundedOK
    <3> HIDE DEF weights
    <3>2. Scale!Kept(Scale!Int8Layer(weights, call.units), weights, i)
      BY <2>1, <2>2, <2>3, Int8LayerKeeps
    <3> QED BY <2>5, <3>1, <3>2 DEF weights
  <2> QED BY <2>1, <2>4, <2>5
<1>2. Init => CallOK /\ RoundedOK
  BY CallsStart DEF Init, RoundedOK
<1>3. CallOK /\ RoundedOK /\ [Next]_<<call, result>> => CallOK' /\ RoundedOK'
  BY CallsKept, StepOfCall DEF RoundedOK, RoundWeights
<1> QED BY <1>1, <1>2, <1>3, PTL DEF Spec

\* What a GGUF model has computed from, input by input.
ServedOK ==
  call.op = "gguf" /\ result # NoResult =>
    /\ result \in [ok : {TRUE}, contexts : Seq({OwnTokens(k) : k \in DOMAIN call.inputs})]
    /\ \A k \in DOMAIN result.contexts : result.contexts[k] = OwnTokens(k)

\* A GGUF model computes every input from that input alone.
THEOREM InputsComputedAlone == Spec => []InputsSeenAlone
<1>1. ServedOK => InputsSeenAlone
  BY DEF ServedOK, InputsSeenAlone
<1>2. Init => ServedOK
  BY DEF Init, ServedOK
<1>3. ASSUME ServedOK, [Next]_<<call, result>>
      PROVE  ServedOK'
  <2>1. CASE UNCHANGED <<call, result>>
    <3>1. \A j : OwnTokens(j)' = OwnTokens(j)
      BY <2>1 DEF OwnTokens, StartOf
    <3>2. {OwnTokens(j) : j \in DOMAIN call.inputs}' = {OwnTokens(j) : j \in DOMAIN call.inputs}
      BY <2>1, <3>1
    <3> QED BY <1>3, <2>1, <3>1, <3>2 DEF ServedOK
  <2>2. CASE Next /\ call.op # "gguf"
    BY <2>2, StepOfCall DEF ServedOK
  <2>3. CASE Next /\ call.op = "gguf"
    <3> DEFINE now == IF result = NoResult THEN [ok |-> TRUE, contexts |-> <<>>] ELSE result
               k == Len(now.contexts) + 1
               inner == IF k = 1 THEN <<>> ELSE now.contexts[k - 1]
               context == Att!ServedQuantized(inner, OwnTokens(k), StartOf(k))
               Texts == {OwnTokens(j) : j \in DOMAIN call.inputs}
    <3>1. /\ k \in DOMAIN call.inputs
          /\ result' = [now EXCEPT !.contexts = Append(@, context)]
          /\ UNCHANGED call
      BY <2>3, StepOfCall DEF ServeQuantized
    <3>2. /\ now \in [ok : {TRUE}, contexts : Seq(Texts)]
          /\ \A j \in DOMAIN now.contexts : now.contexts[j] = OwnTokens(j)
      <4>1. CASE result = NoResult
        BY <4>1
      <4>2. CASE result # NoResult
        BY <1>3, <2>3, <4>2 DEF ServedOK
      <4> QED BY <4>1, <4>2
    <3>3. context = OwnTokens(k)
      BY DEF Att!ServedQuantized, Att!QuantizedForward, Att!CachedContext, Att!Index
    <3>4. context \in Texts
      BY <3>1, <3>3
    <3> DEFINE before == now.contexts
    <3>5. now = [ok |-> TRUE, contexts |-> before] /\ before \in Seq(Texts) /\ k = Len(before) + 1
      BY <3>2
    <3> HIDE DEF context, Texts, k
    <3>6. result' = [ok |-> TRUE, contexts |-> Append(before, context)]
      <4>1. result' = [now EXCEPT !.contexts = Append(before, context)]
        BY <3>1
      <4> HIDE DEF now, before
      <4> QED BY <4>1, <3>5
    <3> HIDE DEF now
    <3>7. /\ Append(before, context) \in Seq(Texts)
          /\ \A j \in DOMAIN Append(before, context) : Append(before, context)[j] = OwnTokens(j)
      BY <3>2, <3>3, <3>4, <3>5, AppendProperties
    <3>8. \A j : OwnTokens(j)' = OwnTokens(j)
      BY <3>1 DEF OwnTokens, StartOf
    <3>9. Texts' = Texts
      BY <3>1, <3>8 DEF Texts
    <3> HIDE DEF before
    <3>10. /\ result'.contexts = Append(before, context)
           /\ result' \in [ok : {TRUE}, contexts : Seq(Texts)]
      BY <3>6, <3>7
    <3> QED BY <3>7, <3>8, <3>9, <3>10 DEF ServedOK, Texts
  <2> QED BY <1>3, <2>1, <2>2, <2>3
<1> QED BY <1>1, <1>2, <1>3, PTL DEF Spec

-----------------------------------------------------------------------------
(* Int4Linear                                                              *)

\* Where a row and a column are in a matrix listed row by row.
LEMMA RowByRow ==
  ASSUME NEW rows \in Nat, NEW columns \in Nat, NEW row \in 0..rows - 1, NEW col \in 0..columns - 1
  PROVE  row * columns + col + 1 \in 1..rows * columns
<1>1. 0 * columns <= row * columns /\ (row + 1) * columns <= rows * columns
      /\ (row + 1) * columns = row * columns + columns
      /\ rows * columns \in Int /\ row * columns \in Int
  BY Multiples
<1> QED BY <1>1

\* Int4Linear::quantize packs the whole matrix at once: with an odd number of columns
\* there are fewer bytes than the rows need, unless there is only one.
LEMMA QuantizeFits ==
  ASSUME NEW rows \in Nat \ {0}, NEW columns \in Nat \ {0}, NEW g \in Nat \ {0},
         NEW values, Len(values) = rows * columns
  PROVE  Quantize(rows, columns, g, values).ok <=> columns % 2 = 0 \/ rows = 1
<1> DEFINE c == columns \div 2
           p == rows * c
           n == rows * columns
<1>1. c \in Nat /\ p \in Nat /\ rows * (c + 1) = p + rows
  OBVIOUS
<1>2. Len(PackI4(values)) = DivCeil(n, 2)
  BY DEF PackI4, DivCeil
<1>3. Quantize(rows, columns, g, values).ok <=> DivCeil(n, 2) = rows * DivCeil(columns, 2)
  BY <1>2 DEF Quantize, PackedColumns, Failed
<1>4. CASE columns % 2 = 0
  <2>1. columns = 2 * c /\ DivCeil(columns, 2) = c
    BY <1>4 DEF DivCeil
  <2>2. n = 2 * p
    BY <2>1
  <2> HIDE DEF c, p, n
  <2>3. DivCeil(n, 2) = p
    BY <1>1, <2>2 DEF DivCeil
  <2> QED BY <1>3, <1>4, <2>1, <2>3 DEF p
<1>5. CASE columns % 2 = 1
  <2>1. columns = 2 * c + 1 /\ DivCeil(columns, 2) = c + 1
    BY <1>5 DEF DivCeil
  <2>2. n = 2 * p + rows
    BY <2>1
  <2> HIDE DEF c, p, n
  <2>3. DivCeil(n, 2) = p + (rows + 1) \div 2
    BY <1>1, <2>2 DEF DivCeil
  <2>4. (rows + 1) \div 2 = rows <=> rows = 1
    OBVIOUS
  <2>5. (rows + 1) \div 2 \in Int
    OBVIOUS
  <2>6. rows * DivCeil(columns, 2) = p + rows
    BY <1>1, <2>1
  <2> QED BY <1>1, <1>3, <1>5, <2>3, <2>4, <2>5, <2>6
<1>6. columns % 2 \in {0, 1}
  OBVIOUS
<1> QED BY <1>4, <1>5, <1>6

\* The layer was unpacked to these weights, each with the scale of its own row and group.
WeightsKept(unpacked, rows, columns, g, values) ==
  /\ unpacked.columns = columns + (columns % 2)
  /\ \A row \in 0..rows - 1, col \in 0..columns - 1 :
       unpacked.weight[row][col] =
         [q |-> values[row * columns + col + 1], group |-> <<row, col \div g>>]

\* Int4Linear::quantize and unpack_weights: what fits comes back weight by weight, each
\* with the scale of its own row and group, for layers of every size.
THEOREM Int4RoundTrip ==
  ASSUME NEW rows \in Nat \ {0}, NEW columns \in Nat \ {0}, NEW g \in Nat \ {0},
         NEW values \in Seq(0..15), Len(values) = rows * columns,
         Quantize(rows, columns, g, values).ok
  PROVE  WeightsKept(Unpack(Quantize(rows, columns, g, values)), rows, columns, g, values)
<1> DEFINE layer == Quantize(rows, columns, g, values)
           in_features == 2 * DivCeil(columns, 2)
           num_groups == DivCeil(columns, g)
           qvalues == UnpackI4(PackI4(values), rows * in_features)
<1>1. layer = [ok |-> TRUE, rows |-> rows, columns |-> DivCeil(columns, 2),
               qweight |-> PackI4(values), group_size |-> g, num_groups |-> num_groups]
  BY DEF Quantize, PackedColumns, Failed
<1>2. columns % 2 = 0 \/ rows = 1
  BY QuantizeFits
<1>3. in_features = columns + (columns % 2) /\ in_features \in Nat /\ columns <= in_features
  BY DEF DivCeil
<1>4. columns <= num_groups * g
  <2> DEFINE a == columns + g - 1
             r == a \div g
  <2>1. r \in Int /\ a % g \in 0..g - 1 /\ a = g * r + (a % g)
    <3>1. a \in Int /\ g \in Nat \ {0}
      OBVIOUS
    <3> HIDE DEF a
    <3> QED BY <3>1, Division
  <2>2. num_groups = r
    BY DEF DivCeil
  <2> HIDE DEF r
  <2>3. r * g = g * r /\ g * r \in Int
    BY <2>1
  <2> QED BY <2>1, <2>2, <2>3
<1> HIDE DEF in_features, num_groups
<1>5. ASSUME NEW row \in 0..rows - 1, NEW col \in 0..columns - 1
      PROVE  qvalues[row * in_features + col + 1] = values[row * columns + col + 1]
  <2>1. row * in_features = row * columns
    <3>1. CASE columns % 2 = 0
      BY <1>3, <3>1
    <3>2. CASE rows = 1
      <4>1. row = 0
        BY <3>2
      <4> QED BY <4>1, <1>3
    <3> QED BY <1>2, <3>1, <3>2
  <2>2. rows * columns <= rows * in_features /\ rows * in_features \in Nat
    <3>1. columns * rows <= in_features * rows
      BY <1>3, Multiples
    <3> QED BY <3>1, <1>3
  <2>3. row * columns + col + 1 \in 1..Len(values)
    BY RowByRow
  <2> DEFINE k == row * columns + col + 1
  <2>4. k = row * in_features + col + 1 /\ k \in 1..Len(values)
    BY <2>1, <2>3
  <2> HIDE DEF k
  <2>5. qvalues[k] = values[k]
    BY <2>2, <2>4, UnpackedAt
  <2> QED BY <2>4, <2>5 DEF k
<1> DEFINE unpacked == Unpack(layer)
<1>6. /\ unpacked.columns = in_features
      /\ unpacked.weight = [row \in 0..rows - 1 |->
                              [col \in 0..in_features - 1 |->
                                 IF col < num_groups * g
                                   THEN [q |-> qvalues[row * in_features + col + 1],
                                         group |-> <<row, col \div g>>]
                                   ELSE Untouched]]
  BY <1>1 DEF Unpack, in_features
<1> HIDE DEF unpacked, qvalues, layer
<1>7. ASSUME NEW row \in 0..rows - 1, NEW col \in 0..columns - 1
      PROVE  unpacked.weight[row][col] =
               [q |-> values[row * columns + col + 1], group |-> <<row, col \div g>>]
  <2>1. col \in 0..in_features - 1
    BY <1>3
  <2>2. num_groups * g \in Int /\ col < num_groups * g
    <3>1. num_groups \in Int
      BY Division DEF num_groups, DivCeil
    <3> QED BY <3>1, <1>4
  <2> DEFINE entry == [q |-> qvalues[row * in_features + col + 1], group |-> <<row, col \div g>>]
  <2>3. unpacked.weight[row] = [c \in 0..in_features - 1 |->
                                  IF c < num_groups * g
                                    THEN [q |-> qvalues[row * in_features + c + 1],
                                          group |-> <<row, c \div g>>]
                                    ELSE Untouched]
    BY <1>6
  <2>4. unpacked.weight[row][col] = entry
    BY <2>1, <2>2, <2>3
  <2> QED BY <1>5, <2>4
<1> QED BY <1>3, <1>6, <1>7 DEF unpacked, layer, WeightsKept

\* What has become of a layer.
PackedOK ==
  call.op = "int4" =>
    LET layer == Quantize(call.rows, call.columns, call.group_size, MCValues)
    IN \/ result \in {NoResult, layer}
       \/ layer.ok /\ result = [ok |-> TRUE, unpacked |-> Unpack(layer)]

\* A layer with an even number of input features is unpacked to its own weights.
THEOREM Int4Kept == Spec => []Int4KeepsWeights
<1>1. CallOK /\ PackedOK => Int4KeepsWeights
  <2> SUFFICES ASSUME CallOK, PackedOK, call.op = "int4", result # NoResult
               PROVE  Int4KeepsWeights
    BY DEF Int4KeepsWeights
  <2> DEFINE rows == call.rows
             columns == call.columns
             g == call.group_size
             values == MCValues
             layer == Quantize(rows, columns, g, values)
  <2>1. rows \in Nat \ {0} /\ columns \in Nat \ {0} /\ g \in Nat \ {0}
    BY ModelCodeAssumption DEF CallOK, Int4Calls
  <2>2. values \in Seq(0..15) /\ Len(values) = rows * columns
        /\ \A k \in 1..rows * columns : values[k] = MCValues[k]
    <3>1. rows * columns \in Nat
      BY <2>1
    <3>2. values = [k \in 1..rows * columns |-> k % 16]
      BY DEF MCValues
    <3> DEFINE n == rows * columns
    <3> HIDE DEF n
    <3>3. n \in Nat /\ \A k \in 1..n : k % 16 \in 0..15
      BY <3>1 DEF n
    <3>4. [k \in 1..n |-> k % 16] \in Seq(0..15) /\ Len([k \in 1..n |-> k % 16]) = n
      BY ONLY <3>3
    <3> QED BY <3>2, <3>4 DEF n
  <2>3. \/ result = layer
        \/ layer.ok /\ result = [ok |-> TRUE, unpacked |-> Unpack(layer)]
    BY DEF PackedOK
  <2> HIDE DEF values, rows, columns, g
  <2>4. layer.ok <=> columns % 2 = 0 \/ rows = 1
    BY <2>1, <2>2, QuantizeFits
  <2>5. "unpacked" \notin DOMAIN layer
    BY DEF Quantize, Failed
  <2> HIDE DEF layer
  <2>6. ASSUME result = layer PROVE Int4KeepsWeights
    BY <2>4, <2>5, <2>6 DEF Int4KeepsWeights, rows, columns
  <2>7. ASSUME layer.ok, result = [ok |-> TRUE, unpacked |-> Unpack(layer)]
        PROVE  Int4KeepsWeights
    <3>1. WeightsKept(Unpack(layer), rows, columns, g, values)
      <4>1. Quantize(rows, columns, g, values).ok
        BY <2>7 DEF layer
      <4>2. values \in Seq(0..15) /\ Len(values) = rows * columns
        BY <2>2
      <4>3. WeightsKept(Unpack(Quantize(rows, columns, g, values)), rows, columns, g, values)
        BY ONLY <2>1, <4>1, <4>2, Int4RoundTrip
      <4> QED BY <4>3 DEF layer
    <3>2. result.ok /\ result.unpacked = Unpack(layer)
      BY <2>7
    <3> QED BY <2>4, <2>7, <3>1, <3>2 DEF Int4KeepsWeights, WeightsKept, rows, columns, g, values
  <2> QED BY <2>3, <2>6, <2>7
<1>2. Init => CallOK /\ PackedOK
  BY CallsStart DEF Init, PackedOK
<1>3. ASSUME CallOK, PackedOK, [Next]_<<call, result>>
      PROVE  CallOK' /\ PackedOK'
  <2> DEFINE layer == Quantize(call.rows, call.columns, call.group_size, MCValues)
  <2>1. CallOK' /\ UNCHANGED call
    BY <1>3, CallsKept
  <2>2. layer' = layer
    BY <2>1 DEF MCValues
  <2>3. CASE UNCHANGED result \/ call.op # "int4"
    <3> HIDE DEF layer
    <3> QED BY <1>3, <2>1, <2>2, <2>3 DEF PackedOK, layer
  <2>4. CASE QuantizeLayer
    BY <2>1, <2>2, <2>4 DEF QuantizeLayer, PackedOK
  <2>5. CASE UnpackLayer /\ call.op = "int4"
    <3>1. result = layer /\ layer.ok
      BY <1>3, <2>5 DEF UnpackLayer, PackedOK, NoResult
    <3> QED BY <2>1, <2>2, <2>5, <3>1 DEF UnpackLayer, PackedOK
  <2> QED BY <1>3, <2>1, <2>3, <2>4, <2>5, StepOfCall
<1> QED BY <1>1, <1>2, <1>3, PTL DEF Spec

-----------------------------------------------------------------------------
(* The layers of AWQ files                                                 *)

\* The words hold v row by row, eight values to a word.
Stores(stored, rows, words, v) ==
  stored = [i \in 1..rows * words |->
              AwqWord([n \in 0..7 |-> v[(i - 1) \div words][8 * ((i - 1) % words) + n]])]

\* The layer holds nibble and zero, eight to a word, and G groups of scales per row,
\* with zw words of zero points for them, if any.
AwqHolds(layer, G, zw, nibble, zero) ==
  /\ layer.rows \in Nat \ {0} /\ layer.words \in Nat \ {0} /\ G \in Nat \ {0} /\ zw \in Nat
  /\ zw = 0 \/ G <= 8 * zw
  /\ \A col \in 0..8 * layer.words - 1 : Group(layer, col) \in Nat
  /\ nibble \in [0..layer.rows - 1 -> [0..8 * layer.words - 1 -> 0..15]]
  /\ zero \in [0..layer.rows - 1 -> [0..8 * zw - 1 -> 0..15]]
  /\ Stores(layer.qweight, layer.rows, layer.words, nibble)
  /\ Stores(layer.qzeros, layer.rows, zw, zero)
  /\ layer.num_scales = layer.rows * G

\* An index of a word is less than their number, and the word's row and place are those
\* it was computed from.
LEMMA WordOfRow ==
  ASSUME NEW rows \in Nat, NEW words \in Nat \ {0}, NEW row \in 0..rows - 1, NEW w \in 0..words - 1
  PROVE  /\ row * words + w \in 0..rows * words - 1
         /\ row * words + w + 1 \in 1..rows * words
         /\ (row * words + w + 1) - 1 = row * words + w
         /\ (row * words + w) \div words = row /\ (row * words + w) % words = w
<1> DEFINE x == row * words
           y == rows * words
<1>1. x + w \in Nat /\ (x + w) \div words = row /\ (x + w) % words = w /\ x \in Nat
  BY QuotientRemainder
<1>2. y \in Int /\ x + words <= y
  <2>1. (row + 1) * words = x + words /\ x \in Int
    BY Multiples
  <2>2. row + 1 <= rows /\ row + 1 \in Int
    OBVIOUS
  <2>3. (row + 1) * words <= y /\ y \in Int
    BY <2>2, Multiples
  <2> HIDE DEF x, y
  <2> QED BY <2>1, <2>3
<1> HIDE DEF x, y
<1>3. x + w \in 0..y - 1 /\ x + w + 1 \in 1..y /\ (x + w + 1) - 1 = x + w
  BY <1>1, <1>2
<1> QED BY <1>1, <1>3 DEF x, y

\* The same as a predicate.
Divided(rows, words, row, w) ==
  /\ row * words + w \in 0..rows * words - 1
  /\ (row * words + w) \div words = row /\ (row * words + w) % words = w

LEMMA PlaceDivided ==
  ASSUME NEW rows \in Nat, NEW words \in Nat \ {0}, NEW row \in 0..rows - 1, NEW w \in 0..words - 1
  PROVE  Divided(rows, words, row, w)
<1>1. row * words + w \in 0..rows * words - 1
  BY WordOfRow
<1>2. (row * words + w) \div words = row
  BY WordOfRow
<1>3. (row * words + w) % words = w
  BY WordOfRow
<1> QED BY <1>1, <1>2, <1>3 DEF Divided

\* Every index of a word has its row and place.
LEMMA PlaceOfWord ==
  ASSUME NEW rows \in Nat, NEW words \in Nat \ {0}, NEW i \in 1..rows * words, NEW n \in 0..7
  PROVE  /\ (i - 1) \div words \in 0..rows - 1
         /\ 8 * ((i - 1) % words) + n \in 0..8 * words - 1
<1> DEFINE y == rows * words
           x == i - 1
           q == x \div words
           r == x % words
<1>1. y \in Int /\ x \in Nat /\ x < y
  <2>1. y \in Int
    OBVIOUS
  <2> HIDE DEF y
  <2>2. i \in 1..y
    BY DEF y
  <2> QED BY <2>1, <2>2
<1> HIDE DEF y, x
<1>2. q \in Nat /\ r \in 0..words - 1 /\ q * words <= x
  <2>1. x \in Int /\ q \in Int /\ (x \in Nat => q \in Nat)
    BY <1>1, OneInterval
  <2>2. r \in 0..words - 1
    BY <1>1, Division
  <2>3. q * words <= x
    BY <1>1, <2>1, OneInterval
  <2> QED BY <1>1, <2>1, <2>2, <2>3
<1> HIDE DEF q, r
<1>3. ~(rows <= q)
  <2>1. SUFFICES ASSUME rows <= q PROVE FALSE
    OBVIOUS
  <2>2. rows * words <= q * words /\ q * words \in Int
    BY <1>2, <2>1, Multiples
  <2> QED BY <1>1, <1>2, <2>2 DEF y
<1>4. q \in 0..rows - 1 /\ 8 * r + n \in 0..8 * words - 1
  BY <1>2, <1>3
<1> QED BY <1>4 DEF q, r, x

\* The place of a row's w-th word.
PlaceOf(row, words, w) == row * words + w + 1

\* The values in it.
Held(v, row, w) == [n \in 0..7 |-> v[row][8 * w + n]]

\* What is unpacked from the words for a row and a column.
GivenBack(stored, words, row, col) == WordNibble(stored[PlaceOf(row, words, col \div 8)], col % 8)

\* What a word of a row holds.
LEMMA WordAt ==
  ASSUME NEW rows \in Nat, NEW words \in Nat \ {0}, NEW v, NEW stored, Stores(stored, rows, words, v),
         NEW row \in 0..rows - 1, NEW w \in 0..words - 1
  PROVE  stored[PlaceOf(row, words, w)] = AwqWord(Held(v, row, w))
<1>1. ASSUME NEW i \in 1..rows * words, (i - 1) \div words = row, (i - 1) % words = w
      PROVE  stored[i] = AwqWord([n \in 0..7 |-> v[row][8 * w + n]])
  BY <1>1 DEF Stores
<1>2. row * words + w + 1 \in 1..rows * words
  BY WordOfRow
<1>3. (row * words + w + 1) - 1 = row * words + w
  BY WordOfRow
<1>4. (row * words + w) \div words = row
  BY WordOfRow
<1>5. (row * words + w) % words = w
  BY WordOfRow
<1> DEFINE x == row * words + w
           y == rows * words
<1> HIDE DEF x, y
<1>6. x + 1 \in 1..y /\ ((x + 1) - 1) \div words = row /\ ((x + 1) - 1) % words = w
  BY <1>2, <1>3, <1>4, <1>5 DEF x, y
<1>7. stored[x + 1] = AwqWord([n \in 0..7 |-> v[row][8 * w + n]])
  BY <1>1, <1>6 DEF y
<1> QED BY <1>7 DEF x, PlaceOf, Held

\* The words hold a matrix of values.
HoldsMatrix(stored, rows, words, v) ==
  /\ rows \in Nat /\ words \in Nat \ {0}
  /\ v \in [0..rows - 1 -> [0..8 * words - 1 -> 0..15]]
  /\ Stores(stored, rows, words, v)

\* Words that hold the values of a matrix, eight to a word, give them back.
LEMMA WordsOfMatrix ==
  ASSUME NEW stored, NEW rows, NEW words, NEW v, HoldsMatrix(stored, rows, words, v)
  PROVE  \A row \in 0..rows - 1, col \in 0..8 * words - 1 :
           GivenBack(stored, words, row, col) = v[row][col]
<1>1. /\ rows \in Nat /\ words \in Nat \ {0}
      /\ v \in [0..rows - 1 -> [0..8 * words - 1 -> 0..15]] /\ Stores(stored, rows, words, v)
  BY DEF HoldsMatrix
<1>2. TAKE row \in 0..rows - 1, col \in 0..8 * words - 1
<1> DEFINE w == col \div 8
           n == col % 8
           i == PlaceOf(row, words, w)
           held == Held(v, row, w)
<1>3. w \in 0..words - 1 /\ n \in 0..7 /\ col = 8 * w + n
  BY <1>1
<1> HIDE DEF w, n
<1>4. stored[i] = AwqWord(held)
  BY <1>1, <1>3, WordAt
<1>5. held \in [0..7 -> 0..15]
  <2>1. \A k \in 0..7 : 8 * w + k \in 0..8 * words - 1
    BY <1>1, <1>3
  <2>2. v[row] \in [0..8 * words - 1 -> 0..15]
    BY <1>1
  <2> QED BY <2>1, <2>2 DEF Held
<1>6. held[n] = v[row][col]
  BY <1>3 DEF Held
<1> HIDE DEF held, i
<1>7. WordNibble(AwqWord(held), n) = held[n]
  BY <1>3, <1>5, WordUnpack
<1> QED BY <1>4, <1>6, <1>7 DEF i, w, n, GivenBack

\* unpack_weights gives each weight of a layer of any size the scale and the zero point of
\* its own row and group, and panics exactly if a column's group has no scale.
THEOREM AwqLayerUnpacks ==
  ASSUME NEW layer, NEW G, NEW zw, NEW nibble, NEW zero, AwqHolds(layer, G, zw, nibble, zero)
  PROVE  LET unpacked == AwqUnpack(layer)
             columns == 8 * layer.words
         IN /\ unpacked.ok \in BOOLEAN
            /\ unpacked.ok <=> \A col \in 0..columns - 1 : Group(layer, col) < G
            /\ unpacked.ok => \A row \in 0..layer.rows - 1, col \in 0..columns - 1 :
                 unpacked.weight[row][col] =
                   [q |-> nibble[row][col], scale |-> <<row, Group(layer, col)>>,
                    zero |-> IF zw = 0 THEN 8 ELSE zero[row][Group(layer, col)]]
<1> DEFINE rows == layer.rows
           words == layer.words
           columns == 8 * words
           groups == layer.num_scales \div rows
           g(col) == Group(layer, col)
           Weight(row, col) ==
             LET scale == ScaleIndex(layer, row, g(col))
             IN [q |-> WordNibble(layer.qweight[row * words + col \div 8 + 1], col % 8),
                 zero |-> IF layer.qzeros = <<>> THEN 8
                          ELSE WordNibble(layer.qzeros[ZeroIndex(layer, row, g(col)) + 1], g(col) % 8),
                 scale |-> <<scale \div groups, scale % groups>>]
           fits == \A row \in 0..rows - 1, col \in 0..columns - 1 : InBounds(layer, row, g(col))
           all == [row \in 0..rows - 1 |-> [col \in 0..columns - 1 |-> Weight(row, col)]]
<1>1. AwqUnpack(layer) = IF fits THEN [ok |-> TRUE, weight |-> all] ELSE [ok |-> FALSE]
  BY DEF AwqUnpack, Failed
<1>2. /\ rows \in Nat \ {0} /\ words \in Nat \ {0} /\ G \in Nat \ {0} /\ zw \in Nat
      /\ zw = 0 \/ G <= 8 * zw
      /\ \A col \in 0..columns - 1 : g(col) \in Nat
      /\ nibble \in [0..rows - 1 -> [0..columns - 1 -> 0..15]]
      /\ zero \in [0..rows - 1 -> [0..8 * zw - 1 -> 0..15]]
      /\ layer.num_scales = rows * G
  BY DEF AwqHolds
<1>3. Stores(layer.qweight, rows, words, nibble) /\ Stores(layer.qzeros, rows, zw, zero)
  BY DEF AwqHolds
<1> HIDE DEF rows, words, columns, g
<1>4. groups = G /\ rows * G \in Nat
  <2>1. (G * rows + 0) \div rows = G /\ G * rows \in Nat
    <3>1. 0 \in 0..rows - 1
      BY <1>2
    <3> QED BY <1>2, <3>1, QuotientRemainder
  <2>2. rows * G = G * rows /\ G * rows + 0 = G * rows
    <3> DEFINE p == G * rows
    <3>1. rows * G = p
      BY <1>2
    <3>2. p \in Nat
      BY <2>1
    <3> HIDE DEF p
    <3> QED BY <3>1, <3>2 DEF p
  <2> QED BY <1>2, <2>1, <2>2
<1>5. rows * zw \in Nat /\ Len(layer.qzeros) = rows * zw /\ (layer.qzeros = <<>> <=> zw = 0)
      /\ (zw # 0 => Len(layer.qzeros) \div rows = zw)
  <2> DEFINE n == rows * zw
  <2>1. n \in Nat /\ n = zw * rows
    <3>1. zw * rows \in Nat
      BY <1>2, QuotientRemainder
    <3>2. n = zw * rows
      BY <1>2
    <3> QED BY <3>1, <3>2
  <2>2. n = 0 <=> zw = 0
    <3>1. zw = 0 => n = 0
      BY <1>2
    <3>2. zw # 0 => 1 * rows <= zw * rows
      <4>1. zw # 0 => 1 <= zw
        BY <1>2
      <4> QED BY <1>2, <4>1, Multiples
    <3>3. 1 * rows = rows
      BY <1>2
    <3>4. zw # 0 => rows <= n
      BY <2>1, <3>2, <3>3
    <3> HIDE DEF n
    <3> QED BY <1>2, <2>1, <3>1, <3>4
  <2>3. n \div rows = zw
    <3>1. 0 \in 0..rows - 1
      BY <1>2
    <3>2. (zw * rows + 0) \div rows = zw
      BY <1>2, <3>1, QuotientRemainder
    <3>3. zw * rows + 0 = n
      <4> HIDE DEF n
      <4> QED BY <2>1
    <3> QED BY <3>2, <3>3
  <2> DEFINE qz == layer.qzeros
             Word(i) == AwqWord([k \in 0..7 |-> zero[(i - 1) \div zw][8 * ((i - 1) % zw) + k]])
  <2>4. qz = [i \in 1..n |-> Word(i)]
    BY <1>3 DEF Stores
  <2> HIDE DEF n, qz, Word
  <2>5. Len(qz) = n /\ (qz = <<>> <=> n = 0)
    BY <2>1, <2>4
  <2> QED BY <2>1, <2>2, <2>3, <2>5 DEF n, qz
<1>6. ASSUME NEW row \in 0..rows - 1, NEW c \in Nat, c < G
      PROVE  /\ InBounds(layer, row, c)
             /\ ScaleIndex(layer, row, c) \div groups = row /\ ScaleIndex(layer, row, c) % groups = c
             /\ zw # 0 => c \in 0..8 * zw - 1 /\ ZeroIndex(layer, row, c) = row * zw + (c \div 8)
  <2>1. c \in 0..G - 1
    BY <1>2, <1>6
  <2>2. ScaleIndex(layer, row, c) = row * G + c
    <3> HIDE DEF groups
    <3>1. ScaleIndex(layer, row, c) = row * groups + c
      BY DEF ScaleIndex, groups, rows
    <3> QED BY <1>4, <3>1
  <2>3. /\ row * G + c \in 0..rows * G - 1
        /\ (row * G + c) \div G = row /\ (row * G + c) % G = c
    <3>1. rows \in Nat
      BY <1>2
    <3>2. Divided(rows, G, row, c)
      BY <1>2, <2>1, <3>1, PlaceDivided
    <3> QED BY <3>2 DEF Divided
  <2>4. ASSUME zw # 0
        PROVE  /\ c \in 0..8 * zw - 1 /\ ZeroIndex(layer, row, c) = row * zw + (c \div 8)
               /\ row * zw + (c \div 8) \in 0..rows * zw - 1
    <3>1. c \in 0..8 * zw - 1 /\ c \div 8 \in 0..zw - 1 /\ zw \in Nat \ {0}
      BY <1>2, <2>1, <2>4
    <3>2. ZeroIndex(layer, row, c) = row * zw + (c \div 8)
      BY <1>5, <2>4 DEF ZeroIndex, rows
    <3>3. row * zw + (c \div 8) \in 0..rows * zw - 1
      <4> DEFINE w == c \div 8
      <4>1. w \in 0..zw - 1
        BY <3>1
      <4> HIDE DEF w
      <4>2. row * zw + w \in 0..rows * zw - 1
        BY <1>2, <3>1, <4>1, WordOfRow
      <4> QED BY <4>2 DEF w
    <3> QED BY <3>1, <3>2, <3>3
  <2>5. ScaleIndex(layer, row, c) < layer.num_scales
    <3> DEFINE x == row * G + c
               y == rows * G
    <3>1. x \in 0..y - 1 /\ y \in Nat
      BY <1>4, <2>3
    <3> HIDE DEF x, y
    <3>2. x < y
      BY <3>1
    <3> QED BY <1>2, <2>2, <3>2 DEF x, y
  <2>6. layer.qzeros # <<>> => ZeroIndex(layer, row, c) < Len(layer.qzeros)
    <3> DEFINE x == row * zw + (c \div 8)
               y == rows * zw
    <3>1. zw # 0 => x \in 0..y - 1
      BY <2>4
    <3>2. y \in Nat
      BY <1>5
    <3> HIDE DEF x, y
    <3>3. zw # 0 => x < y
      BY <3>1, <3>2
    <3> QED BY <1>5, <2>4, <3>3 DEF x, y
  <2> HIDE DEF groups
  <2> QED BY <1>4, <2>2, <2>3, <2>4, <2>5, <2>6 DEF InBounds
<1>7. ASSUME NEW c \in Nat, InBounds(layer, rows - 1, c) PROVE c < G
  <2> DEFINE x == (rows - 1) * G
             y == rows * G
  <2>1. ScaleIndex(layer, rows - 1, c) = x + c
    <3> HIDE DEF groups
    <3>1. ScaleIndex(layer, rows - 1, c) = (rows - 1) * groups + c
      BY DEF ScaleIndex, groups, rows
    <3> QED BY <1>4, <3>1
  <2>2. x + c < y
    BY <1>2, <1>7, <2>1 DEF InBounds
  <2>3. y = x + G /\ x \in Int
    <3>1. rows - 1 \in Int /\ (rows - 1) + 1 = rows /\ rows - 1 <= rows - 1
      BY <1>2
    <3>2. ((rows - 1) + 1) * G = (rows - 1) * G + G /\ (rows - 1) * G \in Int
      BY <1>2, <3>1, Multiples
    <3> QED BY <3>1, <3>2
  <2> HIDE DEF x, y
  <2> QED BY <1>2, <2>2, <2>3
<1>8. fits <=> \A col \in 0..columns - 1 : g(col) < G
  <2>1. rows - 1 \in 0..rows - 1
    BY <1>2
  <2>2. ASSUME fits, NEW col \in 0..columns - 1 PROVE g(col) < G
    BY <1>2, <1>7, <2>1, <2>2
  <2>3. ASSUME \A col \in 0..columns - 1 : g(col) < G PROVE fits
    BY <1>2, <1>6, <2>3
  <2> QED BY <2>2, <2>3
<1>9. ASSUME fits, NEW row \in 0..rows - 1, NEW col \in 0..columns - 1
      PROVE  all[row][col] = [q |-> nibble[row][col], scale |-> <<row, g(col)>>,
                              zero |-> IF zw = 0 THEN 8 ELSE zero[row][g(col)]]
  <2> DEFINE c == g(col)
             scale == ScaleIndex(layer, row, c)
             q == WordNibble(layer.qweight[row * words + (col \div 8) + 1], col % 8)
             z == IF layer.qzeros = <<>> THEN 8
                  ELSE WordNibble(layer.qzeros[ZeroIndex(layer, row, c) + 1], c % 8)
  <2>1. all[row][col] = [q |-> q, zero |-> z, scale |-> <<scale \div groups, scale % groups>>]
    OBVIOUS
  <2>2. c \in Nat /\ c < G
    BY <1>2, <1>8, <1>9
  <2>3. q = nibble[row][col]
    <3>1. HoldsMatrix(layer.qweight, rows, words, nibble) /\ col \in 0..8 * words - 1
      BY <1>2, <1>3 DEF columns, HoldsMatrix
    <3> DEFINE qw == layer.qweight
    <3> HIDE DEF qw
    <3>2. GivenBack(qw, words, row, col) = nibble[row][col]
      BY <3>1, WordsOfMatrix DEF qw
    <3> QED BY <3>2 DEF qw, PlaceOf, GivenBack
  <2> HIDE DEF c
  <2>4. z = IF zw = 0 THEN 8 ELSE zero[row][c]
    <3>1. CASE zw = 0
      BY <1>5, <3>1
    <3>2. CASE zw # 0
      <4>1. c \in 0..8 * zw - 1 /\ ZeroIndex(layer, row, c) = row * zw + (c \div 8) /\ zw \in Nat \ {0}
        BY <1>2, <1>6, <2>2, <3>2
      <4>2. WordNibble(layer.qzeros[row * zw + (c \div 8) + 1], c % 8) = zero[row][c]
        <5> DEFINE qz == layer.qzeros
        <5> HIDE DEF qz
        <5>1. HoldsMatrix(qz, rows, zw, zero)
          BY <1>2, <1>3, <4>1 DEF HoldsMatrix, qz
        <5>2. GivenBack(qz, zw, row, c) = zero[row][c]
          BY <4>1, <5>1, WordsOfMatrix
        <5> QED BY <5>2 DEF qz, PlaceOf, GivenBack
      <4>3. layer.qzeros # <<>>
        BY <1>5, <3>2
      <4> QED BY <3>2, <4>1, <4>2, <4>3
    <3> QED BY <3>1, <3>2
  <2>5. scale \div groups = row /\ scale % groups = c
    BY <1>6, <2>2
  <2> HIDE DEF q, z, scale, groups, all
  <2> QED BY <2>1, <2>3, <2>4, <2>5 DEF c
<1> HIDE DEF fits, all
<1> QED BY <1>1, <1>8, <1>9 DEF g, rows, columns, words

\* What unpack_weights made of the call.
UnpackedOK == call.op = "awq" => result \in {NoResult, AwqUnpack(MCAwqLayer)}

\* Whatever the numbers of rows, words, groups and zero points, a layer is unpacked
\* exactly if every group its columns name has a scale, and each weight then has the scale
\* and the zero point of its own row and group.
THEOREM AwqUnpacked == Spec => []AwqOwnGroups
<1>1. ASSUME CallOK, call.op = "awq"
      PROVE  LET unpacked == AwqUnpack(MCAwqLayer)
                 OwnGroup(col) == IF call.group_of = <<>> THEN col \div call.group_size
                                                          ELSE call.group_of[col + 1]
                 columns == 8 * call.words
             IN /\ unpacked.ok <=> \A col \in 0..columns - 1 : OwnGroup(col) < call.num_groups
                /\ unpacked.ok => \A row \in 0..call.rows - 1, col \in 0..columns - 1 :
                     unpacked.weight[row][col] =
                       [q |-> MCNibble(row, col), scale |-> <<row, OwnGroup(col)>>,
                        zero |-> IF call.zero_words = 0 THEN 8 ELSE MCZero(row, OwnGroup(col))]
  <2> DEFINE layer == MCAwqLayer
             rows == call.rows
             words == call.words
             columns == 8 * words
             zw == call.zero_words
             G == call.num_groups
             nibble == [row \in 0..rows - 1 |-> [col \in 0..columns - 1 |-> MCNibble(row, col)]]
             zero == [row \in 0..rows - 1 |-> [k \in 0..8 * zw - 1 |-> MCZero(row, k)]]
             OwnGroup(col) == IF call.group_of = <<>> THEN col \div call.group_size
                                                      ELSE call.group_of[col + 1]
  <2>1. /\ rows \in Nat \ {0} /\ words \in 1..MaxWords /\ words \in Nat \ {0} /\ G \in Nat \ {0} /\ zw \in Nat
        /\ zw = 0 \/ G <= 8 * zw
        /\ call.group_size \in Nat \ {0} /\ MaxWords \in Nat
        /\ call.group_of = <<>> \/ \E k \in 0..MaxGroups : call.group_of = [col \in 1..8 * MaxWords |-> k]
    <3> DEFINE Calls ==
                 [op : {"awq"}, rows : 1..MaxRows, words : 1..MaxWords, num_groups : 1..MaxGroups,
                  zero_words : 0..MaxWords, group_size : GroupSizes,
                  group_of : {<<>>} \cup {[col \in 1..8 * MaxWords |-> k] : k \in 0..MaxGroups}]
    <3>1. call \in Calls /\ (zw = 0 \/ G <= 8 * zw)
      BY <1>1 DEF CallOK, AwqCalls
    <3>2. /\ rows \in 1..MaxRows /\ words \in 1..MaxWords /\ G \in 1..MaxGroups /\ zw \in 0..MaxWords
          /\ call.group_size \in GroupSizes
          /\ call.group_of \in {<<>>} \cup {[col \in 1..8 * MaxWords |-> k] : k \in 0..MaxGroups}
      <4> DEFINE Groupings == {<<>>} \cup {[col \in 1..8 * MaxWords |-> k] : k \in 0..MaxGroups}
      <4> HIDE DEF Groupings
      <4>1. call \in [op : {"awq"}, rows : 1..MaxRows, words : 1..MaxWords, num_groups : 1..MaxGroups,
                      zero_words : 0..MaxWords, group_size : GroupSizes, group_of : Groupings]
        BY <3>1 DEF Groupings
      <4>2. call.group_of \in Groupings
        BY <4>1
      <4> QED BY <4>1, <4>2 DEF Groupings
    <3> HIDE DEF Calls, rows, words, zw, G
    <3>3. MaxRows \in Nat /\ MaxWords \in Nat /\ MaxGroups \in Nat
      BY ModelCodeAssumption
    <3>4. call.group_size \in Nat \ {0}
      BY <3>2, ModelCodeAssumption
    <3>6. rows \in Nat \ {0} /\ words \in Nat \ {0}
      BY ONLY <3>2, <3>3
    <3>7. G \in Nat \ {0} /\ zw \in Nat
      BY ONLY <3>2, <3>3
    <3>5. call.group_of = <<>> \/ \E k \in 0..MaxGroups : call.group_of = [col \in 1..8 * MaxWords |-> k]
      BY <3>2
    <3> QED BY <3>1, <3>2, <3>3, <3>4, <3>5, <3>6, <3>7
  <2>2. /\ layer.rows = rows /\ layer.words = words /\ layer.group_size = call.group_size
        /\ layer.g_idx = call.group_of
        /\ layer.qweight = [i \in 1..rows * words |->
                  AwqWord([n \in 0..7 |-> MCNibble((i - 1) \div words, 8 * ((i - 1) % words) + n)])]
        /\ layer.qzeros = [i \in 1..rows * zw |->
                  AwqWord([n \in 0..7 |-> MCZero((i - 1) \div zw, 8 * ((i - 1) % zw) + n)])]
        /\ layer.num_scales = rows * G
    BY DEF MCAwqLayer
  <2> HIDE DEF layer, rows, words, zw, G
  <2>3. \A col : Group(layer, col) = OwnGroup(col)
    BY <2>2 DEF Group
  <2>4. \A col \in 0..columns - 1 : Group(layer, col) \in Nat
    <3>1. \A col \in 0..columns - 1 : col \in Nat /\ col + 1 \in 1..8 * MaxWords
      BY <2>1
    <3>2. \A col \in 0..columns - 1 : col \div call.group_size \in Nat
      BY <2>1, <3>1, OneInterval
    <3>3. MaxGroups \in Nat
      BY ModelCodeAssumption
    <3>4. CASE call.group_of = <<>>
      BY <2>3, <3>2, <3>4
    <3>5. CASE call.group_of # <<>>
      BY <2>1, <2>3, <3>1, <3>3, <3>5
    <3> QED BY <3>4, <3>5
  <2>5. nibble \in [0..rows - 1 -> [0..columns - 1 -> 0..15]]
    <3>1. \A row \in 0..rows - 1, col \in 0..columns - 1 : MCNibble(row, col) \in 0..15
      <4>1. \A row, col \in Int : MCNibble(row, col) \in 0..15
        BY DEF MCNibble
      <4> QED BY <4>1
    <3> HIDE DEF columns
    <3> QED BY <3>1
  <2>6. zero \in [0..rows - 1 -> [0..8 * zw - 1 -> 0..15]]
    <3>1. \A row \in 0..rows - 1, k \in 0..8 * zw - 1 : MCZero(row, k) \in 0..15
      <4>1. \A row, k \in Int : MCZero(row, k) \in 0..15
        BY DEF MCZero
      <4> QED BY <4>1
    <3> QED BY <3>1
  <2>7. Stores(layer.qweight, rows, words, nibble)
    <3>1. ASSUME NEW i \in 1..rows * words, NEW n \in 0..7
          PROVE  nibble[(i - 1) \div words][8 * ((i - 1) % words) + n]
                   = MCNibble((i - 1) \div words, 8 * ((i - 1) % words) + n)
      <4> DEFINE row == (i - 1) \div words
                 col == 8 * ((i - 1) % words) + n
      <4>1. row \in 0..rows - 1 /\ col \in 0..columns - 1
        BY <2>1, PlaceOfWord
      <4> HIDE DEF row, col, columns
      <4>2. nibble[row][col] = MCNibble(row, col)
        BY <4>1
      <4> QED BY <4>2 DEF row, col
    <3>2. ASSUME NEW i \in 1..rows * words
          PROVE  [n \in 0..7 |-> nibble[(i - 1) \div words][8 * ((i - 1) % words) + n]]
                   = [n \in 0..7 |-> MCNibble((i - 1) \div words, 8 * ((i - 1) % words) + n)]
      BY <3>1
    <3> HIDE DEF nibble
    <3> QED BY <2>2, <3>2 DEF Stores
  <2>8. Stores(layer.qzeros, rows, zw, zero)
    <3>1. ASSUME NEW i \in 1..rows * zw, NEW n \in 0..7
          PROVE  zero[(i - 1) \div zw][8 * ((i - 1) % zw) + n]
                   = MCZero((i - 1) \div zw, 8 * ((i - 1) % zw) + n)
      <4> DEFINE row == (i - 1) \div zw
                 col == 8 * ((i - 1) % zw) + n
      <4>1. zw \in Nat \ {0}
        BY <2>1
      <4>2. row \in 0..rows - 1 /\ col \in 0..8 * zw - 1
        BY <2>1, <4>1, PlaceOfWord
      <4> HIDE DEF row, col
      <4>3. zero[row][col] = MCZero(row, col)
        BY <4>2
      <4> QED BY <4>3 DEF row, col
    <3>2. ASSUME NEW i \in 1..rows * zw
          PROVE  [n \in 0..7 |-> zero[(i - 1) \div zw][8 * ((i - 1) % zw) + n]]
                   = [n \in 0..7 |-> MCZero((i - 1) \div zw, 8 * ((i - 1) % zw) + n)]
      BY <3>1
    <3> HIDE DEF zero
    <3> QED BY <2>2, <3>2 DEF Stores
  <2> HIDE DEF OwnGroup
  <2>9. AwqHolds(layer, G, zw, nibble, zero)
    <3> HIDE DEF nibble, zero
    <3> QED BY <2>1, <2>2, <2>4, <2>5, <2>6, <2>7, <2>8 DEF AwqHolds
  <2> DEFINE unpacked == AwqUnpack(layer)
  <2>10. /\ unpacked.ok <=> \A col \in 0..columns - 1 : Group(layer, col) < G
         /\ unpacked.ok => \A row \in 0..rows - 1, col \in 0..columns - 1 :
              unpacked.weight[row][col] =
                [q |-> nibble[row][col], scale |-> <<row, Group(layer, col)>>,
                 zero |-> IF zw = 0 THEN 8 ELSE zero[row][Group(layer, col)]]
    <3> HIDE DEF nibble, zero
    <3> QED BY <2>2, <2>9, AwqLayerUnpacks
  <2> HIDE DEF unpacked
  <2>11. ASSUME unpacked.ok, NEW row \in 0..rows - 1, NEW col \in 0..columns - 1
         PROVE  unpacked.weight[row][col] =
                  [q |-> MCNibble(row, col), scale |-> <<row, OwnGroup(col)>>,
                   zero |-> IF zw = 0 THEN 8 ELSE MCZero(row, OwnGroup(col))]
    <3>1. nibble[row][col] = MCNibble(row, col)
      OBVIOUS
    <3>2. zw # 0 => zero[row][OwnGroup(col)] = MCZero(row, OwnGroup(col))
      <4>1. OwnGroup(col) \in Nat /\ OwnGroup(col) < G
        BY <2>3, <2>4, <2>10, <2>11
      <4>2. zw # 0 => OwnGroup(col) \in 0..8 * zw - 1
        BY <2>1, <4>1
      <4> QED BY <4>2
    <3> HIDE DEF nibble, zero
    <3> QED BY <2>3, <2>10, <2>11, <3>1, <3>2
  <2> QED BY <2>3, <2>10, <2>11 DEF unpacked, layer, rows, words, zw, G, OwnGroup
<1>2. CallOK /\ UnpackedOK => AwqOwnGroups
  BY <1>1 DEF UnpackedOK, AwqOwnGroups
<1>3. Init => CallOK /\ UnpackedOK
  BY CallsStart DEF Init, UnpackedOK
<1>4. ASSUME CallOK, UnpackedOK, [Next]_<<call, result>>
      PROVE  CallOK' /\ UnpackedOK'
  <2>1. CallOK' /\ UNCHANGED call
    BY <1>4, CallsKept
  <2>2. MCAwqLayer' = MCAwqLayer
    BY <2>1 DEF MCAwqLayer
  <2>3. CASE UNCHANGED result
    BY <1>4, <2>1, <2>2, <2>3 DEF UnpackedOK
  <2>4. CASE Next /\ call.op # "awq"
    BY <2>1, <2>4 DEF UnpackedOK
  <2>5. CASE Next /\ call.op = "awq"
    BY <2>1, <2>2, <2>5, StepOfCall DEF UnpackedOK, UnpackAwqLayer
  <2> QED BY <1>4, <2>1, <2>3, <2>4, <2>5
<1> QED BY <1>2, <1>3, <1>4, PTL DEF Spec
==============================================================================
