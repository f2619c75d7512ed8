------------------------- MODULE BlockManagerProofs -------------------------
(***************************************************************************)
(* Proofs about BlockManager, for every pool size, block size, set of      *)
(* prompts and set of request ids.                                         *)
(***************************************************************************)
EXTENDS BlockManager, FiniteSetTheorems, FunctionTheorems, SequenceTheorems,
        WellFoundedInduction, TLAPS

USE BlockManagerAssumption

-----------------------------------------------------------------------------
(* Counting                                                                *)

\* The places of a sequence that hold b are finite in number.
LEMMA OccurrencesType ==
  ASSUME NEW S, NEW s \in Seq(S), NEW b
  PROVE  /\ IsFiniteSet({i \in DOMAIN s : s[i] = b})
         /\ Occurrences(s, b) \in Nat
         /\ Occurrences(s, b) = 0 => \A i \in DOMAIN s : s[i] # b
<1>1. IsFiniteSet(DOMAIN s)
  BY FS_Interval, LenProperties
<1>2. IsFiniteSet({i \in DOMAIN s : s[i] = b})
  BY <1>1, FS_Subset
<1> QED
  BY <1>2, FS_CardinalityType, FS_EmptySet DEF Occurrences

\* Pairing every member of a set with one value does not change its size.
LEMMA TaggedCardinality ==
  ASSUME NEW S, IsFiniteSet(S), NEW x
  PROVE  IsFiniteSet({x} \X S) /\ Cardinality({x} \X S) = Cardinality(S)
<1>1. IsFiniteSet({x}) /\ Cardinality({x}) = 1
  BY FS_Singleton
<1>2. IsFiniteSet({x} \X S) /\ Cardinality({x} \X S) = 1 * Cardinality(S)
  BY <1>1, FS_Product
<1> QED
  BY <1>2, FS_CardinalityType

\* Disjoint finite sets add up.
LEMMA DisjointUnion ==
  ASSUME NEW S, NEW T, IsFiniteSet(S), IsFiniteSet(T), S \cap T = {}
  PROVE  /\ IsFiniteSet(S \cup T)
         /\ Cardinality(S \cup T) = Cardinality(S) + Cardinality(T)
<1>1. /\ IsFiniteSet(S \cup T)
      /\ Cardinality(S \cup T) = Cardinality(S) + Cardinality(T) - Cardinality(S \cap T)
  BY FS_Union, Zenon
<1>2. Cardinality(S \cap T) = 0
  BY FS_EmptySet
<1>3. Cardinality(S) \in Nat /\ Cardinality(T) \in Nat
  BY FS_CardinalityType
<1> QED BY <1>1, <1>2, <1>3

-----------------------------------------------------------------------------
(* Prefixes                                                                *)

LEMMA PrefixTransitive ==
  ASSUME NEW S, NEW s \in Seq(S), NEW t \in Seq(S), NEW u \in Seq(S),
         IsPrefix(s, t), IsPrefix(t, u)
  PROVE  IsPrefix(s, u)
<1>1. /\ Len(s) \in Nat /\ Len(t) \in Nat /\ Len(u) \in Nat
      /\ Len(s) <= Len(t) /\ Len(t) <= Len(u)
  BY LenProperties DEF IsPrefix
<1>2. \A i \in 1..Len(s) : s[i] = t[i]
  <2>1. \A i \in 1..Len(s) : SubSeq(s, 1, Len(s))[i] = s[i] /\ SubSeq(t, 1, Len(s))[i] = t[i]
    BY <1>1
  <2> QED BY <2>1 DEF IsPrefix
<1>3. \A i \in 1..Len(t) : t[i] = u[i]
  <2>1. \A i \in 1..Len(t) : SubSeq(t, 1, Len(t))[i] = t[i] /\ SubSeq(u, 1, Len(t))[i] = u[i]
    BY <1>1
  <2> QED BY <2>1 DEF IsPrefix
<1>4. SubSeq(s, 1, Len(s)) = SubSeq(u, 1, Len(s))
  BY <1>1, <1>2, <1>3
<1> QED BY <1>1, <1>4 DEF IsPrefix

LEMMA PrefixOfConcat ==
  ASSUME NEW S, NEW s \in Seq(S), NEW t \in Seq(S)
  PROVE  IsPrefix(s, s \o t)
<1>1. Len(s) <= Len(s \o t)
  BY LenProperties, ConcatProperties
<1>2. SubSeq(s, 1, Len(s)) = SubSeq(s \o t, 1, Len(s))
  BY LenProperties
<1> QED BY <1>1, <1>2 DEF IsPrefix

-----------------------------------------------------------------------------
(* The cache                                                               *)

\* Every block a prefix hit on q would report is listed by a node that is
\* still cached: q or one of its ancestors.
PathsCovered(nodes) ==
  \A q \in DOMAIN nodes : \A i \in DOMAIN nodes[q].path_blocks :
    \E p \in DOMAIN nodes :
      /\ IsPrefix(p, q)
      /\ \E j \in DOMAIN nodes[p].block_ids : nodes[p].block_ids[j] = nodes[q].path_blocks[i]

\* What the cache lemmas need of a cache and preserve.
CacheOK(c) ==
  /\ IsFiniteSet(DOMAIN c.nodes)
  /\ DOMAIN c.nodes \subseteq Seq(Token) \ {Root}
  /\ \A q \in DOMAIN c.nodes : /\ c.nodes[q].block_ids \in Seq(Block)
                               /\ c.nodes[q].path_blocks \in Seq(Block)
  /\ IsFiniteSet(Slots(c.nodes, DOMAIN c.nodes))
  /\ c.num_cached_blocks = Cardinality(Slots(c.nodes, DOMAIN c.nodes))
  /\ PathsCovered(c.nodes)

LEMMA HoldersFinite ==
  ASSUME NEW c, CacheOK(c), NEW b
  PROVE  IsFiniteSet(NodeHolders(c.nodes, b)) /\ Cardinality(NodeHolders(c.nodes, b)) \in Nat
<1>1. NodeHolders(c.nodes, b) \in SUBSET Slots(c.nodes, DOMAIN c.nodes)
  BY DEF NodeHolders
<1>2. IsFiniteSet(NodeHolders(c.nodes, b))
  BY <1>1, FS_Subset DEF CacheOK
<1> QED BY <1>2, FS_CardinalityType

LEMMA SlotsDef ==
  ASSUME NEW nodes, NEW E, NEW p
  PROVE  p \in Slots(nodes, E) <=>
           \E q \in E : \E i \in DOMAIN nodes[q].block_ids : p = <<q, i>>
BY DEF Slots

\* A run of evictions is a sequence of nodes without repetition.
LEMMA EvictionRunSeq ==
  ASSUME NEW c, CacheOK(c), NEW es \in EvictionRuns(c)
  PROVE  es \in Seq(DOMAIN c.nodes) /\ \A i, j \in DOMAIN es : i # j => es[i] # es[j]
<1>1. PICK s \in SUBSET DOMAIN c.nodes : es \in SetToSeqs(s)
  BY DEF EvictionRuns, SetToAllKPermutations
<1>2. Cardinality(s) \in Nat
  BY FS_Subset, FS_CardinalityType DEF CacheOK
<1>3. es \in [1..Cardinality(s) -> s]
  BY <1>1 DEF SetToSeqs
<1>4. es \in Seq(DOMAIN c.nodes)
  BY <1>2, <1>3
<1> QED BY <1>1, <1>3, <1>4 DEF SetToSeqs

\* What evict_lru leaves is again a well-formed cache within its capacity, and
\* every place that has gone from it is in the lists the call returns.
LEMMA AfterEvictionOK ==
  ASSUME NEW c, CacheOK(c), NEW es \in EvictionRuns(c)
  PROVE  LET e == AfterEviction(c, es)
         IN /\ CacheOK(e)
            /\ e.num_cached_blocks <= num_gpu_blocks \div 3
            /\ \A b : LET P == PlacesOf(EvictedLists(c, es), b)
                      IN /\ IsFiniteSet(P)
                         /\ Cardinality(P) \in Nat
                         /\ Cardinality(NodeHolders(c.nodes, b))
                              = Cardinality(NodeHolders(e.nodes, b)) + Cardinality(P)
<1> DEFINE D == DOMAIN c.nodes
           E == {es[j] : j \in 1..Len(es)}
           R == Remaining(D, es, Len(es))
           e == AfterEviction(c, es)
<1>1. es \in Seq(D) /\ \A i, j \in DOMAIN es : i # j => es[i] # es[j]
  BY EvictionRunSeq
<1>2. Len(es) \in Nat /\ DOMAIN es = 1..Len(es) /\ E \subseteq D /\ R = D \ E /\ E = {es[j] : j \in DOMAIN es}
  BY <1>1, LenProperties DEF Remaining
<1>3. ASSUME NEW x \in E, NEW y \in R
      PROVE  ~IsStrictPrefix(x, y)
  <2>1. PICK k \in DOMAIN es : x = es[k]
    BY <1>2
  <2>2. FoundLeaf(Remaining(D, es, k - 1), c.older, x)
    BY <2>1 DEF EvictionRuns
  <2>3. y \in Remaining(D, es, k - 1)
    BY <1>2, <2>1 DEF Remaining
  <2> QED BY <2>2, <2>3 DEF FoundLeaf, IsLeaf
<1>4. /\ e.nodes = [q \in R |-> c.nodes[q]]
      /\ DOMAIN e.nodes = R
      /\ \A q \in R : e.nodes[q] = c.nodes[q]
      /\ e.num_cached_blocks = c.num_cached_blocks - Cardinality(Slots(c.nodes, E))
  BY DEF AfterEviction, BlocksLeft
<1>5. PathsCovered(e.nodes)
  <2> SUFFICES ASSUME NEW q \in R, NEW i \in DOMAIN c.nodes[q].path_blocks
               PROVE  \E p \in R : /\ IsPrefix(p, q)
                                   /\ \E j \in DOMAIN c.nodes[p].block_ids :
                                        c.nodes[p].block_ids[j] = c.nodes[q].path_blocks[i]
    BY <1>4 DEF PathsCovered
  <2>1. PICK p \in D : /\ IsPrefix(p, q)
                       /\ \E j \in DOMAIN c.nodes[p].block_ids :
                            c.nodes[p].block_ids[j] = c.nodes[q].path_blocks[i]
    BY <1>2 DEF CacheOK, PathsCovered
  <2>2. p \notin E
    <3>1. CASE p = q
      BY <3>1, <1>2
    <3>2. CASE p # q
      BY <3>2, <2>1, <1>3 DEF IsStrictPrefix
    <3> QED BY <3>1, <3>2
  <2> QED BY <2>1, <2>2, <1>2
<1>6. /\ Slots(e.nodes, R) = Slots(c.nodes, D) \ Slots(c.nodes, E)
      /\ Slots(c.nodes, E) \in SUBSET Slots(c.nodes, D)
  <2>1. \A p : p \in Slots(e.nodes, R) <=> p \in Slots(c.nodes, D) /\ p \notin Slots(c.nodes, E)
    BY SlotsDef, <1>2, <1>4
  <2>2. \A p : p \in Slots(c.nodes, E) => p \in Slots(c.nodes, D)
    BY SlotsDef, <1>2
  <2> QED BY <2>1, <2>2
<1>7. /\ IsFiniteSet(Slots(c.nodes, E)) /\ IsFiniteSet(Slots(e.nodes, R))
      /\ Cardinality(Slots(c.nodes, E)) \in Nat
      /\ Cardinality(Slots(e.nodes, R)) \in Nat
      /\ Cardinality(Slots(e.nodes, R)) = Cardinality(Slots(c.nodes, D)) - Cardinality(Slots(c.nodes, E))
  <2>1. IsFiniteSet(Slots(c.nodes, E))
    BY <1>6, FS_Subset DEF CacheOK
  <2>2. /\ IsFiniteSet(Slots(e.nodes, R))
        /\ Cardinality(Slots(e.nodes, R))
             = Cardinality(Slots(c.nodes, D)) - Cardinality(Slots(c.nodes, D) \cap Slots(c.nodes, E))
    <3>1. IsFiniteSet(Slots(c.nodes, D))
      BY DEF CacheOK
    <3>2. /\ IsFiniteSet(Slots(c.nodes, D) \ Slots(c.nodes, E))
          /\ Cardinality(Slots(c.nodes, D) \ Slots(c.nodes, E))
               = Cardinality(Slots(c.nodes, D)) - Cardinality(Slots(c.nodes, D) \cap Slots(c.nodes, E))
      BY <3>1, FS_Difference, Zenon
    <3> QED BY <3>2, <1>6
  <2>3. Slots(c.nodes, D) \cap Slots(c.nodes, E) = Slots(c.nodes, E)
    BY <1>6
  <2> QED BY <2>1, <2>2, <2>3, FS_CardinalityType
<1>8. CacheOK(e)
  <2>1. IsFiniteSet(R)
    BY <1>2, FS_Subset DEF CacheOK
  <2>2. /\ R \subseteq Seq(Token) \ {Root}
        /\ \A q \in R : e.nodes[q].block_ids \in Seq(Block) /\ e.nodes[q].path_blocks \in Seq(Block)
    BY <1>2, <1>4 DEF CacheOK
  <2>3. e.num_cached_blocks = Cardinality(Slots(e.nodes, R))
    BY <1>4, <1>7 DEF CacheOK
  <2> QED BY <1>4, <1>5, <1>7, <2>1, <2>2, <2>3 DEF CacheOK
<1>9. e.num_cached_blocks <= num_gpu_blocks \div 3
  <2>1. CASE BlocksLeft(c, es, Len(es)) <= num_gpu_blocks \div 3
    BY <2>1, <1>4 DEF BlocksLeft
  <2>2. CASE R = {}
    <3>1. Slots(e.nodes, R) = {}
      BY <2>2 DEF Slots
    <3>2. e.num_cached_blocks = 0
      BY <3>1, <1>8, <1>4, FS_EmptySet DEF CacheOK
    <3> QED BY <3>2
  <2> QED BY <2>1, <2>2 DEF EvictionRuns
<1>10. ASSUME NEW b
       PROVE  LET P == PlacesOf(EvictedLists(c, es), b)
              IN /\ IsFiniteSet(P)
                 /\ Cardinality(P) \in Nat
                 /\ Cardinality(NodeHolders(c.nodes, b))
                      = Cardinality(NodeHolders(e.nodes, b)) + Cardinality(P)
  <2> DEFINE P == PlacesOf(EvictedLists(c, es), b)
             H == NodeHolders(c.nodes, b)
             G == {p \in H : p[1] \in E}
             f == [p \in P |-> <<es[p[1]], p[2]>>]
  <2>1. \A p : p \in P <=> \E k \in DOMAIN es : \E i \in DOMAIN c.nodes[es[k]].block_ids :
                             p = <<k, i>> /\ c.nodes[es[k]].block_ids[i] = b
    BY DEF PlacesOf, Places, EvictedLists
  <2>2. \A p : p \in H <=> \E q \in D : \E i \in DOMAIN c.nodes[q].block_ids :
                             p = <<q, i>> /\ c.nodes[q].block_ids[i] = b
    BY SlotsDef DEF NodeHolders
  <2>3. \A p : p \in NodeHolders(e.nodes, b) <=>
                 \E q \in R : \E i \in DOMAIN c.nodes[q].block_ids :
                             p = <<q, i>> /\ c.nodes[q].block_ids[i] = b
    BY SlotsDef, <1>4 DEF NodeHolders
  <2>4. ExistsBijection(P, G)
    <3>1. f \in [P -> G]
      BY <2>1, <2>2, <1>1, <1>2
    <3>2. ASSUME NEW p \in P, NEW q \in P, f[p] = f[q]
          PROVE  p = q
      BY <3>2, <2>1, <1>1
    <3>3. ASSUME NEW g \in G
          PROVE  \E p \in P : f[p] = g
      <4>1. PICK q \in E : \E i \in DOMAIN c.nodes[q].block_ids :
                   g = <<q, i>> /\ c.nodes[q].block_ids[i] = b
        BY <2>2
      <4> PICK i \in DOMAIN c.nodes[q].block_ids : g = <<q, i>> /\ c.nodes[q].block_ids[i] = b
        BY <4>1
      <4>2. PICK k \in DOMAIN es : q = es[k]
        BY <1>2
      <4>3. <<k, i>> \in P
        BY <4>2, <2>1
      <4> QED BY <4>2, <4>3
    <3>4. f \in Bijection(P, G)
      BY <3>1, <3>2, <3>3 DEF Bijection, Injection, IsInjective, Surjection
    <3> QED BY <3>4 DEF ExistsBijection
  <2>5. IsFiniteSet(H) /\ IsFiniteSet(G)
    BY HoldersFinite, FS_Subset
  <2>6. IsFiniteSet(P) /\ Cardinality(P) = Cardinality(G)
    BY <2>4, <2>5, Fun_ExistsBijSymmetric, FS_Bijection
  <2>7. IsFiniteSet(NodeHolders(e.nodes, b))
    BY <1>8, HoldersFinite
  <2>8. H = NodeHolders(e.nodes, b) \cup G /\ NodeHolders(e.nodes, b) \cap G = {}
    BY <2>2, <2>3, <1>2
  <2> QED BY <2>5, <2>6, <2>7, <2>8, DisjointUnion, FS_CardinalityType
<1> QED BY <1>8, <1>9, <1>10

\* Hanging a node below a adds its places and nothing else.
LEMMA AddNodeOK ==
  ASSUME NEW c, CacheOK(c),
         NEW tokens \in Seq(Token), NEW blocks \in Seq(Block),
         NEW a \in VacantAt(DOMAIN c.nodes, tokens)
  PROVE  LET g == AddNode(c, a, tokens, blocks)
         IN /\ CacheOK(g)
            /\ \A b : Cardinality(NodeHolders(g.nodes, b))
                        = Cardinality(NodeHolders(c.nodes, b)) + Occurrences(blocks, b)
<1> DEFINE D == DOMAIN c.nodes
           rest == SubSeq(tokens, Len(a) + 1, Len(tokens))
           new == a \o rest
           path == PathBlocks(c.nodes, a) \o blocks
           g == AddNode(c, a, tokens, blocks)
<1>1. /\ a \in Seq(Token) /\ (a = Root \/ a \in D)
      /\ Len(a) \in Nat /\ Len(tokens) \in Nat /\ Len(a) < Len(tokens)
      /\ \A y \in D : IsStrictPrefix(a, y) => y[Len(a) + 1] # tokens[Len(a) + 1]
  <2>1. a \in D \cup {Root} /\ D \subseteq Seq(Token)
    BY DEF VacantAt, CacheOK
  <2>2. a \in Seq(Token)
    BY <2>1, EmptySeq DEF Root
  <2> QED BY <2>1, <2>2, LenProperties DEF VacantAt
<1>2. /\ rest \in Seq(Token) /\ Len(rest) = Len(tokens) - Len(a)
      /\ rest[1] = tokens[Len(a) + 1]
  BY <1>1
<1>3. /\ new \in Seq(Token) /\ Len(new) = Len(tokens)
      /\ new[Len(a) + 1] = tokens[Len(a) + 1]
      /\ new # Root /\ new # a
  BY <1>1, <1>2 DEF Root
<1>4. IsStrictPrefix(a, new)
  BY <1>1, <1>2, <1>3, PrefixOfConcat DEF IsStrictPrefix
<1>5. new \notin D
  BY <1>1, <1>3, <1>4
<1>6. /\ DOMAIN g.nodes = D \cup {new}
      /\ g.nodes[new].block_ids = blocks /\ g.nodes[new].path_blocks = path
      /\ \A q \in D : g.nodes[q] = c.nodes[q]
      /\ g.num_cached_blocks = c.num_cached_blocks + Len(blocks)
  BY <1>5 DEF AddNode
<1>7. PathBlocks(c.nodes, a) \in Seq(Block) /\ path \in Seq(Block)
  BY <1>1 DEF PathBlocks, CacheOK
<1> HIDE DEF rest, new, path, g
<1>8. PathsCovered(g.nodes)
  <2>1. ASSUME NEW q \in D, NEW i \in DOMAIN g.nodes[q].path_blocks
        PROVE  \E p \in DOMAIN g.nodes :
                 /\ IsPrefix(p, q)
                 /\ \E j \in DOMAIN g.nodes[p].block_ids :
                      g.nodes[p].block_ids[j] = g.nodes[q].path_blocks[i]
    <3>1. PICK p \in D : /\ IsPrefix(p, q)
                         /\ \E j \in DOMAIN c.nodes[p].block_ids :
                              c.nodes[p].block_ids[j] = c.nodes[q].path_blocks[i]
      BY <1>6 DEF CacheOK, PathsCovered
    <3> QED BY <3>1, <1>6
  <2>2. ASSUME NEW i \in DOMAIN path
        PROVE  \E p \in DOMAIN g.nodes :
                 /\ IsPrefix(p, new)
                 /\ \E j \in DOMAIN g.nodes[p].block_ids :
                      g.nodes[p].block_ids[j] = path[i]
    <3> DEFINE up == PathBlocks(c.nodes, a)
    <3>0. path = up \o blocks /\ up \in Seq(Block)
      BY <1>7 DEF path
    <3> HIDE DEF up
    <3>1. Len(up) \in Nat /\ Len(blocks) \in Nat /\ i \in 1..Len(up) + Len(blocks)
      BY <3>0
    <3>2. CASE i <= Len(up)
      <4>1. path[i] = up[i] /\ i \in DOMAIN up
        BY <3>0, <3>1, <3>2
      <4>2. a # Root
        BY <4>1 DEF PathBlocks, up
      <4>3. a \in D /\ up = c.nodes[a].path_blocks
        BY <4>2, <1>1 DEF PathBlocks, up
      <4>4. PICK p \in D : /\ IsPrefix(p, a)
                           /\ \E j \in DOMAIN c.nodes[p].block_ids :
                                c.nodes[p].block_ids[j] = up[i]
        <5>1. PathsCovered(c.nodes)
          BY DEF CacheOK
        <5>2. i \in DOMAIN c.nodes[a].path_blocks /\ c.nodes[a].path_blocks[i] = up[i]
          BY <4>1, <4>3
        <5> QED BY <4>3, <5>1, <5>2 DEF PathsCovered
      <4>5. IsPrefix(p, new)
        BY <4>4, <1>1, <1>3, <1>4, PrefixTransitive DEF IsStrictPrefix, CacheOK
      <4> QED BY <4>1, <4>4, <4>5, <1>6
    <3>3. CASE i > Len(up)
      <4>1. path[i] = blocks[i - Len(up)] /\ i - Len(up) \in DOMAIN blocks
        BY <3>0, <3>1, <3>3
      <4>2. IsPrefix(new, new)
        BY DEF IsPrefix
      <4> QED BY <4>1, <4>2, <1>6
    <3> QED BY <3>1, <3>2, <3>3
  <2> QED BY <2>1, <2>2, <1>6 DEF PathsCovered
<1>9. /\ Slots(g.nodes, D \cup {new}) = Slots(c.nodes, D) \cup ({new} \X DOMAIN blocks)
      /\ Slots(c.nodes, D) \cap ({new} \X DOMAIN blocks) = {}
  <2>1. \A p : p \in Slots(g.nodes, D \cup {new}) <=>
                 p \in Slots(c.nodes, D) \/ p \in {new} \X DOMAIN blocks
    BY SlotsDef, <1>5, <1>6
  <2>2. \A p : p \in Slots(c.nodes, D) => p \notin {new} \X DOMAIN blocks
    BY SlotsDef, <1>5
  <2> QED BY <2>1, <2>2
<1>10. IsFiniteSet({new} \X DOMAIN blocks) /\ Cardinality({new} \X DOMAIN blocks) = Len(blocks)
  <2>1. Len(blocks) \in Nat /\ DOMAIN blocks = 1..Len(blocks)
    BY LenProperties
  <2>2. IsFiniteSet(DOMAIN blocks) /\ Cardinality(DOMAIN blocks) = Len(blocks)
    <3>1. \A n \in Nat : IsFiniteSet(1..n) /\ Cardinality(1..n) = n
      BY FS_Interval
    <3> QED BY <3>1, <2>1
  <2> QED BY <2>2, TaggedCardinality
<1>11. CacheOK(g)
  <2>1. IsFiniteSet(Slots(c.nodes, D)) /\ c.num_cached_blocks = Cardinality(Slots(c.nodes, D))
    BY DEF CacheOK
  <2>2. /\ IsFiniteSet(Slots(g.nodes, DOMAIN g.nodes))
        /\ Cardinality(Slots(g.nodes, DOMAIN g.nodes)) = Cardinality(Slots(c.nodes, D)) + Len(blocks)
    <3>1. /\ IsFiniteSet(Slots(c.nodes, D) \cup ({new} \X DOMAIN blocks))
          /\ Cardinality(Slots(c.nodes, D) \cup ({new} \X DOMAIN blocks))
               = Cardinality(Slots(c.nodes, D)) + Cardinality({new} \X DOMAIN blocks)
      BY <2>1, <1>9, <1>10, DisjointUnion, Zenon
    <3>2. DOMAIN g.nodes = D \cup {new}
      BY <1>6
    <3> QED BY <3>1, <3>2, <1>9, <1>10, Zenon
  <2>3. IsFiniteSet(DOMAIN g.nodes)
    <3>1. IsFiniteSet(D \cup {new})
      BY FS_AddElement DEF CacheOK
    <3> QED BY <3>1, <1>6
  <2>4. /\ DOMAIN g.nodes \subseteq Seq(Token) \ {Root}
        /\ \A q \in DOMAIN g.nodes : /\ g.nodes[q].block_ids \in Seq(Block)
                                     /\ g.nodes[q].path_blocks \in Seq(Block)
    BY <1>3, <1>6, <1>7 DEF CacheOK
  <2> QED BY <2>1, <2>2, <2>3, <2>4, <1>6, <1>8 DEF CacheOK
<1>12. ASSUME NEW b
       PROVE  Cardinality(NodeHolders(g.nodes, b))
                = Cardinality(NodeHolders(c.nodes, b)) + Occurrences(blocks, b)
  <2> DEFINE I == {i \in DOMAIN blocks : blocks[i] = b}
             H == NodeHolders(c.nodes, b)
  <2>1. IsFiniteSet(I) /\ Occurrences(blocks, b) = Cardinality(I)
    BY OccurrencesType DEF Occurrences
  <2>2. IsFiniteSet({new} \X I) /\ Cardinality({new} \X I) = Cardinality(I)
    BY <2>1, TaggedCardinality
  <2>3. \A p : p \in H <=> \E q \in D : \E i \in DOMAIN c.nodes[q].block_ids :
                             p = <<q, i>> /\ c.nodes[q].block_ids[i] = b
    BY SlotsDef DEF NodeHolders
  <2>4. \A p : p \in NodeHolders(g.nodes, b) <=>
                 \E q \in D \cup {new} : \E i \in DOMAIN g.nodes[q].block_ids :
                             p = <<q, i>> /\ g.nodes[q].block_ids[i] = b
    BY SlotsDef, <1>6 DEF NodeHolders
  <2>5. \A p : p \in NodeHolders(g.nodes, b) <=> p \in H \/ p \in {new} \X I
    BY <2>3, <2>4, <1>5, <1>6
  <2>6. \A p : p \in H => p \notin {new} \X I
    BY <2>3, <1>5
  <2>7. NodeHolders(g.nodes, b) = H \cup ({new} \X I) /\ H \cap ({new} \X I) = {}
    BY <2>5, <2>6
  <2>8. IsFiniteSet(H)
    BY HoldersFinite
  <2>9. Cardinality(H \cup ({new} \X I)) = Cardinality(H) + Cardinality({new} \X I)
    BY <2>2, <2>7, <2>8, DisjointUnion, Zenon
  <2> QED BY <2>1, <2>2, <2>7, <2>9
<1> QED BY <1>11, <1>12 DEF g

\* insert takes over at most the places of the blocks it is given, and leaves a
\* cache within its capacity.
LEMMA InsertOK ==
  ASSUME NEW c, CacheOK(c),
         NEW tokens \in Seq(Token), NEW blocks \in Seq(Block),
         NEW d \in Insert(c, tokens, blocks)
  PROVE  /\ CacheOK(d)
         /\ d.num_cached_blocks <= num_gpu_blocks \div 3
         /\ \A b : Cardinality(NodeHolders(d.nodes, b))
                     <= Cardinality(NodeHolders(c.nodes, b)) + Occurrences(blocks, b)
<1>1. PICK g \in Grown(c, tokens, blocks) :
        d \in IF g.num_cached_blocks > num_gpu_blocks \div 3
                THEN {AfterEviction(g, es) : es \in EvictionRuns(g)}
                ELSE {g}
  BY DEF Insert
<1>2. /\ CacheOK(g)
      /\ \A b : Cardinality(NodeHolders(g.nodes, b))
                  <= Cardinality(NodeHolders(c.nodes, b)) + Occurrences(blocks, b)
  <2>1. CASE g = c
    <3>1. CacheOK(g)
      BY <2>1
    <3>2. ASSUME NEW b
          PROVE  Cardinality(NodeHolders(g.nodes, b))
                   <= Cardinality(NodeHolders(c.nodes, b)) + Occurrences(blocks, b)
      <4>1. Cardinality(NodeHolders(c.nodes, b)) \in Nat
        BY HoldersFinite
      <4>2. Occurrences(blocks, b) \in Nat
        BY OccurrencesType
      <4> QED BY <2>1, <4>1, <4>2
    <3> QED BY <3>1, <3>2
  <2>2. CASE \E a \in VacantAt(DOMAIN c.nodes, tokens) : g = AddNode(c, a, tokens, blocks)
    <3>1. PICK a \in VacantAt(DOMAIN c.nodes, tokens) : g = AddNode(c, a, tokens, blocks)
      BY <2>2
    <3>2. CacheOK(g)
      BY <3>1, AddNodeOK
    <3>3. ASSUME NEW b
          PROVE  Cardinality(NodeHolders(g.nodes, b))
                   <= Cardinality(NodeHolders(c.nodes, b)) + Occurrences(blocks, b)
      <4>1. Cardinality(NodeHolders(g.nodes, b))
                   = Cardinality(NodeHolders(c.nodes, b)) + Occurrences(blocks, b)
        BY <3>1, AddNodeOK
      <4>2. Cardinality(NodeHolders(g.nodes, b)) \in Nat
        BY <3>2, HoldersFinite
      <4> QED BY <4>1, <4>2
    <3> QED BY <3>2, <3>3
  <2> QED BY <2>1, <2>2 DEF Grown
<1>3. g.num_cached_blocks \in Nat
  BY <1>2, FS_CardinalityType DEF CacheOK
<1>4. CASE g.num_cached_blocks > num_gpu_blocks \div 3
  <2>1. PICK es \in EvictionRuns(g) : d = AfterEviction(g, es)
    BY <1>1, <1>4
  <2>2. CacheOK(d) /\ d.num_cached_blocks <= num_gpu_blocks \div 3
    BY <2>1, <1>2, AfterEvictionOK
  <2>3. ASSUME NEW b
        PROVE  Cardinality(NodeHolders(d.nodes, b))
                 <= Cardinality(NodeHolders(c.nodes, b)) + Occurrences(blocks, b)
    <3> DEFINE P == PlacesOf(EvictedLists(g, es), b)
    <3>1. /\ Cardinality(P) \in Nat
          /\ Cardinality(NodeHolders(g.nodes, b)) = Cardinality(NodeHolders(d.nodes, b)) + Cardinality(P)
      BY <2>1, <1>2, AfterEvictionOK
    <3>2. Cardinality(NodeHolders(g.nodes, b))
                 <= Cardinality(NodeHolders(c.nodes, b)) + Occurrences(blocks, b)
      BY <1>2
    <3>3. /\ Cardinality(NodeHolders(c.nodes, b)) \in Nat
          /\ Cardinality(NodeHolders(d.nodes, b)) \in Nat
          /\ Cardinality(NodeHolders(g.nodes, b)) \in Nat
          /\ Occurrences(blocks, b) \in Nat
      BY <1>2, <2>2, HoldersFinite, OccurrencesType
    <3> HIDE DEF P
    <3> QED BY <3>1, <3>2, <3>3
  <2> QED BY <2>2, <2>3
<1>5. CASE ~(g.num_cached_blocks > num_gpu_blocks \div 3)
  BY <1>1, <1>2, <1>3, <1>5
<1> QED BY <1>4, <1>5

-----------------------------------------------------------------------------
(* The block table                                                         *)

LEMMA OccurrencesConcat ==
  ASSUME NEW S, NEW s \in Seq(S), NEW t \in Seq(S), NEW b
  PROVE  Occurrences(s \o t, b) = Occurrences(s, b) + Occurrences(t, b)
<1> DEFINE m == Len(s)
           I == {i \in DOMAIN s : s[i] = b}
           J == {i \in DOMAIN t : t[i] = b}
           K == {k \in DOMAIN (s \o t) : k > m /\ (s \o t)[k] = b}
           f == [i \in J |-> i + m]
<1>1. /\ m \in Nat /\ Len(t) \in Nat
      /\ DOMAIN s = 1..m /\ DOMAIN t = 1..Len(t) /\ DOMAIN (s \o t) = 1..m + Len(t)
  BY LenProperties, ConcatProperties
<1>2. /\ \A i \in 1..m : (s \o t)[i] = s[i]
      /\ \A i \in 1..Len(t) : (s \o t)[i + m] = t[i]
  BY <1>1, ConcatProperties
<1>3. IsFiniteSet(I) /\ IsFiniteSet(J)
  BY OccurrencesType
<1>4. ExistsBijection(J, K)
  <2>1. f \in [J -> K]
    BY <1>1, <1>2
  <2>2. \A i, j \in J : f[i] = f[j] => i = j
    BY <1>1
  <2>3. \A k \in K : \E i \in J : f[i] = k
    <3> SUFFICES ASSUME NEW k \in K PROVE \E i \in J : f[i] = k
      OBVIOUS
    <3>1. k - m \in 1..Len(t) /\ (k - m) + m = k
      BY <1>1
    <3>2. k - m \in J
      BY <3>1, <1>1, <1>2
    <3> QED BY <3>1, <3>2
  <2>4. f \in Bijection(J, K)
    BY <2>1, <2>2, <2>3 DEF Bijection, Injection, IsInjective, Surjection
  <2> QED BY <2>4 DEF ExistsBijection
<1>5. IsFiniteSet(K) /\ Cardinality(K) = Cardinality(J)
  BY <1>3, <1>4, FS_Bijection
<1>6. {i \in DOMAIN (s \o t) : (s \o t)[i] = b} = I \cup K /\ I \cap K = {}
  BY <1>1, <1>2
<1>7. Cardinality(I \cup K) = Cardinality(I) + Cardinality(K)
  BY <1>3, <1>5, <1>6, DisjointUnion
<1> QED BY <1>5, <1>6, <1>7 DEF Occurrences

LEMMA ListedInDef ==
  ASSUME NEW table, NEW b, NEW p
  PROVE  p \in ListedIn(table, b) <=>
           \E r \in DOMAIN table : \E i \in DOMAIN table[r] : p = <<r, i>> /\ table[r][i] = b
BY DEF ListedIn

\* Entering a request adds its places, removing it takes them away.
LEMMA PutListed ==
  ASSUME NEW table, NEW r, r \notin DOMAIN table, NEW S, NEW s \in Seq(S), NEW b,
         IsFiniteSet(ListedIn(table, b))
  PROVE  /\ IsFiniteSet(ListedIn(Put(table, r, s), b))
         /\ Cardinality(ListedIn(Put(table, r, s), b))
              = Cardinality(ListedIn(table, b)) + Occurrences(s, b)
<1> DEFINE I == {i \in DOMAIN s : s[i] = b}
           H == ListedIn(table, b)
           new == Put(table, r, s)
<1>1. IsFiniteSet({r} \X I) /\ Cardinality({r} \X I) = Occurrences(s, b)
  BY OccurrencesType, TaggedCardinality DEF Occurrences
<1>2. DOMAIN new = DOMAIN table \cup {r} /\ new[r] = s /\ \A x \in DOMAIN table : new[x] = table[x]
  BY DEF Put
<1> HIDE DEF new
<1>3. \A p : p \in ListedIn(new, b) <=> p \in H \/ p \in {r} \X I
  BY <1>2, ListedInDef
<1>4. \A p : p \in H => p \notin {r} \X I
  BY ListedInDef
<1>5. ListedIn(new, b) = H \cup ({r} \X I) /\ H \cap ({r} \X I) = {}
  BY <1>3, <1>4
<1>6. IsFiniteSet(ListedIn(new, b)) /\ Cardinality(ListedIn(new, b)) = Cardinality(H) + Occurrences(s, b)
  <2>1. /\ IsFiniteSet(H \cup ({r} \X I))
        /\ Cardinality(H \cup ({r} \X I)) = Cardinality(H) + Cardinality({r} \X I)
    BY <1>1, <1>5, DisjointUnion, Zenon
  <2> QED BY <2>1, <1>1, <1>5, Zenon
<1> QED BY <1>6 DEF new

LEMMA RemovedListed ==
  ASSUME NEW table, NEW r \in DOMAIN table, NEW S, table[r] \in Seq(S), NEW b,
         IsFiniteSet(ListedIn(table, b))
  PROVE  /\ IsFiniteSet(ListedIn(Removed(table, r), b))
         /\ Cardinality(ListedIn(table, b))
              = Cardinality(ListedIn(Removed(table, r), b)) + Occurrences(table[r], b)
<1> DEFINE old == Removed(table, r)
<1>1. r \notin DOMAIN old
  BY DEF Removed
<1>2. IsFiniteSet(ListedIn(old, b))
  <2>1. \A p : p \in ListedIn(old, b) => p \in ListedIn(table, b)
    BY ListedInDef DEF Removed
  <2> QED BY <2>1, FS_Subset
<1>3. \A p : p \in ListedIn(Put(old, r, table[r]), b) <=> p \in ListedIn(table, b)
  <2>1. DOMAIN Put(old, r, table[r]) = DOMAIN table
    BY DEF Put, Removed
  <2>2. \A x \in DOMAIN table : Put(old, r, table[r])[x] = table[x]
    BY DEF Put, Removed
  <2> HIDE DEF old
  <2> QED BY <2>1, <2>2, ListedInDef
<1>4. ListedIn(Put(old, r, table[r]), b) = ListedIn(table, b)
  BY <1>3
<1>5. Cardinality(ListedIn(Put(old, r, table[r]), b))
        = Cardinality(ListedIn(old, b)) + Occurrences(table[r], b)
  <2> HIDE DEF old
  <2> QED BY <1>1, <1>2, PutListed
<1> QED BY <1>2, <1>4, <1>5

-----------------------------------------------------------------------------
(* Eviction                                                                *)

\* base[b] references to b besides those of the cache c.
Covers(refs, base, c) ==
  \A b \in Block : base[b] + Cardinality(NodeHolders(c.nodes, b)) <= refs[b]

Distinct(s) == \A i, j \in DOMAIN s : i # j => s[i] # s[j]

ZeroCounted(refs, pool) == \A i \in DOMAIN pool : refs[pool[i]] = 0

\* Where the elements of a concatenation come from, and when they are distinct.
LEMMA ConcatDistinct ==
  ASSUME NEW S, NEW s \in Seq(S), NEW t \in Seq(S)
  PROVE  /\ s \o t \in Seq(S)
         /\ \A e : (\E i \in DOMAIN (s \o t) : (s \o t)[i] = e)
                    => \/ \E j \in DOMAIN s : s[j] = e
                       \/ \E j \in DOMAIN t : t[j] = e
         /\ Distinct(s) /\ Distinct(t) /\ (\A i \in DOMAIN s, j \in DOMAIN t : s[i] # t[j])
              => Distinct(s \o t)
<1> DEFINE u == s \o t
           m == Len(s)
<1>1. /\ m \in Nat /\ Len(t) \in Nat /\ u \in Seq(S)
      /\ DOMAIN s = 1..m /\ DOMAIN t = 1..Len(t) /\ DOMAIN u = 1..m + Len(t)
      /\ \A i \in 1..m : u[i] = s[i]
      /\ \A i \in DOMAIN u : i > m => i - m \in DOMAIN t /\ u[i] = t[i - m]
  BY LenProperties, ConcatProperties
<1> HIDE DEF u, m
<1>2. \A i \in DOMAIN u : i <= m \/ i > m
  BY <1>1
<1>3. \A i \in DOMAIN u : \/ \E j \in DOMAIN s : u[i] = s[j]
                          \/ \E j \in DOMAIN t : u[i] = t[j]
  BY <1>1, <1>2
<1>4. ASSUME Distinct(s), Distinct(t), \A i \in DOMAIN s, j \in DOMAIN t : s[i] # t[j],
             NEW i \in DOMAIN u, NEW j \in DOMAIN u, i # j
      PROVE  u[i] # u[j]
  <2>1. CASE i <= m /\ j <= m
    BY <2>1, <1>1, <1>4 DEF Distinct
  <2>2. CASE i > m /\ j > m
    <3>1. i - m # j - m
      BY <1>1, <1>4
    <3> QED BY <2>2, <3>1, <1>1, <1>4 DEF Distinct
  <2>3. CASE i <= m /\ j > m
    BY <2>3, <1>1, <1>4
  <2>4. CASE i > m /\ j <= m
    BY <2>4, <1>1, <1>4
  <2> QED BY <2>1, <2>2, <2>3, <2>4, <1>2
<1> QED BY <1>1, <1>3, <1>4 DEF Distinct, u

LEMMA BlockFinite == IsFiniteSet(Block)
BY FS_Interval DEF Block

\* In a finite set nothing goes down for ever: of the elements below an element of a
\* strict order, the fewest are below a minimal one.
LEMMA MinimalExists ==
  ASSUME NEW S, IsFiniteSet(S), S # {}, NEW R,
         \A x \in S : <<x, x>> \notin R,
         \A x, y, z \in S : <<x, y>> \in R /\ <<y, z>> \in R => <<x, z>> \in R
  PROVE  \E x \in S : \A y \in S : <<y, x>> \notin R
<1> DEFINE Below(x) == {y \in S : <<y, x>> \in R}
           all == {Below(x) : x \in S}
<1>1. \E least \in all : \A a \in all : <<a, least>> \notin StrictSubsetOrdering(S)
  <2>1. IsWellFoundedOn(StrictSubsetOrdering(S), SUBSET S)
    <3>1. IsWellFoundedOn(StrictSubsetOrdering(S), FiniteSubsetsOf(S))
      BY FS_StrictSubsetOrderingWellFounded
    <3>2. FiniteSubsetsOf(S) = SUBSET S
      BY FS_FiniteSubsetsOfFinite
    <3> QED BY ONLY <3>1, <3>2
  <2>2. all \subseteq SUBSET S /\ all # {}
    <3>1. \A x : Below(x) \in SUBSET S
      OBVIOUS
    <3>2. PICK x \in S : TRUE
      OBVIOUS
    <3>3. Below(x) \in all
      OBVIOUS
    <3> HIDE DEF Below
    <3> QED BY <3>1, <3>3
  <2> HIDE DEF all
  <2> QED BY <2>1, <2>2, WFMin
<1>2. PICK x \in S : \A y \in S : <<Below(y), Below(x)>> \notin StrictSubsetOrdering(S)
  <2> HIDE DEF Below
  <2> QED BY <1>1
<1>3. ASSUME NEW y \in S, <<y, x>> \in R
      PROVE  FALSE
  <2>1. Below(y) \subseteq Below(x) /\ y \in Below(x) /\ y \notin Below(y)
    BY <1>3
  <2>2. Below(y) # Below(x) /\ Below(y) \in SUBSET S /\ Below(x) \in SUBSET S
    BY <2>1
  <2> HIDE DEF Below
  <2> QED BY <1>2, <2>1, <2>2 DEF StrictSubsetOrdering
<1> QED BY <1>3

IsPlace(p) == p = <<p[1], p[2]>> /\ p[1] \in Nat /\ p[2] \in Nat

\* A loop visits one of finitely many places last.
LEMMA LastPlace ==
  ASSUME NEW P, IsFiniteSet(P), P # {}, \A p \in P : IsPlace(p)
  PROVE  \E p \in P : \A q \in P : q = p \/ Visited(q, p)
<1> DEFINE R == {w \in P \X P : Visited(w[2], w[1])}
<1>1. \A p, q \in P : <<p, q>> \in R <=> Visited(q, p)
  OBVIOUS
<1>2. /\ \A p \in P : ~Visited(p, p)
      /\ \A p, q, w \in P : Visited(q, p) /\ Visited(w, q) => Visited(w, p)
      /\ \A p, q \in P : ~Visited(p, q) => q = p \/ Visited(q, p)
  BY DEF Visited, IsPlace
<1> HIDE DEF R
<1>3. \A p \in P : <<p, p>> \notin R
  BY <1>1, <1>2
<1>4. \A p, q, w \in P : <<p, q>> \in R /\ <<q, w>> \in R => <<p, w>> \in R
  BY <1>1, <1>2
<1>5. PICK p \in P : \A q \in P : <<q, p>> \notin R
  BY ONLY <1>3, <1>4, IsFiniteSet(P), P # {}, MinimalExists
<1> QED BY <1>1, <1>2, <1>5

\* It visits them all.
LEMMA AllVisited ==
  ASSUME NEW I, IsFiniteSet(I), \A p \in I : IsPlace(p),
         NEW f \in InVisitOrder(I), NEW p \in I
  PROVE  \E i \in DOMAIN f : f[i] = p
<1>1. f \in [1..Cardinality(I) -> I] /\ \A j, k \in DOMAIN f : j < k => Visited(f[j], f[k])
  BY DEF InVisitOrder
<1>2. Cardinality(I) \in Nat
  BY FS_CardinalityType
<1>3. \A q \in I : ~Visited(q, q)
  BY DEF Visited, IsPlace
<1>4. \A j, k \in 1..Cardinality(I) : j # k => j < k \/ k < j
  BY <1>2
<1>5. \A j, k \in 1..Cardinality(I) : f[j] = f[k] => j = k
  BY <1>1, <1>3, <1>4, Zenon
<1>6. f \in Injection(1..Cardinality(I), I)
  BY <1>1, <1>5 DEF Injection, IsInjective
<1>7. Cardinality(1..Cardinality(I)) = Cardinality(I)
  BY <1>2, FS_Interval
<1>8. f \in Surjection(1..Cardinality(I), I)
  BY <1>6, <1>7, FS_Injection
<1> QED BY <1>1, <1>8 DEF Surjection

\* The pool has every block whose count has gone from refs to zero in left.
HasFreed(pool, refs, left) ==
  \A b \in Block : refs[b] > 0 /\ left[b] = 0 => \E i \in DOMAIN pool : pool[i] = b

\* The eviction loop keeps the counts above what is still referenced, and what
\* it pushes is unreferenced and was not in the pool; what it takes the last reference
\* of, it pushes.
LEMMA EvictOK ==
  ASSUME NEW c, CacheOK(c),
         NEW refs \in [Block -> Nat], NEW base \in [Block -> Nat],
         NEW pool \in Seq(Block), Distinct(pool), ZeroCounted(refs, pool),
         Covers(refs, base, c),
         NEW o \in Evict(c, refs, pool)
  PROVE  /\ CacheOK(o.cache)
         /\ o.cache.num_cached_blocks <= num_gpu_blocks \div 3
         /\ o.refs \in [Block -> Nat]
         /\ o.pool \in Seq(Block)
         /\ Distinct(o.pool)
         /\ ZeroCounted(o.refs, o.pool)
         /\ Covers(o.refs, base, o.cache)
         /\ HasFreed(o.pool, refs, o.refs)
<1>1. PICK es \in EvictionRuns(c) :
        \E f \in InVisitOrder(ZeroingPlaces(EvictedLists(c, es), refs)) :
          o = [cache |-> AfterEviction(c, es),
               refs |-> [b \in Block |-> refs[b] - Cardinality(PlacesOf(EvictedLists(c, es), b))],
               pool |-> pool \o [i \in DOMAIN f |-> EvictedLists(c, es)[f[i][1]][f[i][2]]]]
  BY DEF Evict
<1> DEFINE lists == EvictedLists(c, es)
           Z == ZeroingPlaces(lists, refs)
           At(p) == lists[p[1]][p[2]]
<1>2. PICK f \in InVisitOrder(Z) :
          o = [cache |-> AfterEviction(c, es),
               refs |-> [b \in Block |-> refs[b] - Cardinality(PlacesOf(lists, b))],
               pool |-> pool \o [i \in DOMAIN f |-> At(f[i])]]
  BY <1>1
<1> DEFINE pushed == [i \in DOMAIN f |-> At(f[i])]
<1>3. /\ o.cache = AfterEviction(c, es)
      /\ \A b \in Block : o.refs[b] = refs[b] - Cardinality(PlacesOf(lists, b))
      /\ DOMAIN o.refs = Block /\ o.refs = [b \in Block |-> o.refs[b]]
      /\ o.pool = pool \o pushed
  BY <1>2
<1>4. CacheOK(o.cache) /\ o.cache.num_cached_blocks <= num_gpu_blocks \div 3
  BY <1>3, AfterEvictionOK
<1>5. ASSUME NEW b \in Block
      PROVE  /\ IsFiniteSet(PlacesOf(lists, b)) /\ Cardinality(PlacesOf(lists, b)) \in Nat
             /\ Cardinality(PlacesOf(lists, b)) <= refs[b]
             /\ o.refs[b] \in Nat
             /\ base[b] + Cardinality(NodeHolders(o.cache.nodes, b)) <= o.refs[b]
  <2>1. /\ IsFiniteSet(PlacesOf(lists, b)) /\ Cardinality(PlacesOf(lists, b)) \in Nat
        /\ Cardinality(NodeHolders(c.nodes, b))
             = Cardinality(NodeHolders(o.cache.nodes, b)) + Cardinality(PlacesOf(lists, b))
    BY <1>3, AfterEvictionOK
  <2>2. Cardinality(NodeHolders(o.cache.nodes, b)) \in Nat
    BY <1>4, HoldersFinite
  <2>3. base[b] + Cardinality(NodeHolders(c.nodes, b)) <= refs[b] /\ base[b] \in Nat /\ refs[b] \in Nat
    BY DEF Covers
  <2>4. o.refs[b] = refs[b] - Cardinality(PlacesOf(lists, b))
    BY <1>3
  <2> HIDE DEF lists
  <2> QED BY <2>1, <2>2, <2>3, <2>4
<1>6. o.refs \in [Block -> Nat] /\ Covers(o.refs, base, o.cache)
  BY <1>3, <1>5 DEF Covers
<1>7. \A p \in Places(lists) : /\ p = <<p[1], p[2]>> /\ p[1] \in Nat /\ p[2] \in Nat
                               /\ At(p) \in Block /\ p \in PlacesOf(lists, At(p))
  <2>1. es \in Seq(DOMAIN c.nodes)
    BY EvictionRunSeq
  <2>2. DOMAIN lists = DOMAIN es /\ DOMAIN es \subseteq Nat
    BY <2>1 DEF EvictedLists
  <2>3. \A k \in DOMAIN es : lists[k] \in Seq(Block) /\ DOMAIN lists[k] \subseteq Nat
    BY <2>1 DEF EvictedLists, CacheOK
  <2>4. \A p : p \in Places(lists) <=> \E k \in DOMAIN lists : \E i \in DOMAIN lists[k] : p = <<k, i>>
    BY DEF Places
  <2> HIDE DEF lists
  <2> QED BY <2>2, <2>3, <2>4 DEF PlacesOf
<1>8. ASSUME NEW p \in Z
      PROVE  /\ p \in Places(lists)
             /\ At(p) \in Block
             /\ refs[At(p)] > 0
             /\ o.refs[At(p)] = 0
             /\ \A q \in PlacesOf(lists, At(p)) : q = p \/ Visited(q, p)
  <2> DEFINE b == At(p)
             U == {q \in PlacesOf(lists, b) : q = p \/ Visited(q, p)}
  <2>1. p \in Places(lists) /\ Cardinality(U) = refs[b]
    BY DEF ZeroingPlaces
  <2>2. b \in Block /\ p \in U
    BY <2>1, <1>7
  <2>3. IsFiniteSet(PlacesOf(lists, b)) /\ Cardinality(PlacesOf(lists, b)) <= refs[b]
    BY <2>2, <1>5
  <2>4. U \in SUBSET PlacesOf(lists, b)
    OBVIOUS
  <2> HIDE DEF U, b
  <2>5. IsFiniteSet(U) /\ Cardinality(U) <= Cardinality(PlacesOf(lists, b))
        /\ (Cardinality(PlacesOf(lists, b)) = Cardinality(U) => PlacesOf(lists, b) = U)
    BY <2>3, <2>4, FS_Subset, Zenon
  <2>6. Cardinality(U) \in Nat /\ Cardinality(U) # 0 /\ Cardinality(PlacesOf(lists, b)) \in Nat
    BY <2>2, <2>3, <2>5, FS_CardinalityType, FS_EmptySet
  <2>7. PlacesOf(lists, b) = U /\ Cardinality(PlacesOf(lists, b)) = refs[b]
    BY <2>1, <2>3, <2>5, <2>6
  <2>8. o.refs[b] = 0 /\ refs[b] > 0
    BY <2>1, <2>2, <2>6, <2>7, <1>3
  <2> QED BY <2>1, <2>2, <2>7, <2>8 DEF U, b
<1>9. ASSUME NEW p \in Z, NEW q \in Z, At(p) = At(q)
      PROVE  p = q
  <2>1. /\ p \in PlacesOf(lists, At(q)) /\ q \in PlacesOf(lists, At(p))
        /\ p = <<p[1], p[2]>> /\ p[1] \in Nat /\ p[2] \in Nat
        /\ q = <<q[1], q[2]>> /\ q[1] \in Nat /\ q[2] \in Nat
    BY <1>7, <1>8, <1>9
  <2>2. (p = q \/ Visited(p, q)) /\ (q = p \/ Visited(q, p))
    BY <2>1, <1>8
  <2> QED BY <2>1, <2>2 DEF Visited
<1>10. IsFiniteSet(Z) /\ Cardinality(Z) \in Nat
  <2> DEFINE g == [p \in Z |-> At(p)]
  <2>1. g \in Injection(Z, Block)
    BY <1>8, <1>9 DEF Injection, IsInjective
  <2> QED BY <2>1, FS_Injection, BlockFinite, FS_CardinalityType
<1>11. /\ DOMAIN f = 1..Cardinality(Z)
       /\ \A i \in DOMAIN f : f[i] \in Z
       /\ \A i, j \in DOMAIN f : i # j => f[i] # f[j]
  <2>1. /\ f \in [1..Cardinality(Z) -> Z]
        /\ \A j, k \in DOMAIN f : j < k => Visited(f[j], f[k])
    BY DEF InVisitOrder
  <2>2. \A p \in Z : ~Visited(p, p)
    BY <1>7, <1>8 DEF Visited
  <2> HIDE DEF Z
  <2>3. \A n \in Nat : \A i, j \in 1..n : i # j => i < j \/ j < i
    OBVIOUS
  <2>4. \A i, j \in 1..Cardinality(Z) : i # j => i < j \/ j < i
    BY <2>3, <1>10
  <2>5. DOMAIN f = 1..Cardinality(Z) /\ \A i \in DOMAIN f : f[i] \in Z
    BY <2>1
  <2> QED BY <2>1, <2>2, <2>4, <2>5, Zenon
<1>12. /\ pushed \in Seq(Block)
       /\ Distinct(pushed)
       /\ \A i \in DOMAIN pushed : refs[pushed[i]] > 0 /\ o.refs[pushed[i]] = 0
  <2>1. \A i \in DOMAIN f : At(f[i]) \in Block
    BY <1>8, <1>11
  <2>2. pushed \in [1..Cardinality(Z) -> Block]
    BY <2>1, <1>11
  <2>3. pushed \in Seq(Block)
    <3>1. \A n \in Nat : [1..n -> Block] \subseteq Seq(Block)
      BY SeqDef
    <3> QED BY <3>1, <2>2, <1>10
  <2>4. Distinct(pushed)
    BY <1>9, <1>11 DEF Distinct
  <2>5. \A i \in DOMAIN pushed : refs[pushed[i]] > 0 /\ o.refs[pushed[i]] = 0
    BY <1>8, <1>11
  <2> QED BY <2>3, <2>4, <2>5
<1> HIDE DEF pushed, Z, lists
<1>13. \A i \in DOMAIN pool : pool[i] \in Block /\ refs[pool[i]] = 0 /\ o.refs[pool[i]] = 0
  <2> SUFFICES ASSUME NEW i \in DOMAIN pool
               PROVE  pool[i] \in Block /\ refs[pool[i]] = 0 /\ o.refs[pool[i]] = 0
    OBVIOUS
  <2>1. pool[i] \in Block /\ refs[pool[i]] = 0
    BY DEF ZeroCounted
  <2>2. o.refs[pool[i]] = refs[pool[i]] - Cardinality(PlacesOf(lists, pool[i]))
    BY <2>1, <1>3
  <2>3. Cardinality(PlacesOf(lists, pool[i])) \in Nat /\ Cardinality(PlacesOf(lists, pool[i])) <= refs[pool[i]]
    BY <2>1, <1>5
  <2> QED BY <2>1, <2>2, <2>3
<1>14. o.pool \in Seq(Block) /\ Distinct(o.pool) /\ ZeroCounted(o.refs, o.pool)
  <2>1. o.pool \in Seq(Block) /\ Distinct(o.pool)
    <3>1. \A i \in DOMAIN pool, j \in DOMAIN pushed : pool[i] # pushed[j]
      BY <1>12, <1>13
    <3> QED BY <3>1, <1>3, <1>12, ConcatDistinct
  <2>2. ZeroCounted(o.refs, o.pool)
    <3>1. \A e : (\E i \in DOMAIN (pool \o pushed) : (pool \o pushed)[i] = e)
                    => \/ \E j \in DOMAIN pool : pool[j] = e
                       \/ \E j \in DOMAIN pushed : pushed[j] = e
      BY <1>12, ConcatDistinct
    <3>2. ASSUME NEW i \in DOMAIN o.pool
          PROVE  o.refs[o.pool[i]] = 0
      <4>1. CASE \E j \in DOMAIN pool : pool[j] = o.pool[i]
        BY <4>1, <1>13
      <4>2. CASE \E j \in DOMAIN pushed : pushed[j] = o.pool[i]
        BY <4>2, <1>12
      <4> QED BY <3>1, <4>1, <4>2, <1>3
    <3> QED BY <3>2 DEF ZeroCounted
  <2> QED BY <2>1, <2>2
<1>15. ASSUME NEW b \in Block, refs[b] > 0, o.refs[b] = 0
       PROVE  \E i \in DOMAIN o.pool : o.pool[i] = b
  <2> DEFINE P == PlacesOf(lists, b)
  <2>1. IsFiniteSet(P) /\ Cardinality(P) = refs[b]
    <3>1. o.refs[b] = refs[b] - Cardinality(P) /\ Cardinality(P) \in Nat /\ refs[b] \in Nat
      BY <1>3, <1>5
    <3> QED BY <3>1, <1>5, <1>15
  <2>2. P # {}
    <3>1. Cardinality(P) # 0
      <4>1. refs[b] # 0
        BY <1>15
      <4> QED BY <2>1, <4>1
    <3> QED BY ONLY <3>1, FS_EmptySet
  <2>3. \A p \in P : p \in Places(lists) /\ At(p) = b /\ IsPlace(p)
    BY <1>7 DEF PlacesOf, IsPlace
  <2> HIDE DEF P
  <2>4. PICK p \in P : \A q \in P : q = p \/ Visited(q, p)
    <3>1. \A p \in P : IsPlace(p)
      BY <2>3
    <3> QED BY ONLY <2>1, <2>2, <3>1, LastPlace
  <2>5. p \in Z
    <3>1. {q \in PlacesOf(lists, At(p)) : q = p \/ Visited(q, p)} = P
      BY <2>3, <2>4 DEF P
    <3>2. p \in Places(lists) /\ At(p) = b
      BY <2>3
    <3> QED BY <2>1, <3>1, <3>2 DEF Z, ZeroingPlaces
  <2>6. PICK i \in DOMAIN f : f[i] = p
    <3>1. \A q \in Z : IsPlace(q)
      BY <1>7, <1>8 DEF IsPlace
    <3>2. f \in InVisitOrder(Z)
      OBVIOUS
    <3>3. IsFiniteSet(Z)
      BY <1>10
    <3> QED BY ONLY <2>5, <3>1, <3>2, <3>3, AllVisited
  <2>7. i \in DOMAIN pushed /\ pushed[i] = b
    BY <2>3, <2>6 DEF pushed
  <2>8. /\ Len(pool) + i \in DOMAIN (pool \o pushed)
        /\ (pool \o pushed)[Len(pool) + i] = pushed[i]
    <3>1. /\ pool \in Seq(Block) /\ pushed \in Seq(Block)
          /\ Len(pool) \in Nat /\ Len(pushed) \in Nat /\ i \in 1..Len(pushed)
      BY <2>7, <1>12, LenProperties
    <3> QED BY <3>1
  <2> QED BY <2>7, <2>8, <1>3
<1>16. HasFreed(o.pool, refs, o.refs)
  BY <1>15 DEF HasFreed
<1> QED BY <1>4, <1>6, <1>14, <1>16

-----------------------------------------------------------------------------
(* The inductive invariant                                                 *)

\* The blocks of a request without a prompt came from the pool alone, so none
\* is listed twice: FreeToPool pushes each once.
LegacyDistinct ==
  \A r \in DOMAIN block_table \ DOMAIN prompt_table : Distinct(block_table[r])

IInv ==
  /\ TypeOK
  /\ CacheOK(radix_cache)
  /\ radix_cache.num_cached_blocks <= num_gpu_blocks \div 3
  /\ \A b \in Block : IsFiniteSet(TableHolders(b))
  /\ RefsCoverHolders
  /\ ZeroCounted(ref_counts, free_gpu_blocks)
  /\ Distinct(free_gpu_blocks)
  /\ LegacyDistinct

\* The references to a block other than those of the cache and of the pool's
\* next owner: what the tables list.
Listed == [b \in Block |-> Cardinality(TableHolders(b))]

LEMMA ListedType ==
  ASSUME IInv
  PROVE  /\ Listed \in [Block -> Nat]
         /\ Covers(ref_counts, Listed, radix_cache)
BY FS_CardinalityType DEF IInv, Listed, Covers, RefsCoverHolders, CacheHolders

\* The blocks of a prefix hit are blocks the cache references.
LEMMA HitBlocks ==
  ASSUME NEW c, CacheOK(c), NEW tokens \in Seq(Token), NEW h \in Hits(c, tokens)
  PROVE  /\ PathBlocks(c.nodes, h) \in Seq(Block)
         /\ Len(h) \in Nat /\ Len(h) <= Len(tokens)
         /\ \A i \in DOMAIN PathBlocks(c.nodes, h) :
               Cardinality(NodeHolders(c.nodes, PathBlocks(c.nodes, h)[i])) > 0
<1>1. CASE h = Root
  <2>1. PathBlocks(c.nodes, h) = <<>> /\ Len(h) = 0
    BY <1>1 DEF PathBlocks, Root
  <2> QED BY <2>1, LenProperties
<1>2. CASE h # Root
  <2>1. h \in DOMAIN c.nodes /\ IsPrefix(h, tokens)
    BY <1>2 DEF Hits, Matched
  <2>2. PathBlocks(c.nodes, h) = c.nodes[h].path_blocks
    BY <1>2 DEF PathBlocks
  <2>3. h \in Seq(Token) /\ c.nodes[h].path_blocks \in Seq(Block)
    BY <2>1 DEF CacheOK
  <2>4. Len(h) \in Nat /\ Len(h) <= Len(tokens)
    BY <2>1, <2>3, LenProperties DEF IsPrefix
  <2>5. ASSUME NEW i \in DOMAIN c.nodes[h].path_blocks
        PROVE  Cardinality(NodeHolders(c.nodes, c.nodes[h].path_blocks[i])) > 0
    <3> DEFINE b == c.nodes[h].path_blocks[i]
    <3>1. PICK p \in DOMAIN c.nodes : \E j \in DOMAIN c.nodes[p].block_ids : c.nodes[p].block_ids[j] = b
      BY <2>1 DEF CacheOK, PathsCovered
    <3>2. PICK j \in DOMAIN c.nodes[p].block_ids : c.nodes[p].block_ids[j] = b
      BY <3>1
    <3>3. <<p, j>> \in NodeHolders(c.nodes, b)
      BY <3>2, SlotsDef DEF NodeHolders
    <3>4. IsFiniteSet(NodeHolders(c.nodes, b)) /\ Cardinality(NodeHolders(c.nodes, b)) \in Nat
      BY HoldersFinite
    <3>5. Cardinality(NodeHolders(c.nodes, b)) # 0
      BY <3>3, <3>4, FS_EmptySet
    <3> QED BY <3>4, <3>5
  <2> QED BY <2>2, <2>3, <2>4, <2>5
<1> QED BY <1>1, <1>2

LEMMA DivCeilType ==
  ASSUME NEW n \in Nat
  PROVE  DivCeil(n, block_size) \in Nat
BY DEF DivCeil

\* The references of base with those of a new owner of the blocks s.
Plus(base, s) == [b \in Block |-> base[b] + Occurrences(s, b)]

\* What allocate_with_prefix has in hand when it looks at the pool's size: the
\* counts cover the tables, the cache and the blocks of the hit, and the pool
\* is a pool of unreferenced blocks, with all the eviction took the last reference of.
AttemptOK(t) ==
  /\ t.cached \in Seq(Block)
  /\ t.needed \in Nat
  /\ CacheOK(t.cache)
  /\ t.cache.num_cached_blocks <= num_gpu_blocks \div 3
  /\ t.refs \in [Block -> Nat]
  /\ t.pool \in Seq(Block)
  /\ Distinct(t.pool)
  /\ ZeroCounted(t.refs, t.pool)
  /\ Covers(t.refs, [b \in Block |-> Listed[b] + Occurrences(t.cached, b)], t.cache)
  /\ HasFreed(t.pool, Plus(ref_counts, t.cached), t.refs)

LEMMA AttemptsOK ==
  ASSUME IInv, NEW tokens \in Seq(Token), NEW t \in Attempts(tokens)
  PROVE  AttemptOK(t)
<1> DEFINE cached(h) == PathBlocks(radix_cache.nodes, h)
           needed(h) == DivCeil(Len(tokens) - Len(h), block_size)
           touched == Touch(radix_cache, tokens)
           held(h) == [b \in Block |-> ref_counts[b] + Occurrences(cached(h), b)]
<1>1. PICK h \in Hits(radix_cache, tokens) :
        \E o \in IF Len(free_gpu_blocks) < needed(h)
                   THEN Evict(touched, held(h), free_gpu_blocks)
                   ELSE {[cache |-> touched, refs |-> held(h), pool |-> free_gpu_blocks]} :
          t = [cached |-> cached(h), hit_len |-> Len(h), needed |-> needed(h),
               cache |-> o.cache, refs |-> o.refs, pool |-> o.pool]
  BY DEF Attempts
<1>2. PICK o \in IF Len(free_gpu_blocks) < needed(h)
                   THEN Evict(touched, held(h), free_gpu_blocks)
                   ELSE {[cache |-> touched, refs |-> held(h), pool |-> free_gpu_blocks]} :
          t = [cached |-> cached(h), hit_len |-> Len(h), needed |-> needed(h),
               cache |-> o.cache, refs |-> o.refs, pool |-> o.pool]
  BY <1>1
<1> DEFINE blocks == cached(h)
           refs == held(h)
           base == [b \in Block |-> Listed[b] + Occurrences(blocks, b)]
<1>3. /\ blocks \in Seq(Block) /\ Len(h) \in Nat /\ Len(h) <= Len(tokens)
      /\ \A i \in DOMAIN blocks : Cardinality(CacheHolders(blocks[i])) > 0
  BY HitBlocks DEF IInv, CacheHolders
<1>4. needed(h) \in Nat
  <2>1. Len(tokens) - Len(h) \in Nat
    BY <1>3, LenProperties
  <2> QED BY <2>1, DivCeilType
<1>5. CacheOK(touched) /\ touched.nodes = radix_cache.nodes
      /\ touched.num_cached_blocks = radix_cache.num_cached_blocks
  BY DEF Touch, IInv, CacheOK
<1>6. \A b \in Block : Occurrences(blocks, b) \in Nat
  BY <1>3, OccurrencesType
<1>7. refs \in [Block -> Nat] /\ base \in [Block -> Nat]
  BY <1>6, ListedType DEF IInv, TypeOK
<1>8. Covers(refs, base, touched)
  <2> SUFFICES ASSUME NEW b \in Block
               PROVE  base[b] + Cardinality(NodeHolders(touched.nodes, b)) <= refs[b]
    BY DEF Covers
  <2>1. Listed[b] + Cardinality(NodeHolders(radix_cache.nodes, b)) <= ref_counts[b]
    BY ListedType DEF Covers
  <2>2. /\ Cardinality(NodeHolders(radix_cache.nodes, b)) \in Nat
        /\ Listed[b] \in Nat /\ ref_counts[b] \in Nat /\ Occurrences(blocks, b) \in Nat
    BY <1>6, HoldersFinite, ListedType DEF IInv, TypeOK
  <2>3. base[b] = Listed[b] + Occurrences(blocks, b) /\ refs[b] = ref_counts[b] + Occurrences(blocks, b)
    OBVIOUS
  <2> HIDE DEF base, refs, blocks
  <2> QED BY <2>1, <2>2, <2>3, <1>5
<1>9. ZeroCounted(refs, free_gpu_blocks)
  <2> SUFFICES ASSUME NEW i \in DOMAIN free_gpu_blocks
               PROVE  refs[free_gpu_blocks[i]] = 0
    BY DEF ZeroCounted
  <2> DEFINE b == free_gpu_blocks[i]
  <2>1. b \in Block /\ ref_counts[b] = 0
    BY DEF IInv, TypeOK, ZeroCounted
  <2>2. /\ Listed[b] + Cardinality(NodeHolders(radix_cache.nodes, b)) <= ref_counts[b]
        /\ Listed[b] \in Nat /\ Cardinality(NodeHolders(radix_cache.nodes, b)) \in Nat
    BY <2>1, ListedType, HoldersFinite DEF Covers, IInv
  <2>3. Cardinality(CacheHolders(b)) = 0
    BY <2>1, <2>2 DEF CacheHolders
  <2>4. {k \in DOMAIN blocks : blocks[k] = b} = {}
    <3> HIDE DEF b, blocks
    <3>1. \A k \in DOMAIN blocks : blocks[k] # b
      BY <2>3, <1>3
    <3> QED BY <3>1
  <2>5. Occurrences(blocks, b) = 0
    BY <2>4, FS_EmptySet DEF Occurrences
  <2>6. refs[b] = ref_counts[b] + Occurrences(blocks, b)
    BY <2>1
  <2> HIDE DEF b, blocks, refs
  <2> QED BY <2>1, <2>5, <2>6 DEF b
<1>10. /\ free_gpu_blocks \in Seq(Block) /\ Distinct(free_gpu_blocks)
       /\ radix_cache.num_cached_blocks <= num_gpu_blocks \div 3
  BY DEF IInv, TypeOK
<1> HIDE DEF touched, refs, base, blocks
<1>11. /\ CacheOK(o.cache) /\ o.cache.num_cached_blocks <= num_gpu_blocks \div 3
       /\ o.refs \in [Block -> Nat] /\ o.pool \in Seq(Block)
       /\ Distinct(o.pool) /\ ZeroCounted(o.refs, o.pool) /\ Covers(o.refs, base, o.cache)
       /\ HasFreed(o.pool, refs, o.refs)
  <2>1. CASE Len(free_gpu_blocks) < needed(h)
    <3>1. o \in Evict(touched, refs, free_gpu_blocks)
      BY <2>1 DEF refs, blocks
    <3> QED BY <3>1, <1>5, <1>7, <1>8, <1>9, <1>10, EvictOK
  <2>2. CASE ~(Len(free_gpu_blocks) < needed(h))
    <3>1. o = [cache |-> touched, refs |-> refs, pool |-> free_gpu_blocks]
      BY <2>2 DEF refs, blocks
    <3>2. HasFreed(o.pool, refs, o.refs)
      BY <3>1, <1>7 DEF HasFreed
    <3> QED BY <3>1, <3>2, <1>5, <1>7, <1>8, <1>9, <1>10
  <2> QED BY <2>1, <2>2
<1>12. /\ t.cached = blocks /\ t.needed = needed(h) /\ t.cache = o.cache
       /\ t.refs = o.refs /\ t.pool = o.pool
  BY <1>2 DEF blocks
<1>13. base = [b \in Block |-> Listed[b] + Occurrences(t.cached, b)]
  BY <1>12 DEF base
<1>14. refs = Plus(ref_counts, t.cached)
  BY <1>12 DEF refs, blocks, Plus
<1> QED BY <1>3, <1>4, <1>11, <1>12, <1>13, <1>14 DEF AttemptOK

-----------------------------------------------------------------------------
(* Taking blocks from the pool                                             *)

\* The counts after the blocks new have been handed out.
Taken(refs, new) == [b \in Block |-> IF \E i \in DOMAIN new : new[i] = b THEN 1 ELSE refs[b]]

LEMMA TakeOK ==
  ASSUME NEW refs \in [Block -> Nat], NEW base \in [Block -> Nat],
         NEW c, CacheOK(c), Covers(refs, base, c),
         NEW pool \in Seq(Block), Distinct(pool), ZeroCounted(refs, pool),
         NEW n \in Nat, n <= Len(pool)
  PROVE  /\ Top(pool, n) \in Seq(Block)
         /\ Distinct(Top(pool, n))
         /\ Popped(pool, n) \in Seq(Block)
         /\ Distinct(Popped(pool, n))
         /\ Taken(refs, Top(pool, n)) \in [Block -> Nat]
         /\ ZeroCounted(Taken(refs, Top(pool, n)), Popped(pool, n))
         /\ Covers(Taken(refs, Top(pool, n)), Plus(base, Top(pool, n)), c)
<1> DEFINE new == Top(pool, n)
           left == Popped(pool, n)
           refs2 == Taken(refs, new)
           m == Len(pool)
<1>1. m \in Nat /\ DOMAIN pool = 1..m /\ n <= m /\ \A i \in 1..m : pool[i] \in Block
  BY LenProperties, ElementOfSeq
<1>2. DOMAIN new = 1..n /\ \A i \in 1..n : new[i] = pool[m + 1 - i] /\ m + 1 - i \in 1..m
  BY <1>1 DEF Top
<1>3. new \in Seq(Block)
  <2>1. new \in [1..n -> Block]
    BY <1>1, <1>2 DEF Top
  <2> QED BY <2>1
<1>4. Distinct(new)
  <2> SUFFICES ASSUME NEW i \in 1..n, NEW j \in 1..n, i # j PROVE new[i] # new[j]
    BY <1>2 DEF Distinct
  <2>1. m + 1 - i # m + 1 - j
    BY <1>1
  <2> QED BY <2>1, <1>1, <1>2 DEF Distinct
<1>5. /\ left \in Seq(Block) /\ DOMAIN left = 1..m - n
      /\ \A i \in 1..m - n : left[i] = pool[i] /\ i \in 1..m
  BY <1>1, LenProperties DEF Popped
<1>6. Distinct(left)
  BY <1>1, <1>5 DEF Distinct
<1>7. \A i \in DOMAIN left, j \in DOMAIN new : left[i] # new[j]
  <2> SUFFICES ASSUME NEW i \in 1..m - n, NEW j \in 1..n PROVE left[i] # new[j]
    BY <1>2, <1>5
  <2>1. i # m + 1 - j
    BY <1>1
  <2> QED BY <2>1, <1>1, <1>2, <1>5 DEF Distinct
<1>8. \A b \in Block : refs2[b] = IF \E i \in DOMAIN new : new[i] = b THEN 1 ELSE refs[b]
  BY DEF Taken
<1>9. refs2 \in [Block -> Nat]
  BY DEF Taken
<1> HIDE DEF new, left, refs2
<1>10. ZeroCounted(refs2, left)
  <2> SUFFICES ASSUME NEW i \in DOMAIN left PROVE refs2[left[i]] = 0
    BY DEF ZeroCounted
  <2>1. left[i] \in Block /\ refs[left[i]] = 0
    BY <1>1, <1>5 DEF ZeroCounted
  <2> QED BY <2>1, <1>7, <1>8
<1>11. ASSUME NEW b \in Block
       PROVE  base[b] + Occurrences(new, b) + Cardinality(NodeHolders(c.nodes, b)) <= refs2[b]
  <2> DEFINE I == {i \in DOMAIN new : new[i] = b}
  <2>1. base[b] + Cardinality(NodeHolders(c.nodes, b)) <= refs[b]
    BY DEF Covers
  <2>2. base[b] \in Nat /\ Cardinality(NodeHolders(c.nodes, b)) \in Nat /\ refs[b] \in Nat
    BY HoldersFinite
  <2>3. CASE \E i \in DOMAIN new : new[i] = b
    <3>1. PICK i \in DOMAIN new : new[i] = b
      BY <2>3
    <3>2. I = {i}
      BY <3>1, <1>4 DEF Distinct
    <3>3. Occurrences(new, b) = 1
      BY <3>2, FS_Singleton DEF Occurrences
    <3>4. refs[b] = 0
      <4>1. pool[m + 1 - i] = b /\ m + 1 - i \in DOMAIN pool
        BY <3>1, <1>1, <1>2
      <4> QED BY <4>1 DEF ZeroCounted
    <3>5. refs2[b] = 1
      BY <2>3, <1>8
    <3> QED BY <2>1, <2>2, <3>3, <3>4, <3>5
  <2>4. CASE ~\E i \in DOMAIN new : new[i] = b
    <3>1. I = {}
      BY <2>4
    <3>2. Occurrences(new, b) = 0
      BY <3>1, FS_EmptySet DEF Occurrences
    <3> QED BY <2>1, <2>2, <2>4, <3>2, <1>8
  <2> QED BY <2>3, <2>4
<1>12. Covers(refs2, Plus(base, new), c)
  BY <1>11 DEF Covers, Plus
<1> QED BY <1>3, <1>4, <1>5, <1>6, <1>9, <1>10, <1>12 DEF new, left, refs2

-----------------------------------------------------------------------------
(* The steps                                                               *)

LEMMA InitIInv == Init => IInv
<1> SUFFICES ASSUME Init PROVE IInv
  OBVIOUS
<1> USE DEF Init
<1>1. DOMAIN EmptyCache.nodes = {} /\ EmptyCache.num_cached_blocks = 0
  BY DEF EmptyCache
<1>2. Slots(EmptyCache.nodes, {}) = {}
  BY DEF Slots
<1>3. CacheOK(EmptyCache)
  BY <1>1, <1>2, FS_EmptySet DEF CacheOK, PathsCovered
<1>4. \A b : TableHolders(b) = {} /\ CacheHolders(b) = {}
  BY <1>1, <1>2 DEF TableHolders, ListedIn, CacheHolders, NodeHolders
<1>5. free_gpu_blocks \in Seq(Block) /\ DOMAIN free_gpu_blocks = 1..num_gpu_blocks
  <2>1. \A i \in 1..num_gpu_blocks : i - 1 \in Block
    BY DEF Block
  <2>2. free_gpu_blocks \in [1..num_gpu_blocks -> Block]
    BY <2>1
  <2> QED BY <2>2
<1>6. Distinct(free_gpu_blocks) /\ ZeroCounted(ref_counts, free_gpu_blocks)
  <2>1. \A i \in 1..num_gpu_blocks : i - 1 \in Block /\ free_gpu_blocks[i] = i - 1
    BY DEF Block
  <2> QED BY <2>1, <1>5 DEF Distinct, ZeroCounted
<1>7. TypeOK
  BY <1>1, <1>5 DEF TypeOK, Nodes, Root
<1>8. RefsCoverHolders /\ \A b \in Block : IsFiniteSet(TableHolders(b))
  <2>1. IsFiniteSet({}) /\ Cardinality({}) = 0
    BY FS_EmptySet
  <2>2. \A b \in Block : ref_counts[b] = 0
    OBVIOUS
  <2>3. ASSUME NEW b \in Block
        PROVE  /\ IsFiniteSet(TableHolders(b))
               /\ Cardinality(TableHolders(b)) = 0 /\ Cardinality(CacheHolders(b)) = 0
    BY <2>1, <1>4
  <2> QED BY <2>2, <2>3 DEF RefsCoverHolders
<1>9. radix_cache.num_cached_blocks <= num_gpu_blocks \div 3
  BY <1>1
<1>10. LegacyDistinct
  BY DEF LegacyDistinct
<1> QED BY <1>3, <1>6, <1>7, <1>8, <1>9, <1>10 DEF IInv

\* What a step has to establish, in the terms of the lemmas above.
LEMMA NextIInv ==
  ASSUME IInv,
         TypeOK', CacheOK(radix_cache)',
         radix_cache'.num_cached_blocks <= num_gpu_blocks \div 3,
         ZeroCounted(ref_counts', free_gpu_blocks'),
         Distinct(free_gpu_blocks'),
         LegacyDistinct',
         \A b \in Block : /\ IsFiniteSet(ListedIn(block_table', b))
                          /\ Cardinality(ListedIn(block_table', b))
                               + Cardinality(NodeHolders(radix_cache'.nodes, b)) <= ref_counts'[b]
  PROVE  IInv'
BY DEF IInv, RefsCoverHolders, TableHolders, CacheHolders, ZeroCounted, Distinct

LEMMA GrantStep ==
  ASSUME IInv, NEW r \in Req, NEW tokens \in Prompts,
         AllocateWithPrefix(r, tokens)
  PROVE  IInv'
<1> tokens \in Seq(Token)
  OBVIOUS
<1>1. PICK t \in Attempts(tokens) : Grant(r, tokens, t)
  BY DEF AllocateWithPrefix
<1> DEFINE new == Top(t.pool, t.needed)
           left == Popped(t.pool, t.needed)
           base == [b \in Block |-> Listed[b] + Occurrences(t.cached, b)]
<1>2. AttemptOK(t)
  BY AttemptsOK
<1>3. /\ t.cached \in Seq(Block) /\ t.needed \in Nat /\ CacheOK(t.cache)
      /\ t.cache.num_cached_blocks <= num_gpu_blocks \div 3
      /\ t.refs \in [Block -> Nat] /\ t.pool \in Seq(Block)
      /\ Distinct(t.pool) /\ ZeroCounted(t.refs, t.pool)
      /\ Covers(t.refs, base, t.cache)
  BY <1>2 DEF AttemptOK
<1>4. /\ r \notin DOMAIN block_table
      /\ Len(t.pool) >= t.needed
      /\ radix_cache' = t.cache
      /\ free_gpu_blocks' = left
      /\ ref_counts' = [b \in Block |-> IF \E i \in DOMAIN new : new[i] = b THEN 1 ELSE t.refs[b]]
      /\ block_table' = Put(block_table, r, t.cached \o new)
      /\ prompt_table' = Put(prompt_table, r, tokens)
  BY <1>1 DEF Grant, AllocateWithPrefix
<1>5. base \in [Block -> Nat]
  <2>1. ASSUME NEW b \in Block
        PROVE  Listed[b] + Occurrences(t.cached, b) \in Nat
    <3>1. Occurrences(t.cached, b) \in Nat
      BY <1>3, OccurrencesType
    <3>2. Listed[b] \in Nat
      BY ListedType
    <3> QED BY <3>1, <3>2
  <2> QED BY <2>1
<1>6. t.needed <= Len(t.pool)
  BY <1>3, <1>4, LenProperties
<1> HIDE DEF new, left, base
<1>7. /\ new \in Seq(Block) /\ left \in Seq(Block) /\ Distinct(left)
      /\ ref_counts' \in [Block -> Nat]
      /\ ZeroCounted(ref_counts', left)
      /\ Covers(ref_counts', Plus(base, new), t.cache)
  <2>1. ref_counts' = Taken(t.refs, new)
    BY <1>4 DEF Taken
  <2>2. /\ new \in Seq(Block) /\ left \in Seq(Block) /\ Distinct(left)
        /\ Taken(t.refs, new) \in [Block -> Nat]
        /\ ZeroCounted(Taken(t.refs, new), left)
        /\ Covers(Taken(t.refs, new), Plus(base, new), t.cache)
    BY <1>3, <1>5, <1>6, TakeOK DEF new, left
  <2> QED BY <2>1, <2>2
<1>8. t.cached \o new \in Seq(Block)
  BY <1>3, <1>7, ConcatProperties
<1>9. ASSUME NEW b \in Block
      PROVE  /\ IsFiniteSet(ListedIn(block_table', b))
             /\ Cardinality(ListedIn(block_table', b))
                  + Cardinality(NodeHolders(radix_cache'.nodes, b)) <= ref_counts'[b]
  <2>1. IsFiniteSet(ListedIn(block_table, b)) /\ Listed[b] = Cardinality(ListedIn(block_table, b))
    BY DEF IInv, Listed, TableHolders
  <2>2. /\ IsFiniteSet(ListedIn(block_table', b))
        /\ Cardinality(ListedIn(block_table', b)) = Listed[b] + Occurrences(t.cached \o new, b)
    <3>1. r \notin DOMAIN block_table
      BY <1>4
    <3>2. PICK u \in Seq(Block) : u = t.cached \o new
      BY <1>8
    <3>3. /\ IsFiniteSet(ListedIn(Put(block_table, r, u), b))
          /\ Cardinality(ListedIn(Put(block_table, r, u), b))
               = Cardinality(ListedIn(block_table, b)) + Occurrences(u, b)
      BY <3>1, <2>1, PutListed
    <3> QED BY <3>2, <3>3, <2>1, <1>4
  <2>3. Occurrences(t.cached \o new, b) = Occurrences(t.cached, b) + Occurrences(new, b)
    BY <1>3, <1>7, OccurrencesConcat
  <2>4. base[b] + Occurrences(new, b) + Cardinality(NodeHolders(t.cache.nodes, b)) <= ref_counts'[b]
    BY <1>7 DEF Covers, Plus
  <2>5. base[b] = Listed[b] + Occurrences(t.cached, b)
    BY DEF base
  <2>6. /\ Listed[b] \in Nat /\ Occurrences(t.cached, b) \in Nat /\ Occurrences(new, b) \in Nat
    BY ListedType, OccurrencesType, <1>3, <1>7
  <2>7. Cardinality(NodeHolders(t.cache.nodes, b)) \in Nat /\ ref_counts'[b] \in Nat
    BY <1>3, <1>7, HoldersFinite
  <2> QED BY <2>2, <2>3, <2>4, <2>5, <2>6, <2>7, <1>4
<1>10. TypeOK'
  <2>1. /\ DOMAIN block_table' \subseteq Req
        /\ \A x \in DOMAIN block_table' : block_table'[x] \in Seq(Block)
    BY <1>4, <1>8 DEF IInv, TypeOK, Put
  <2>2. /\ DOMAIN prompt_table' \subseteq DOMAIN block_table'
        /\ \A x \in DOMAIN prompt_table' : prompt_table'[x] \in Prompts
    BY <1>4 DEF IInv, TypeOK, Put
  <2>3. /\ Nodes' \subseteq Seq(Token) \ {Root}
        /\ \A q \in Nodes' : /\ radix_cache'.nodes[q].block_ids \in Seq(Block)
                             /\ radix_cache'.nodes[q].path_blocks \in Seq(Block)
        /\ radix_cache'.num_cached_blocks \in Nat
    BY <1>3, <1>4, FS_CardinalityType DEF CacheOK, Nodes
  <2> QED BY <2>1, <2>2, <2>3, <1>4, <1>7 DEF TypeOK
<1>11. LegacyDistinct'
  BY <1>4 DEF IInv, LegacyDistinct, Put
<1>12. CacheOK(radix_cache)' /\ radix_cache'.num_cached_blocks <= num_gpu_blocks \div 3
  BY <1>3, <1>4 DEF CacheOK, PathsCovered
<1> QED BY <1>4, <1>7, <1>9, <1>10, <1>11, <1>12, NextIInv

LEMMA RefuseStep ==
  ASSUME IInv, NEW r \in Req, NEW tokens \in Prompts,
         AllocateRefused(r, tokens)
  PROVE  IInv'
<1> tokens \in Seq(Token)
  OBVIOUS
<1>1. PICK t \in Attempts(tokens) : Refuse(t)
  BY DEF AllocateRefused
<1>2. AttemptOK(t)
  BY AttemptsOK
<1>3. /\ t.cached \in Seq(Block) /\ CacheOK(t.cache)
      /\ t.cache.num_cached_blocks <= num_gpu_blocks \div 3
      /\ t.refs \in [Block -> Nat] /\ t.pool \in Seq(Block)
      /\ Distinct(t.pool) /\ ZeroCounted(t.refs, t.pool)
      /\ Covers(t.refs, [b \in Block |-> Listed[b] + Occurrences(t.cached, b)], t.cache)
  BY <1>2 DEF AttemptOK
<1>4. /\ radix_cache' = t.cache
      /\ free_gpu_blocks' = t.pool
      /\ ref_counts' = [b \in Block |-> t.refs[b] - Occurrences(t.cached, b)]
      /\ UNCHANGED <<block_table, prompt_table>>
  BY <1>1 DEF Refuse
<1>5. ASSUME NEW b \in Block
      PROVE  /\ ref_counts'[b] \in Nat
             /\ t.refs[b] = 0 => ref_counts'[b] = 0
             /\ Listed[b] + Cardinality(NodeHolders(t.cache.nodes, b)) <= ref_counts'[b]
  <2>1. Listed[b] + Occurrences(t.cached, b) + Cardinality(NodeHolders(t.cache.nodes, b)) <= t.refs[b]
    BY <1>3 DEF Covers
  <2>2. /\ Listed[b] \in Nat /\ Occurrences(t.cached, b) \in Nat /\ t.refs[b] \in Nat
        /\ Cardinality(NodeHolders(t.cache.nodes, b)) \in Nat
    BY ListedType, OccurrencesType, HoldersFinite, <1>3
  <2>3. ref_counts'[b] = t.refs[b] - Occurrences(t.cached, b)
    BY <1>4
  <2> QED BY <2>1, <2>2, <2>3
<1>6. ref_counts' \in [Block -> Nat]
  BY <1>4, <1>5
<1>7. ZeroCounted(ref_counts', free_gpu_blocks')
  <2> SUFFICES ASSUME NEW i \in DOMAIN t.pool PROVE ref_counts'[t.pool[i]] = 0
    BY <1>4 DEF ZeroCounted
  <2> QED BY <1>3, <1>5 DEF ZeroCounted
<1>8. ASSUME NEW b \in Block
      PROVE  /\ IsFiniteSet(ListedIn(block_table', b))
             /\ Cardinality(ListedIn(block_table', b))
                  + Cardinality(NodeHolders(radix_cache'.nodes, b)) <= ref_counts'[b]
  <2>1. IsFiniteSet(ListedIn(block_table, b)) /\ Listed[b] = Cardinality(ListedIn(block_table, b))
    BY DEF IInv, Listed, TableHolders
  <2> QED BY <2>1, <1>4, <1>5
<1>9. TypeOK'
  <2>1. /\ Nodes' \subseteq Seq(Token) \ {Root}
        /\ \A q \in Nodes' : /\ radix_cache'.nodes[q].block_ids \in Seq(Block)
                             /\ radix_cache'.nodes[q].path_blocks \in Seq(Block)
        /\ radix_cache'.num_cached_blocks \in Nat
    BY <1>3, <1>4, FS_CardinalityType DEF CacheOK, Nodes
  <2> QED BY <2>1, <1>3, <1>4, <1>6 DEF IInv, TypeOK
<1>10. LegacyDistinct'
  BY <1>4 DEF IInv, LegacyDistinct, Distinct
<1>11. CacheOK(radix_cache)' /\ radix_cache'.num_cached_blocks <= num_gpu_blocks \div 3
  BY <1>3, <1>4 DEF CacheOK, PathsCovered
<1>12. Distinct(free_gpu_blocks')
  BY <1>3, <1>4
<1> QED BY <1>7, <1>8, <1>9, <1>10, <1>11, <1>12, NextIInv

LEMMA AllocateStep ==
  ASSUME IInv, NEW r \in Req, NEW n \in LegacySizes,
         Allocate(r, n)
  PROVE  IInv'
<1> DEFINE k == DivCeil(n, block_size)
           new == Top(free_gpu_blocks, k)
           left == Popped(free_gpu_blocks, k)
<1>1. /\ r \notin DOMAIN block_table
      /\ Len(free_gpu_blocks) >= k
      /\ free_gpu_blocks' = left
      /\ ref_counts' = [b \in Block |-> IF \E i \in DOMAIN new : new[i] = b THEN 1 ELSE ref_counts[b]]
      /\ block_table' = Put(block_table, r, new)
      /\ UNCHANGED <<prompt_table, radix_cache>>
  BY DEF Allocate
<1>2. k \in Nat
  BY DivCeilType
<1>3. /\ CacheOK(radix_cache) /\ radix_cache.num_cached_blocks <= num_gpu_blocks \div 3
      /\ ref_counts \in [Block -> Nat] /\ free_gpu_blocks \in Seq(Block)
      /\ Distinct(free_gpu_blocks) /\ ZeroCounted(ref_counts, free_gpu_blocks)
  BY DEF IInv, TypeOK
<1> HIDE DEF k
<1>4. k <= Len(free_gpu_blocks)
  BY <1>1, <1>2, <1>3, LenProperties
<1>5. Listed \in [Block -> Nat] /\ Covers(ref_counts, Listed, radix_cache)
  BY ListedType
<1>6. /\ new \in Seq(Block) /\ Distinct(new) /\ left \in Seq(Block) /\ Distinct(left)
      /\ Taken(ref_counts, new) \in [Block -> Nat]
      /\ ZeroCounted(Taken(ref_counts, new), left)
      /\ Covers(Taken(ref_counts, new), Plus(Listed, new), radix_cache)
  BY <1>2, <1>3, <1>4, <1>5, TakeOK
<1> HIDE DEF new, left
<1>7. ref_counts' = Taken(ref_counts, new)
  BY <1>1 DEF Taken
<1>8. ASSUME NEW b \in Block
      PROVE  /\ IsFiniteSet(ListedIn(block_table', b))
             /\ Cardinality(ListedIn(block_table', b))
                  + Cardinality(NodeHolders(radix_cache'.nodes, b)) <= ref_counts'[b]
  <2>1. IsFiniteSet(ListedIn(block_table, b)) /\ Listed[b] = Cardinality(ListedIn(block_table, b))
    BY DEF IInv, Listed, TableHolders
  <2>2. /\ IsFiniteSet(ListedIn(Put(block_table, r, new), b))
        /\ Cardinality(ListedIn(Put(block_table, r, new), b))
             = Cardinality(ListedIn(block_table, b)) + Occurrences(new, b)
    BY <1>1, <2>1, <1>6, PutListed
  <2>3. Listed[b] + Occurrences(new, b) + Cardinality(NodeHolders(radix_cache.nodes, b)) <= ref_counts'[b]
    BY <1>6, <1>7 DEF Covers, Plus
  <2> QED BY <2>1, <2>2, <2>3, <1>1
<1>9. TypeOK'
  <2>1. /\ DOMAIN block_table' \subseteq Req
        /\ \A x \in DOMAIN block_table' : block_table'[x] \in Seq(Block)
    BY <1>1, <1>6 DEF IInv, TypeOK, Put
  <2>2. DOMAIN prompt_table' \subseteq DOMAIN block_table'
    BY <1>1 DEF IInv, TypeOK, Put
  <2>3. \A x \in DOMAIN prompt_table' : prompt_table'[x] \in Prompts
    BY <1>1 DEF IInv, TypeOK
  <2>4. /\ Nodes' \subseteq Seq(Token) \ {Root}
        /\ \A q \in Nodes' : /\ radix_cache'.nodes[q].block_ids \in Seq(Block)
                             /\ radix_cache'.nodes[q].path_blocks \in Seq(Block)
        /\ radix_cache'.num_cached_blocks \in Nat
    BY <1>1 DEF IInv, TypeOK, Nodes
  <2> QED BY <2>1, <2>2, <2>3, <2>4, <1>1, <1>6, <1>7 DEF TypeOK
<1>10. LegacyDistinct'
  <2> SUFFICES ASSUME NEW x \in DOMAIN block_table' \ DOMAIN prompt_table'
               PROVE  Distinct(block_table'[x])
    BY DEF LegacyDistinct, Distinct
  <2>1. CASE x = r
    BY <2>1, <1>1, <1>6 DEF Put
  <2>2. CASE x # r
    <3>1. x \in DOMAIN block_table \ DOMAIN prompt_table /\ block_table'[x] = block_table[x]
      BY <2>2, <1>1 DEF Put
    <3> QED BY <3>1 DEF IInv, LegacyDistinct
  <2> QED BY <2>1, <2>2
<1>11. CacheOK(radix_cache)' /\ radix_cache'.num_cached_blocks <= num_gpu_blocks \div 3
  BY <1>1, <1>3 DEF CacheOK, PathsCovered
<1>12. ZeroCounted(ref_counts', free_gpu_blocks') /\ Distinct(free_gpu_blocks')
  BY <1>1, <1>6, <1>7
<1> QED BY <1>8, <1>9, <1>10, <1>11, <1>12, NextIInv

\* What both branches of free do to the table: the places of r disappear.
LEMMA FreedListed ==
  ASSUME IInv, NEW r \in DOMAIN block_table, block_table' = Removed(block_table, r)
  PROVE  /\ block_table[r] \in Seq(Block)
         /\ DOMAIN block_table' = DOMAIN block_table \ {r}
         /\ \A x \in DOMAIN block_table' : block_table'[x] = block_table[x]
         /\ \A b \in Block : /\ IsFiniteSet(ListedIn(block_table', b))
                             /\ Cardinality(ListedIn(block_table', b)) \in Nat
                             /\ Listed[b] = Cardinality(ListedIn(block_table', b))
                                             + Occurrences(block_table[r], b)
<1>1. block_table[r] \in Seq(Block)
  BY DEF IInv, TypeOK
<1>2. ASSUME NEW b \in Block
      PROVE  /\ IsFiniteSet(ListedIn(block_table', b))
             /\ Cardinality(ListedIn(block_table', b)) \in Nat
             /\ Listed[b] = Cardinality(ListedIn(block_table', b)) + Occurrences(block_table[r], b)
  <2>1. IsFiniteSet(ListedIn(block_table, b)) /\ Listed[b] = Cardinality(ListedIn(block_table, b))
    BY DEF IInv, Listed, TableHolders
  <2>2. /\ IsFiniteSet(ListedIn(Removed(block_table, r), b))
        /\ Cardinality(ListedIn(block_table, b))
             = Cardinality(ListedIn(Removed(block_table, r), b)) + Occurrences(block_table[r], b)
    BY <1>1, <2>1, RemovedListed
  <2> QED BY <2>1, <2>2, FS_CardinalityType
<1> QED BY <1>1, <1>2 DEF Removed

LEMMA FreeToCacheStep ==
  ASSUME IInv, NEW r \in Req, FreeToCache(r)
  PROVE  IInv'
<1> DEFINE blocks == block_table[r]
<1>1. /\ r \in DOMAIN block_table /\ r \in DOMAIN prompt_table
      /\ ref_counts' = Deposited(blocks)
      /\ radix_cache' \in Insert(radix_cache, prompt_table[r], blocks)
      /\ block_table' = Removed(block_table, r)
      /\ prompt_table' = Removed(prompt_table, r)
      /\ UNCHANGED free_gpu_blocks
  BY DEF FreeToCache, PromptsLeft
<1>2. /\ blocks \in Seq(Block) /\ prompt_table[r] \in Seq(Token)
      /\ CacheOK(radix_cache) /\ ref_counts \in [Block -> Nat]
  BY <1>1 DEF IInv, TypeOK
<1>3. /\ CacheOK(radix_cache') /\ radix_cache'.num_cached_blocks <= num_gpu_blocks \div 3
      /\ \A b : Cardinality(NodeHolders(radix_cache'.nodes, b))
                   <= Cardinality(NodeHolders(radix_cache.nodes, b)) + Occurrences(blocks, b)
  <2> HIDE DEF blocks
  <2>1. PICK d \in Insert(radix_cache, prompt_table[r], blocks) : d = radix_cache'
    BY <1>1
  <2>2. /\ CacheOK(d) /\ d.num_cached_blocks <= num_gpu_blocks \div 3
        /\ \A b : Cardinality(NodeHolders(d.nodes, b))
                     <= Cardinality(NodeHolders(radix_cache.nodes, b)) + Occurrences(blocks, b)
    BY <1>2, InsertOK
  <2> QED BY <2>1, <2>2
<1>4. ref_counts' = ref_counts
  <2>1. ASSUME NEW b \in Block
        PROVE  Deposited(blocks)[b] = ref_counts[b]
    <3>1. Occurrences(blocks, b) \in Nat /\ ref_counts[b] \in Nat
      BY <1>2, OccurrencesType
    <3> QED BY <3>1 DEF Dropped, Deposited
  <2> QED BY <1>1, <1>2, <2>1 DEF Deposited
<1>5. ASSUME NEW b \in Block
      PROVE  /\ IsFiniteSet(ListedIn(block_table', b))
             /\ Cardinality(ListedIn(block_table', b))
                  + Cardinality(NodeHolders(radix_cache'.nodes, b)) <= ref_counts'[b]
  <2>1. /\ IsFiniteSet(ListedIn(block_table', b))
        /\ Cardinality(ListedIn(block_table', b)) \in Nat
        /\ Listed[b] = Cardinality(ListedIn(block_table', b)) + Occurrences(blocks, b)
    BY <1>1, FreedListed
  <2>2. Listed[b] + Cardinality(NodeHolders(radix_cache.nodes, b)) <= ref_counts[b]
    BY ListedType DEF Covers
  <2>3. /\ Cardinality(NodeHolders(radix_cache.nodes, b)) \in Nat
        /\ Cardinality(NodeHolders(radix_cache'.nodes, b)) \in Nat
        /\ Occurrences(blocks, b) \in Nat /\ ref_counts[b] \in Nat
    BY <1>2, <1>3, HoldersFinite, OccurrencesType
  <2>4. Cardinality(NodeHolders(radix_cache'.nodes, b))
          <= Cardinality(NodeHolders(radix_cache.nodes, b)) + Occurrences(blocks, b)
    BY <1>3
  <2> HIDE DEF blocks
  <2> QED BY <2>1, <2>2, <2>3, <2>4, <1>4
<1>6. /\ DOMAIN block_table' = DOMAIN block_table \ {r}
      /\ \A x \in DOMAIN block_table' : block_table'[x] = block_table[x]
  BY <1>1, FreedListed
<1>7. /\ DOMAIN prompt_table' = DOMAIN prompt_table \ {r}
      /\ \A x \in DOMAIN prompt_table' : prompt_table'[x] = prompt_table[x]
  BY <1>1 DEF Removed
<1>8. TypeOK'
  <2>1. /\ Nodes' \subseteq Seq(Token) \ {Root}
        /\ \A q \in Nodes' : /\ radix_cache'.nodes[q].block_ids \in Seq(Block)
                             /\ radix_cache'.nodes[q].path_blocks \in Seq(Block)
        /\ radix_cache'.num_cached_blocks \in Nat
    BY <1>3, FS_CardinalityType DEF CacheOK, Nodes
  <2>2. /\ DOMAIN block_table' \subseteq Req
        /\ \A x \in DOMAIN block_table' : block_table'[x] \in Seq(Block)
    BY <1>6 DEF IInv, TypeOK
  <2>3. /\ DOMAIN prompt_table' \subseteq DOMAIN block_table'
        /\ \A x \in DOMAIN prompt_table' : prompt_table'[x] \in Prompts
    BY <1>6, <1>7 DEF IInv, TypeOK
  <2> QED BY <2>1, <2>2, <2>3, <1>1, <1>4 DEF IInv, TypeOK
<1>9. LegacyDistinct'
  <2> SUFFICES ASSUME NEW x \in DOMAIN block_table' \ DOMAIN prompt_table'
               PROVE  Distinct(block_table'[x])
    BY DEF LegacyDistinct, Distinct
  <2>1. x \in DOMAIN block_table \ DOMAIN prompt_table /\ block_table'[x] = block_table[x]
    BY <1>6, <1>7
  <2> QED BY <2>1 DEF IInv, LegacyDistinct
<1>10. CacheOK(radix_cache)'
  BY <1>3 DEF CacheOK, PathsCovered
<1>11. ZeroCounted(ref_counts', free_gpu_blocks') /\ Distinct(free_gpu_blocks')
  BY <1>1, <1>4 DEF IInv
<1> QED BY <1>3, <1>5, <1>8, <1>9, <1>10, <1>11, NextIInv

LEMMA FreeToPoolStep ==
  ASSUME IInv, NEW r \in Req, FreeToPool(r)
  PROVE  IInv'
<1> DEFINE blocks == block_table[r]
           zero == {p \in Places(<<blocks>>) : Dropped(blocks)[blocks[p[2]]] = 0}
<1>1. PICK f \in InVisitOrder(zero) :
        free_gpu_blocks' = free_gpu_blocks \o [i \in DOMAIN f |-> blocks[f[i][2]]]
  BY DEF FreeToPool
<1>2. /\ r \in DOMAIN block_table /\ r \notin DOMAIN prompt_table
      /\ ref_counts' = Dropped(blocks)
      /\ block_table' = Removed(block_table, r)
      /\ UNCHANGED <<prompt_table, radix_cache>>
  BY DEF FreeToPool
<1> DEFINE pushed == [i \in DOMAIN f |-> blocks[f[i][2]]]
<1>3. /\ blocks \in Seq(Block) /\ Distinct(blocks)
      /\ CacheOK(radix_cache) /\ ref_counts \in [Block -> Nat]
      /\ free_gpu_blocks \in Seq(Block) /\ Distinct(free_gpu_blocks)
      /\ ZeroCounted(ref_counts, free_gpu_blocks)
  BY <1>2 DEF IInv, TypeOK, LegacyDistinct
<1>4. /\ DOMAIN blocks = 1..Len(blocks) /\ Len(blocks) \in Nat
      /\ \A i \in DOMAIN blocks : blocks[i] \in Block
  BY <1>3, LenProperties, ElementOfSeq
<1>5. \A p \in zero : /\ p = <<1, p[2]>> /\ p[2] \in DOMAIN blocks
                       /\ ref_counts'[blocks[p[2]]] = 0
  <2>1. \A p : p \in Places(<<blocks>>) => p = <<1, p[2]>> /\ p[2] \in DOMAIN blocks
    <3>1. DOMAIN <<blocks>> = {1} /\ <<blocks>>[1] = blocks
      OBVIOUS
    <3> QED BY <3>1 DEF Places
  <2> QED BY <2>1, <1>2
<1>6. IsFiniteSet(zero) /\ Cardinality(zero) \in Nat
  <2>1. IsFiniteSet({1} \X (DOMAIN blocks))
    <3>1. IsFiniteSet(DOMAIN blocks)
      BY <1>4, FS_Interval
    <3> QED BY <3>1, TaggedCardinality
  <2>2. zero \subseteq {1} \X (DOMAIN blocks)
    BY <1>5
  <2> QED BY <2>1, <2>2, FS_Subset, FS_CardinalityType
<1> HIDE DEF zero
<1>7. /\ DOMAIN f = 1..Cardinality(zero)
      /\ \A i \in DOMAIN f : f[i] \in zero
      /\ \A i, j \in DOMAIN f : i # j => f[i] # f[j]
  <2>1. /\ f \in [1..Cardinality(zero) -> zero]
        /\ \A j, k \in DOMAIN f : j < k => Visited(f[j], f[k])
    BY DEF InVisitOrder
  <2>2. \A p \in zero : ~Visited(p, p)
    <3>1. \A i \in DOMAIN blocks : ~(i < i)
      BY <1>4
    <3>2. ~(1 < 1)
      OBVIOUS
    <3>3. \A p \in zero : p[1] = 1 /\ p[2] \in DOMAIN blocks
      BY <1>5
    <3> QED BY <3>1, <3>2, <3>3 DEF Visited
  <2>3. \A n \in Nat : \A i, j \in 1..n : i # j => i < j \/ j < i
    OBVIOUS
  <2>4. \A i, j \in 1..Cardinality(zero) : i # j => i < j \/ j < i
    BY <2>3, <1>6
  <2>5. DOMAIN f = 1..Cardinality(zero) /\ \A i \in DOMAIN f : f[i] \in zero
    BY <2>1
  <2> QED BY <2>1, <2>2, <2>4, <2>5, Zenon
<1>8. /\ pushed \in Seq(Block)
      /\ Distinct(pushed)
      /\ \A i \in DOMAIN pushed : /\ ref_counts'[pushed[i]] = 0
                                  /\ \E j \in DOMAIN blocks : blocks[j] = pushed[i]
  <2>1. \A i \in DOMAIN f : /\ f[i] = <<1, f[i][2]>> /\ f[i][2] \in DOMAIN blocks
                            /\ blocks[f[i][2]] \in Block /\ ref_counts'[blocks[f[i][2]]] = 0
    BY <1>4, <1>5, <1>7
  <2>2. pushed \in [1..Cardinality(zero) -> Block]
    BY <2>1, <1>7
  <2>3. pushed \in Seq(Block)
    <3>1. \A n \in Nat : [1..n -> Block] \subseteq Seq(Block)
      BY SeqDef
    <3> QED BY <3>1, <2>2, <1>6
  <2>4. Distinct(pushed)
    <3> SUFFICES ASSUME NEW i \in DOMAIN f, NEW j \in DOMAIN f, i # j
                 PROVE  blocks[f[i][2]] # blocks[f[j][2]]
      BY DEF Distinct
    <3>1. f[i][2] # f[j][2]
      BY <2>1, <1>7
    <3> QED BY <3>1, <2>1, <1>3 DEF Distinct
  <2> QED BY <2>1, <2>3, <2>4
<1>9. ASSUME NEW b \in Block
      PROVE  /\ IsFiniteSet(ListedIn(block_table', b))
             /\ Cardinality(ListedIn(block_table', b))
                  + Cardinality(NodeHolders(radix_cache'.nodes, b)) <= ref_counts'[b]
             /\ ref_counts'[b] \in Nat
             /\ ref_counts[b] = 0 => ref_counts'[b] = 0 /\ Occurrences(blocks, b) = 0
  <2>1. /\ IsFiniteSet(ListedIn(block_table', b))
        /\ Cardinality(ListedIn(block_table', b)) \in Nat
        /\ Listed[b] = Cardinality(ListedIn(block_table', b)) + Occurrences(blocks, b)
    BY <1>2, FreedListed
  <2>2. Listed[b] + Cardinality(NodeHolders(radix_cache.nodes, b)) <= ref_counts[b]
    BY ListedType DEF Covers
  <2>3. /\ Cardinality(NodeHolders(radix_cache.nodes, b)) \in Nat
        /\ Occurrences(blocks, b) \in Nat /\ ref_counts[b] \in Nat
    BY <1>3, HoldersFinite, OccurrencesType
  <2>4. ref_counts'[b] = ref_counts[b] - Occurrences(blocks, b) /\ radix_cache' = radix_cache
    BY <1>2 DEF Dropped
  <2> HIDE DEF blocks
  <2> QED BY <2>1, <2>2, <2>3, <2>4
<1>10. \A i \in DOMAIN free_gpu_blocks :
          /\ free_gpu_blocks[i] \in Block
          /\ ref_counts'[free_gpu_blocks[i]] = 0
          /\ \A j \in DOMAIN blocks : blocks[j] # free_gpu_blocks[i]
  <2> SUFFICES ASSUME NEW i \in DOMAIN free_gpu_blocks
               PROVE  /\ free_gpu_blocks[i] \in Block
                      /\ ref_counts'[free_gpu_blocks[i]] = 0
                      /\ \A j \in DOMAIN blocks : blocks[j] # free_gpu_blocks[i]
    OBVIOUS
  <2>1. free_gpu_blocks[i] \in Block /\ ref_counts[free_gpu_blocks[i]] = 0
    BY <1>3 DEF ZeroCounted
  <2>2. ref_counts'[free_gpu_blocks[i]] = 0 /\ Occurrences(blocks, free_gpu_blocks[i]) = 0
    BY <2>1, <1>9
  <2> QED BY <2>1, <2>2, <1>3, OccurrencesType
<1> HIDE DEF pushed, blocks
<1>11. free_gpu_blocks' = free_gpu_blocks \o pushed
  BY <1>1 DEF pushed, blocks
<1>12. /\ free_gpu_blocks' \in Seq(Block) /\ Distinct(free_gpu_blocks')
       /\ \A i \in DOMAIN free_gpu_blocks' :
             \/ \E j \in DOMAIN free_gpu_blocks : free_gpu_blocks[j] = free_gpu_blocks'[i]
             \/ \E j \in DOMAIN pushed : pushed[j] = free_gpu_blocks'[i]
  <2>1. \A i \in DOMAIN free_gpu_blocks, j \in DOMAIN pushed : free_gpu_blocks[i] # pushed[j]
    BY <1>8, <1>10
  <2>2. PICK s \in Seq(Block) : s = free_gpu_blocks
    BY <1>3
  <2>3. PICK t \in Seq(Block) : t = pushed
    BY <1>8
  <2>4. /\ s \in Seq(Block) /\ t \in Seq(Block) /\ Distinct(s) /\ Distinct(t)
        /\ \A i \in DOMAIN s, j \in DOMAIN t : s[i] # t[j]
    BY <2>1, <2>2, <2>3, <1>3, <1>8
  <2>5. /\ s \o t \in Seq(Block) /\ Distinct(s \o t)
        /\ \A e : (\E i \in DOMAIN (s \o t) : (s \o t)[i] = e)
                    => \/ \E j \in DOMAIN s : s[j] = e
                       \/ \E j \in DOMAIN t : t[j] = e
    BY <2>4, ConcatDistinct
  <2>6. free_gpu_blocks' = s \o t
    BY <2>2, <2>3, <1>11
  <2>7. free_gpu_blocks' \in Seq(Block) /\ Distinct(free_gpu_blocks')
    BY <2>5, <2>6
  <2>8. ASSUME NEW i \in DOMAIN free_gpu_blocks'
        PROVE  \/ \E j \in DOMAIN s : s[j] = free_gpu_blocks'[i]
               \/ \E j \in DOMAIN t : t[j] = free_gpu_blocks'[i]
    BY <2>5, <2>6
  <2> QED BY <2>2, <2>3, <2>7, <2>8
<1>13. ZeroCounted(ref_counts', free_gpu_blocks')
  BY <1>8, <1>10, <1>12 DEF ZeroCounted
<1>14. ref_counts' \in [Block -> Nat]
  BY <1>2, <1>9 DEF Dropped
<1>15. /\ DOMAIN block_table' = DOMAIN block_table \ {r}
       /\ \A x \in DOMAIN block_table' : block_table'[x] = block_table[x]
  BY <1>2, FreedListed
<1>16. TypeOK'
  <2>1. /\ DOMAIN block_table' \subseteq Req
        /\ \A x \in DOMAIN block_table' : block_table'[x] \in Seq(Block)
    BY <1>15 DEF IInv, TypeOK
  <2>2. /\ DOMAIN prompt_table' \subseteq DOMAIN block_table'
        /\ \A x \in DOMAIN prompt_table' : prompt_table'[x] \in Prompts
    BY <1>2, <1>15 DEF IInv, TypeOK
  <2>3. /\ Nodes' \subseteq Seq(Token) \ {Root}
        /\ \A q \in Nodes' : /\ radix_cache'.nodes[q].block_ids \in Seq(Block)
                             /\ radix_cache'.nodes[q].path_blocks \in Seq(Block)
        /\ radix_cache'.num_cached_blocks \in Nat
    BY <1>2 DEF IInv, TypeOK, Nodes
  <2> QED BY <2>1, <2>2, <2>3, <1>12, <1>14 DEF TypeOK
<1>17. LegacyDistinct'
  <2> SUFFICES ASSUME NEW x \in DOMAIN block_table' \ DOMAIN prompt_table'
               PROVE  Distinct(block_table'[x])
    BY DEF LegacyDistinct, Distinct
  <2>1. x \in DOMAIN block_table \ DOMAIN prompt_table /\ block_table'[x] = block_table[x]
    BY <1>2, <1>15
  <2> QED BY <2>1 DEF IInv, LegacyDistinct
<1>18. CacheOK(radix_cache)' /\ radix_cache'.num_cached_blocks <= num_gpu_blocks \div 3
  BY <1>2 DEF IInv, CacheOK, PathsCovered
<1> QED BY <1>9, <1>12, <1>13, <1>16, <1>17, <1>18, NextIInv

LEMMA StutterStep ==
  ASSUME IInv, UNCHANGED vars
  PROVE  IInv'
BY DEF vars, IInv, TypeOK, Nodes, CacheOK, PathsCovered, TableHolders, CacheHolders,
       RefsCoverHolders, ZeroCounted, Distinct, LegacyDistinct

LEMMA InductiveStep ==
  ASSUME IInv, [Next]_vars
  PROVE  IInv'
<1>1. CASE UNCHANGED vars
  BY <1>1, StutterStep
<1>2. ASSUME NEW r \in Req, NEW tokens \in Prompts, AllocateWithPrefix(r, tokens)
      PROVE  IInv'
  BY <1>2, GrantStep
<1>3. ASSUME NEW r \in Req, NEW tokens \in Prompts, AllocateRefused(r, tokens)
      PROVE  IInv'
  BY <1>3, RefuseStep
<1>4. ASSUME NEW r \in Req, NEW n \in LegacySizes, Allocate(r, n)
      PROVE  IInv'
  BY <1>4, AllocateStep
<1>5. ASSUME NEW r \in Req, FreeToCache(r)
      PROVE  IInv'
  BY <1>5, FreeToCacheStep
<1>6. ASSUME NEW r \in Req, FreeToPool(r)
      PROVE  IInv'
  BY <1>6, FreeToPoolStep
<1> QED BY <1>1, <1>2, <1>3, <1>4, <1>5, <1>6 DEF Next

-----------------------------------------------------------------------------
(* The theorems                                                            *)

\* The inductive invariant holds of every state the manager can reach.
THEOREM Inductive == Spec => []IInv
<1>1. Init => IInv
  BY InitIInv
<1>2. IInv /\ [Next]_vars => IInv'
  BY InductiveStep
<1> QED BY <1>1, <1>2, PTL DEF Spec

\* Every state of the manager has the shape TypeOK describes; in particular no
\* count is ever decremented below zero.
THEOREM TypeCorrect == Spec => []TypeOK
<1>1. IInv => TypeOK
  BY DEF IInv
<1> QED BY <1>1, Inductive, PTL

\* allocate_with_prefix, its rollback and its evictions, and both branches of
\* free leave every block with at least as many counted references as there are
\* places that list it.
THEOREM ReferencesCovered == Spec => []RefsCoverHolders
<1>1. IInv => RefsCoverHolders
  BY DEF IInv
<1> QED BY <1>1, Inductive, PTL

\* No block in the pool is listed by a running request or by the cache.
THEOREM PoolUnheld == Spec => []FreeBlocksUnheld
<1>1. ASSUME IInv
      PROVE  FreeBlocksUnheld
  <2> SUFFICES ASSUME NEW i \in DOMAIN free_gpu_blocks
               PROVE  /\ TableHolders(free_gpu_blocks[i]) = {}
                      /\ CacheHolders(free_gpu_blocks[i]) = {}
    BY DEF FreeBlocksUnheld
  <2> DEFINE b == free_gpu_blocks[i]
  <2>1. b \in Block /\ ref_counts[b] = 0
    BY <1>1 DEF IInv, TypeOK, ZeroCounted
  <2>2. IsFiniteSet(TableHolders(b)) /\ IsFiniteSet(CacheHolders(b))
    BY <1>1, <2>1, HoldersFinite DEF IInv, CacheHolders
  <2>3. Cardinality(TableHolders(b)) + Cardinality(CacheHolders(b)) <= 0
    BY <1>1, <2>1 DEF IInv, RefsCoverHolders
  <2>4. Cardinality(TableHolders(b)) \in Nat /\ Cardinality(CacheHolders(b)) \in Nat
    BY <2>2, FS_CardinalityType
  <2>5. Cardinality(TableHolders(b)) = 0 /\ Cardinality(CacheHolders(b)) = 0
    BY <2>3, <2>4
  <2> HIDE DEF b
  <2>6. TableHolders(b) = {} /\ CacheHolders(b) = {}
    BY <2>2, <2>5, FS_EmptySet
  <2> QED BY <2>6 DEF b
<1> QED BY <1>1, Inductive, PTL

\* No block is ever in the pool twice.
THEOREM PoolDistinct == Spec => []NoDoubleFree
<1>1. IInv => NoDoubleFree
  BY DEF IInv, Distinct, NoDoubleFree
<1> QED BY <1>1, Inductive, PTL

\* num_cached_blocks counts the listed blocks of the tree, and stays within the
\* third of the pool that BlockManager::new grants the cache.
THEOREM CacheBounded == Spec => []CacheWithinCapacity
<1>1. IInv => CacheWithinCapacity
  BY DEF IInv, CacheOK, CacheWithinCapacity, Nodes
<1> QED BY <1>1, Inductive, PTL

-----------------------------------------------------------------------------
(* Room                                                                    *)

\* DivCeil(n, block_size) blocks hold n tokens.
LEMMA RoomForTokens ==
  ASSUME NEW n \in Nat
  PROVE  DivCeil(n, block_size) \in Nat /\ n <= DivCeil(n, block_size) * block_size
<1> DEFINE a == n + block_size - 1
           q == a \div block_size
<1>1. a \in Nat /\ block_size \in Nat \ {0}
  OBVIOUS
<1> HIDE DEF a
<1>2. /\ q \in Int /\ a % block_size \in 0..block_size - 1
      /\ a = block_size * q + (a % block_size)
  BY <1>1
<1>3. block_size * q = q * block_size /\ q * block_size \in Int
  BY <1>1, <1>2
<1> HIDE DEF q
<1>4. n <= q * block_size
  BY <1>1, <1>2, <1>3 DEF a
<1> QED BY <1>4, DivCeilType DEF DivCeil, q, a

LEMMA RoomAdds ==
  ASSUME NEW m \in Nat, NEW n \in Nat
  PROVE  /\ m * block_size \in Nat /\ n * block_size \in Nat
         /\ (m + n) * block_size = m * block_size + n * block_size
OBVIOUS

\* What is popped off a pool that is large enough.
LEMMA TopType ==
  ASSUME NEW pool \in Seq(Block), NEW n \in Nat, n <= Len(pool)
  PROVE  /\ Top(pool, n) \in Seq(Block) /\ Len(Top(pool, n)) = n
         /\ \A i \in DOMAIN Top(pool, n) :
              \E k \in DOMAIN pool : Top(pool, n)[i] = pool[k]
<1>1. /\ Len(pool) \in Nat /\ DOMAIN pool = 1..Len(pool)
      /\ \A i \in DOMAIN pool : pool[i] \in Block
  BY LenProperties, ElementOfSeq
<1>2. \A i \in 1..n : Len(pool) + 1 - i \in DOMAIN pool
  BY <1>1
<1>3. Top(pool, n) \in [1..n -> Block]
  BY <1>1, <1>2 DEF Top
<1>4. Top(pool, n) \in Seq(Block) /\ Len(Top(pool, n)) = n
  BY <1>3
<1> QED BY <1>2, <1>3, <1>4 DEF Top

\* The blocks a hit on a node reports have room for the node's tokens.
PathsFit(nodes) == \A q \in DOMAIN nodes : Len(q) <= Len(nodes[q].path_blocks) * block_size

LEMMA EvictionFits ==
  ASSUME NEW c, PathsFit(c.nodes), NEW es
  PROVE  PathsFit(AfterEviction(c, es).nodes)
<1>1. /\ DOMAIN AfterEviction(c, es).nodes \subseteq DOMAIN c.nodes
      /\ \A q \in DOMAIN AfterEviction(c, es).nodes : AfterEviction(c, es).nodes[q] = c.nodes[q]
  BY DEF AfterEviction, Remaining
<1> QED BY <1>1 DEF PathsFit

\* insert hangs blocks with room for the whole prompt below a path that has some
\* already.
LEMMA InsertFits ==
  ASSUME NEW c, CacheOK(c), PathsFit(c.nodes),
         NEW tokens \in Seq(Token), NEW blocks \in Seq(Block),
         Len(tokens) <= Len(blocks) * block_size,
         NEW d \in Insert(c, tokens, blocks)
  PROVE  PathsFit(d.nodes)
<1>1. PICK g \in Grown(c, tokens, blocks) :
        d \in IF g.num_cached_blocks > num_gpu_blocks \div 3
                THEN {AfterEviction(g, es) : es \in EvictionRuns(g)}
                ELSE {g}
  BY DEF Insert
<1>2. PathsFit(g.nodes)
  <2>1. CASE g = c
    BY <2>1
  <2>2. ASSUME NEW a \in VacantAt(DOMAIN c.nodes, tokens), g = AddNode(c, a, tokens, blocks)
        PROVE  PathsFit(g.nodes)
    <3> DEFINE rest == SubSeq(tokens, Len(a) + 1, Len(tokens))
               new == a \o rest
               path == PathBlocks(c.nodes, a) \o blocks
    <3>1. /\ a \in Seq(Token) /\ (a = Root \/ a \in DOMAIN c.nodes)
          /\ Len(a) \in Nat /\ Len(tokens) \in Nat /\ Len(a) < Len(tokens)
      <4>1. a \in DOMAIN c.nodes \cup {Root} /\ DOMAIN c.nodes \subseteq Seq(Token)
        BY DEF VacantAt, CacheOK
      <4>2. a \in Seq(Token)
        BY <4>1, EmptySeq DEF Root
      <4> QED BY <4>1, <4>2, LenProperties DEF VacantAt
    <3>2. Len(new) = Len(tokens)
      BY <3>1
    <3>3. PathBlocks(c.nodes, a) \in Seq(Block)
      BY <3>1 DEF PathBlocks, CacheOK
    <3>4. /\ Len(path) = Len(PathBlocks(c.nodes, a)) + Len(blocks)
          /\ Len(PathBlocks(c.nodes, a)) \in Nat /\ Len(blocks) \in Nat
      BY <3>3, ConcatProperties, LenProperties
    <3>5. Len(new) <= Len(path) * block_size
      BY <3>1, <3>2, <3>4, RoomAdds
    <3>6. /\ DOMAIN g.nodes = DOMAIN c.nodes \cup {new}
          /\ \A q \in DOMAIN g.nodes :
               g.nodes[q].path_blocks = IF q = new THEN path ELSE c.nodes[q].path_blocks
      BY <2>2 DEF AddNode
    <3> HIDE DEF new, path
    <3> QED BY <3>5, <3>6 DEF PathsFit
  <2> QED BY <2>1, <2>2 DEF Grown
<1> QED BY <1>1, <1>2, EvictionFits

-----------------------------------------------------------------------------
(* An allocation                                                           *)

\* A block that a cached prefix of the tokens lists.
OfPrefix(tokens, b) ==
  \E q \in Nodes : /\ IsPrefix(q, tokens)
                   /\ \E j \in DOMAIN radix_cache.nodes[q].block_ids :
                        radix_cache.nodes[q].block_ids[j] = b

\* What a hit reports has room for its tokens, and is listed by nodes on its path.
LEMMA HitFits ==
  ASSUME IInv, PathsFit(radix_cache.nodes),
         NEW tokens \in Seq(Token), NEW h \in Hits(radix_cache, tokens)
  PROVE  LET cached == PathBlocks(radix_cache.nodes, h)
         IN /\ Len(h) <= Len(cached) * block_size
            /\ \A i \in DOMAIN cached : OfPrefix(tokens, cached[i])
<1>1. CASE h = Root
  <2>1. PathBlocks(radix_cache.nodes, h) = <<>> /\ Len(h) = 0
    BY <1>1 DEF PathBlocks, Root
  <2> QED BY <2>1
<1>2. CASE h # Root
  <2>1. /\ h \in Nodes /\ IsPrefix(h, tokens)
        /\ PathBlocks(radix_cache.nodes, h) = radix_cache.nodes[h].path_blocks
    BY <1>2 DEF Hits, Matched, Nodes, PathBlocks
  <2>2. Len(h) <= Len(radix_cache.nodes[h].path_blocks) * block_size
    BY <2>1 DEF PathsFit, Nodes
  <2>3. ASSUME NEW i \in DOMAIN radix_cache.nodes[h].path_blocks
        PROVE  OfPrefix(tokens, radix_cache.nodes[h].path_blocks[i])
    <3>1. PICK q \in Nodes :
            /\ IsPrefix(q, h)
            /\ \E j \in DOMAIN radix_cache.nodes[q].block_ids :
                 radix_cache.nodes[q].block_ids[j] = radix_cache.nodes[h].path_blocks[i]
      BY <2>1, <2>3 DEF IInv, CacheOK, PathsCovered, Nodes
    <3>2. q \in Seq(Token) /\ h \in Seq(Token)
      BY <2>1 DEF IInv, CacheOK, Nodes
    <3>3. IsPrefix(q, tokens)
      BY <2>1, <3>1, <3>2, PrefixTransitive
    <3> QED BY <3>1, <3>3 DEF OfPrefix
  <2> QED BY <2>1, <2>2, <2>3
<1> QED BY <1>1, <1>2

\* The cache an eviction leaves is one that evict_lru may leave.
LEMMA EvictCache ==
  ASSUME NEW c, NEW refs, NEW pool, NEW o \in Evict(c, refs, pool)
  PROVE  \E es \in EvictionRuns(c) : o.cache = AfterEviction(c, es)
<1>1. PICK es \in EvictionRuns(c) :
        \E f \in InVisitOrder(ZeroingPlaces(EvictedLists(c, es), refs)) :
          o = [cache |-> AfterEviction(c, es),
               refs |-> [b \in Block |-> refs[b] - Cardinality(PlacesOf(EvictedLists(c, es), b))],
               pool |-> pool \o [i \in DOMAIN f |-> EvictedLists(c, es)[f[i][1]][f[i][2]]]]
  BY DEF Evict
<1> QED BY <1>1

\* Hit and need together have room for the prompt, and the eviction leaves paths
\* with room.
LEMMA AttemptFits ==
  ASSUME IInv, PathsFit(radix_cache.nodes),
         NEW tokens \in Seq(Token), NEW t \in Attempts(tokens)
  PROVE  /\ PathsFit(t.cache.nodes)
         /\ t.cached \in Seq(Block)
         /\ Len(tokens) <= (Len(t.cached) + t.needed) * block_size
         /\ \A i \in DOMAIN t.cached : OfPrefix(tokens, t.cached[i])
<1> DEFINE cached(h) == PathBlocks(radix_cache.nodes, h)
           needed(h) == DivCeil(Len(tokens) - Len(h), block_size)
           touched == Touch(radix_cache, tokens)
           held(h) == [b \in Block |-> ref_counts[b] + Occurrences(cached(h), b)]
           outcomes(h) == IF Len(free_gpu_blocks) < needed(h)
                            THEN Evict(touched, held(h), free_gpu_blocks)
                            ELSE {[cache |-> touched, refs |-> held(h), pool |-> free_gpu_blocks]}
<1>1. PICK h \in Hits(radix_cache, tokens) : \E o \in outcomes(h) :
          t = [cached |-> cached(h), hit_len |-> Len(h), needed |-> needed(h),
               cache |-> o.cache, refs |-> o.refs, pool |-> o.pool]
  BY DEF Attempts
<1>2. PICK o \in outcomes(h) :
          t = [cached |-> cached(h), hit_len |-> Len(h), needed |-> needed(h),
               cache |-> o.cache, refs |-> o.refs, pool |-> o.pool]
  BY <1>1
<1>3. /\ cached(h) \in Seq(Block) /\ Len(h) \in Nat /\ Len(h) <= Len(tokens)
      /\ Len(h) <= Len(cached(h)) * block_size
      /\ \A i \in DOMAIN cached(h) : OfPrefix(tokens, cached(h)[i])
  BY HitBlocks, HitFits DEF IInv
<1>4. PathsFit(touched.nodes)
  BY DEF Touch
<1>5. PathsFit(o.cache.nodes)
  <2>1. CASE o.cache = touched
    BY <2>1, <1>4
  <2>2. ASSUME NEW es, o.cache = AfterEviction(touched, es)
        PROVE  PathsFit(o.cache.nodes)
    BY <2>2, <1>4, EvictionFits
  <2>3. o.cache = touched \/ \E es : o.cache = AfterEviction(touched, es)
    <3>1. CASE Len(free_gpu_blocks) < needed(h)
      <4>1. o \in Evict(touched, held(h), free_gpu_blocks)
        BY <3>1, <1>2
      <4> HIDE DEF touched, held
      <4> QED BY <4>1, EvictCache
    <3>2. CASE ~(Len(free_gpu_blocks) < needed(h))
      <4>1. o = [cache |-> touched, refs |-> held(h), pool |-> free_gpu_blocks]
        BY <3>2, <1>2
      <4> HIDE DEF touched, held
      <4> QED BY <4>1
    <3> QED BY <3>1, <3>2
  <2> QED BY <2>1, <2>2, <2>3
<1>6. Len(tokens) <= (Len(cached(h)) + needed(h)) * block_size
  <2> DEFINE m == Len(cached(h))
             n == needed(h)
  <2>1. m \in Nat /\ Len(tokens) \in Nat /\ Len(tokens) - Len(h) \in Nat
    BY <1>3, LenProperties
  <2>2. n \in Nat /\ Len(tokens) - Len(h) <= n * block_size
    BY <2>1, RoomForTokens
  <2>3. m * block_size \in Nat /\ n * block_size \in Nat
        /\ (m + n) * block_size = m * block_size + n * block_size
    BY <2>1, <2>2, RoomAdds
  <2>4. Len(h) <= m * block_size
    BY <1>3
  <2> HIDE DEF m, n
  <2>5. Len(tokens) <= (m + n) * block_size
    BY <1>3, <2>1, <2>2, <2>3, <2>4
  <2> QED BY <2>5 DEF m, n
<1>7. t.cached = cached(h) /\ t.needed = needed(h) /\ t.cache = o.cache
  BY <1>2
<1> QED BY <1>3, <1>5, <1>6, <1>7

-----------------------------------------------------------------------------
(* The invariant                                                           *)

FitInv ==
  /\ PathsFit(radix_cache.nodes)
  /\ PromptsFit

\* A request without an entry in the block table has no prompt either.
LEMMA NewRequest ==
  ASSUME IInv, NEW r, r \notin DOMAIN block_table
  PROVE  r \notin DOMAIN prompt_table
BY DEF IInv, TypeOK

LEMMA InitFits == Init => FitInv
<1>1. DOMAIN EmptyCache.nodes = {}
  BY DEF EmptyCache
<1> QED BY <1>1 DEF Init, FitInv, PathsFit, PromptsFit

LEMMA GrantFits ==
  ASSUME IInv, FitInv, NEW r \in Req, NEW tokens \in Prompts, AllocateWithPrefix(r, tokens)
  PROVE  FitInv'
<1> tokens \in Seq(Token)
  OBVIOUS
<1>1. PICK t \in Attempts(tokens) : Grant(r, tokens, t)
  BY DEF AllocateWithPrefix
<1> DEFINE new == Top(t.pool, t.needed)
<1>2. /\ r \notin DOMAIN block_table
      /\ radix_cache' = t.cache
      /\ block_table' = Put(block_table, r, t.cached \o new)
      /\ prompt_table' = Put(prompt_table, r, tokens)
      /\ t.needed <= Len(t.pool)
  <2>1. r \notin DOMAIN block_table /\ Len(t.pool) >= t.needed
    BY <1>1 DEF AllocateWithPrefix, Grant
  <2>2. Len(t.pool) \in Nat /\ t.needed \in Nat
    BY AttemptsOK, LenProperties DEF AttemptOK
  <2> QED BY <2>1, <2>2, <1>1 DEF Grant
<1>3. /\ PathsFit(t.cache.nodes)
      /\ Len(tokens) <= (Len(t.cached) + t.needed) * block_size
  BY AttemptFits DEF FitInv
<1>4. /\ Len(t.cached \o new) = Len(t.cached) + t.needed
      /\ Len(t.cached) \in Nat /\ t.needed \in Nat
  <2>1. t.cached \in Seq(Block) /\ t.needed \in Nat /\ t.pool \in Seq(Block)
    BY AttemptsOK DEF AttemptOK
  <2>2. new \in Seq(Block) /\ Len(new) = t.needed
    BY <2>1, <1>2, TopType
  <2> HIDE DEF new
  <2>3. Len(t.cached \o new) = Len(t.cached) + Len(new) /\ Len(t.cached) \in Nat
    BY <2>1, <2>2, ConcatProperties, LenProperties
  <2> QED BY <2>1, <2>2, <2>3
<1> HIDE DEF new
<1>5. ASSUME NEW x \in DOMAIN prompt_table'
      PROVE  Len(block_table'[x]) * block_size >= Len(prompt_table'[x])
  <2>1. CASE x = r
    <3>1. block_table'[x] = t.cached \o new /\ prompt_table'[x] = tokens
      BY <2>1, <1>2 DEF Put
    <3>2. Len(block_table'[x]) = Len(t.cached) + t.needed /\ Len(prompt_table'[x]) = Len(tokens)
      BY <3>1, <1>4
    <3>3. /\ Len(t.cached) + t.needed \in Nat /\ Len(tokens) \in Nat
      BY <1>4, LenProperties
    <3> QED BY <3>2, <3>3, <1>3
  <2>2. CASE x # r
    <3>1. /\ x \in DOMAIN prompt_table /\ x \in DOMAIN block_table
          /\ block_table'[x] = block_table[x] /\ prompt_table'[x] = prompt_table[x]
      BY <2>2, <1>2 DEF Put, IInv, TypeOK
    <3> QED BY <3>1 DEF FitInv, PromptsFit
  <2> QED BY <2>1, <2>2
<1> QED BY <1>2, <1>3, <1>5 DEF FitInv, PathsFit, PromptsFit

LEMMA RefuseFits ==
  ASSUME IInv, FitInv, NEW r \in Req, NEW tokens \in Prompts, AllocateRefused(r, tokens)
  PROVE  FitInv'
<1> tokens \in Seq(Token)
  OBVIOUS
<1>1. PICK t \in Attempts(tokens) : Refuse(t)
  BY DEF AllocateRefused
<1>2. radix_cache' = t.cache /\ UNCHANGED <<block_table, prompt_table>>
  BY <1>1 DEF Refuse
<1>3. PathsFit(t.cache.nodes)
  BY AttemptFits DEF FitInv
<1> QED BY <1>2, <1>3 DEF FitInv, PathsFit, PromptsFit

LEMMA AllocateFits ==
  ASSUME IInv, FitInv, NEW r \in Req, NEW n \in LegacySizes, Allocate(r, n)
  PROVE  FitInv'
<1>1. /\ r \notin DOMAIN block_table /\ r \notin DOMAIN prompt_table
      /\ UNCHANGED <<prompt_table, radix_cache>>
  BY NewRequest DEF Allocate
<1>2. PICK new : block_table' = Put(block_table, r, new)
  BY DEF Allocate
<1>3. \A x \in DOMAIN prompt_table : block_table'[x] = block_table[x]
  BY <1>1, <1>2 DEF Put, IInv, TypeOK
<1> QED BY <1>1, <1>3 DEF FitInv, PathsFit, PromptsFit

\* Both branches of free: the others keep their blocks and their prompts.
LEMMA FreeFits ==
  ASSUME FitInv, IInv, NEW r,
         block_table' = Removed(block_table, r),
         prompt_table' = Removed(prompt_table, r),
         PathsFit(radix_cache'.nodes)
  PROVE  FitInv'
<1>1. \A x \in DOMAIN prompt_table' :
        /\ x \in DOMAIN prompt_table
        /\ block_table'[x] = block_table[x] /\ prompt_table'[x] = prompt_table[x]
  BY DEF Removed, IInv, TypeOK
<1> QED BY <1>1 DEF FitInv, PathsFit, PromptsFit

LEMMA FreeToCacheFits ==
  ASSUME IInv, FitInv, NEW r \in Req, FreeToCache(r)
  PROVE  FitInv'
<1> DEFINE blocks == block_table[r]
           tokens == prompt_table[r]
<1>1. /\ r \in DOMAIN block_table /\ r \in DOMAIN prompt_table
      /\ radix_cache' \in Insert(radix_cache, tokens, blocks)
      /\ block_table' = Removed(block_table, r)
      /\ prompt_table' = Removed(prompt_table, r)
  BY DEF FreeToCache, PromptsLeft
<1>2. blocks \in Seq(Block) /\ tokens \in Seq(Token) /\ CacheOK(radix_cache)
  BY <1>1 DEF IInv, TypeOK
<1>3. Len(tokens) <= Len(blocks) * block_size
  <2>1. Len(blocks) * block_size >= Len(tokens)
    BY <1>1 DEF FitInv, PromptsFit
  <2>2. Len(blocks) \in Nat /\ Len(tokens) \in Nat
    BY <1>2, LenProperties
  <2> QED BY <2>1, <2>2
<1> HIDE DEF blocks, tokens
<1>4. PathsFit(radix_cache'.nodes)
  BY <1>1, <1>2, <1>3, InsertFits DEF FitInv
<1> QED BY <1>1, <1>4, FreeFits

LEMMA FreeToPoolFits ==
  ASSUME IInv, FitInv, NEW r \in Req, FreeToPool(r)
  PROVE  FitInv'
<1>1. /\ r \notin DOMAIN prompt_table
      /\ block_table' = Removed(block_table, r)
      /\ UNCHANGED <<prompt_table, radix_cache>>
  BY DEF FreeToPool
<1>2. \A x \in DOMAIN prompt_table : block_table'[x] = block_table[x]
  BY <1>1 DEF Removed, IInv, TypeOK
<1> QED BY <1>1, <1>2 DEF FitInv, PathsFit, PromptsFit

LEMMA FitStep ==
  ASSUME IInv, FitInv, [Next]_vars
  PROVE  FitInv'
<1>1. CASE UNCHANGED vars
  BY <1>1 DEF vars, FitInv, PathsFit, PromptsFit
<1>2. ASSUME NEW r \in Req, NEW tokens \in Prompts, AllocateWithPrefix(r, tokens)
      PROVE  FitInv'
  BY <1>2, GrantFits
<1>3. ASSUME NEW r \in Req, NEW tokens \in Prompts, AllocateRefused(r, tokens)
      PROVE  FitInv'
  BY <1>3, RefuseFits
<1>4. ASSUME NEW r \in Req, NEW n \in LegacySizes, Allocate(r, n)
      PROVE  FitInv'
  BY <1>4, AllocateFits
<1>5. ASSUME NEW r \in Req, FreeToCache(r)
      PROVE  FitInv'
  BY <1>5, FreeToCacheFits
<1>6. ASSUME NEW r \in Req, FreeToPool(r)
      PROVE  FitInv'
  BY <1>6, FreeToPoolFits
<1> QED BY <1>1, <1>2, <1>3, <1>4, <1>5, <1>6 DEF Next

\* A request's blocks have room for its whole prompt, and a cached path has room
\* for the tokens it stands for.
THEOREM RoomInductive == Spec => [](IInv /\ FitInv)
<1>1. Init => FitInv
  BY InitFits
<1>2. IInv /\ FitInv /\ [Next]_vars => FitInv'
  BY FitStep
<1>3. Spec => []IInv
  BY Inductive
<1> QED BY <1>1, <1>2, <1>3, PTL DEF Spec

\* allocate_with_prefix never grants fewer blocks than the prompt fills, whatever
\* part of them a hit on the cache contributes, and no later call takes one away.
THEOREM PromptsHaveRoom == Spec => []PromptsFit
<1>1. FitInv => PromptsFit
  BY DEF FitInv
<1> QED BY <1>1, RoomInductive, PTL

-----------------------------------------------------------------------------
(* Sharing                                                                 *)

\* Some request lists block b.
InUse(b) == \E s \in DOMAIN block_table : \E j \in DOMAIN block_table[s] : block_table[s][j] = b

\* A block of a new request that others use comes from a cached prefix of its prompt.
NewSharing ==
  \A r \in DOMAIN block_table' \ DOMAIN block_table :
    \A i \in DOMAIN block_table'[r] :
      InUse(block_table'[r][i]) => /\ r \in DOMAIN prompt_table'
                                  /\ OfPrefix(prompt_table'[r], block_table'[r][i])

\* When the counts cover what the tables list, an uncounted block is in no table.
LEMMA UncountedUnused ==
  ASSUME IInv, NEW c, CacheOK(c), NEW refs, NEW base, Covers(refs, base, c),
         NEW b \in Block, refs[b] = 0, base[b] \in Nat, Listed[b] <= base[b]
  PROVE  ~InUse(b)
<1>1. Listed[b] \in Nat /\ Listed[b] = Cardinality(TableHolders(b))
  BY ListedType DEF Listed
<1>2. Cardinality(NodeHolders(c.nodes, b)) \in Nat
  BY HoldersFinite
<1>3. base[b] + Cardinality(NodeHolders(c.nodes, b)) <= 0
  BY DEF Covers
<1>4. Cardinality(TableHolders(b)) = 0
  BY <1>1, <1>2, <1>3
<1>5. TableHolders(b) = {}
  BY <1>4, FS_EmptySet DEF IInv
<1>6. ASSUME InUse(b) PROVE FALSE
  <2>1. PICK s \in DOMAIN block_table : \E j \in DOMAIN block_table[s] : block_table[s][j] = b
    BY <1>6 DEF InUse
  <2>2. PICK j \in DOMAIN block_table[s] : block_table[s][j] = b
    BY <2>1
  <2>3. <<s, j>> \in ListedIn(block_table, b)
    BY <2>2, ListedInDef
  <2> QED BY <2>3, <1>5 DEF TableHolders
<1> QED BY <1>6

LEMMA GrantShares ==
  ASSUME IInv, FitInv, NEW r \in Req, NEW tokens \in Prompts, AllocateWithPrefix(r, tokens)
  PROVE  NewSharing
<1> tokens \in Seq(Token)
  OBVIOUS
<1>1. PICK t \in Attempts(tokens) : Grant(r, tokens, t)
  BY DEF AllocateWithPrefix
<1> DEFINE new == Top(t.pool, t.needed)
           base == [b \in Block |-> Listed[b] + Occurrences(t.cached, b)]
<1>2. /\ block_table' = Put(block_table, r, t.cached \o new)
      /\ prompt_table' = Put(prompt_table, r, tokens)
      /\ Len(t.pool) >= t.needed
  BY <1>1 DEF Grant
<1>3. /\ t.cached \in Seq(Block) /\ t.needed \in Nat /\ CacheOK(t.cache)
      /\ t.pool \in Seq(Block) /\ ZeroCounted(t.refs, t.pool)
      /\ Covers(t.refs, base, t.cache)
  BY AttemptsOK DEF AttemptOK
<1>4. \A i \in DOMAIN t.cached : OfPrefix(tokens, t.cached[i])
  BY AttemptFits DEF FitInv
<1>5. /\ new \in Seq(Block)
      /\ \A i \in DOMAIN new : \E k \in DOMAIN t.pool : new[i] = t.pool[k]
  <2>1. t.needed <= Len(t.pool)
    BY <1>2, <1>3, LenProperties
  <2> QED BY <2>1, <1>3, TopType
<1> HIDE DEF new
<1>6. ASSUME NEW i \in DOMAIN new
      PROVE  ~InUse(new[i])
  <2>1. PICK k \in DOMAIN t.pool : new[i] = t.pool[k]
    BY <1>5
  <2>2. new[i] \in Block /\ t.refs[new[i]] = 0
    BY <2>1, <1>3, ElementOfSeq, LenProperties DEF ZeroCounted
  <2> DEFINE b == new[i]
  <2>3. Listed[b] \in Nat /\ Occurrences(t.cached, b) \in Nat
    BY <2>2, <1>3, ListedType, OccurrencesType
  <2>4. base[b] = Listed[b] + Occurrences(t.cached, b)
    BY <2>2
  <2>5. base[b] \in Nat /\ Listed[b] <= base[b]
    BY <2>3, <2>4
  <2> HIDE DEF b, base
  <2>6. ~InUse(b)
    BY <1>3, <2>2, <2>5, UncountedUnused DEF b
  <2> QED BY <2>6 DEF b
<1>7. DOMAIN block_table' \ DOMAIN block_table \subseteq {r}
  BY <1>2 DEF Put
<1>8. ASSUME NEW i \in DOMAIN block_table'[r], InUse(block_table'[r][i])
      PROVE  r \in DOMAIN prompt_table' /\ OfPrefix(prompt_table'[r], block_table'[r][i])
  <2>1. r \in DOMAIN prompt_table' /\ prompt_table'[r] = tokens
    BY <1>2 DEF Put
  <2>2. block_table'[r] = t.cached \o new
    BY <1>2 DEF Put
  <2> DEFINE e == block_table'[r][i]
  <2>3. \/ \E j \in DOMAIN t.cached : t.cached[j] = e
        \/ \E j \in DOMAIN new : new[j] = e
    BY <2>2, <1>3, <1>5, <1>8, ConcatDistinct
  <2>4. ~ \E j \in DOMAIN new : new[j] = e
    BY <1>6, <1>8
  <2> HIDE DEF e
  <2>5. OfPrefix(tokens, e)
    BY <2>3, <2>4, <1>4
  <2> QED BY <2>1, <2>5 DEF e
<1> QED BY <1>7, <1>8 DEF NewSharing

LEMMA AllocateShares ==
  ASSUME IInv, NEW r \in Req, NEW n \in LegacySizes, Allocate(r, n)
  PROVE  NewSharing
<1> DEFINE k == DivCeil(n, block_size)
           new == Top(free_gpu_blocks, k)
<1>1. Len(free_gpu_blocks) >= k /\ block_table' = Put(block_table, r, new)
  BY DEF Allocate
<1>2. /\ free_gpu_blocks \in Seq(Block) /\ ZeroCounted(ref_counts, free_gpu_blocks)
      /\ CacheOK(radix_cache) /\ Covers(ref_counts, Listed, radix_cache)
  BY ListedType DEF IInv, TypeOK
<1>3. \A i \in DOMAIN new : \E m \in DOMAIN free_gpu_blocks : new[i] = free_gpu_blocks[m]
  <2>1. k \in Nat
    BY DivCeilType
  <2>2. k <= Len(free_gpu_blocks)
    BY <2>1, <1>1, <1>2, LenProperties
  <2> HIDE DEF k
  <2> QED BY <2>1, <2>2, <1>2, TopType
<1> HIDE DEF new
<1>4. ASSUME NEW i \in DOMAIN new
      PROVE  ~InUse(new[i])
  <2>1. PICK m \in DOMAIN free_gpu_blocks : new[i] = free_gpu_blocks[m]
    BY <1>3
  <2>2. new[i] \in Block /\ ref_counts[new[i]] = 0
    BY <2>1, <1>2, ElementOfSeq, LenProperties DEF ZeroCounted
  <2>3. Listed[new[i]] \in Nat /\ Listed[new[i]] <= Listed[new[i]]
    BY <2>2, ListedType
  <2> QED BY <1>2, <2>2, <2>3, UncountedUnused
<1>5. /\ DOMAIN block_table' \ DOMAIN block_table \subseteq {r}
      /\ block_table'[r] = new
  BY <1>1 DEF Put
<1> QED BY <1>4, <1>5 DEF NewSharing

LEMMA SharingStep ==
  ASSUME IInv, FitInv, [Next]_vars
  PROVE  NewSharing
<1>1. CASE UNCHANGED vars
  BY <1>1 DEF vars, NewSharing
<1>2. ASSUME NEW r \in Req, NEW tokens \in Prompts, AllocateWithPrefix(r, tokens)
      PROVE  NewSharing
  BY <1>2, GrantShares
<1>3. ASSUME NEW r \in Req, NEW tokens \in Prompts, AllocateRefused(r, tokens)
      PROVE  NewSharing
  BY <1>3 DEF AllocateRefused, Refuse, NewSharing
<1>4. ASSUME NEW r \in Req, NEW n \in LegacySizes, Allocate(r, n)
      PROVE  NewSharing
  BY <1>4, AllocateShares
<1>5. ASSUME NEW r \in Req, FreeToCache(r)
      PROVE  NewSharing
  BY <1>5 DEF FreeToCache, Removed, NewSharing
<1>6. ASSUME NEW r \in Req, FreeToPool(r)
      PROVE  NewSharing
  BY <1>6 DEF FreeToPool, Removed, NewSharing
<1> QED BY <1>1, <1>2, <1>3, <1>4, <1>5, <1>6 DEF Next

\* What allocate and allocate_with_prefix take from the pool nobody else uses; a
\* block a new request shares comes from a cached prefix of its own prompt.
THEOREM SharedThroughCache == Spec => SharingOnlyThroughCache
<1>1. IInv /\ FitInv /\ [Next]_vars =>
        [\A r \in DOMAIN block_table' \ DOMAIN block_table :
           \A i \in DOMAIN block_table'[r] :
             (\E s \in DOMAIN block_table : \E j \in DOMAIN block_table[s] :
                 block_table[s][j] = block_table'[r][i])
             => /\ r \in DOMAIN prompt_table'
                /\ \E q \in Nodes : /\ IsPrefix(q, prompt_table'[r])
                                   /\ \E j \in DOMAIN radix_cache.nodes[q].block_ids :
                                        radix_cache.nodes[q].block_ids[j] = block_table'[r][i]]_vars
  BY SharingStep DEF NewSharing, InUse, OfPrefix
<1> QED BY <1>1, RoomInductive, PTL DEF Spec, SharingOnlyThroughCache

-----------------------------------------------------------------------------
(* The order of evictions                                                  *)

LEMMA PrefixPoints ==
  ASSUME NEW S, NEW s \in Seq(S), NEW t \in Seq(S)
  PROVE  IsPrefix(s, t) <=> Len(s) <= Len(t) /\ \A i \in 1..Len(s) : s[i] = t[i]
<1>1. Len(s) \in Nat /\ Len(t) \in Nat
  BY LenProperties
<1>2. ASSUME IsPrefix(s, t)
      PROVE  Len(s) <= Len(t) /\ \A i \in 1..Len(s) : s[i] = t[i]
  <2>1. Len(s) <= Len(t) /\ SubSeq(s, 1, Len(s)) = SubSeq(t, 1, Len(s))
    BY <1>2 DEF IsPrefix
  <2>2. \A i \in 1..Len(s) : SubSeq(s, 1, Len(s))[i] = s[i] /\ SubSeq(t, 1, Len(s))[i] = t[i]
    BY <1>1, <2>1
  <2> QED BY <2>1, <2>2
<1>3. ASSUME Len(s) <= Len(t), \A i \in 1..Len(s) : s[i] = t[i]
      PROVE  IsPrefix(s, t)
  <2>1. SubSeq(s, 1, Len(s)) = SubSeq(t, 1, Len(s))
    BY <1>1, <1>3
  <2> QED BY <2>1, <1>3 DEF IsPrefix
<1> QED BY <1>2, <1>3

\* A strict prefix is shorter.
LEMMA StrictIsShorter ==
  ASSUME NEW S, NEW s \in Seq(S), NEW t \in Seq(S), IsStrictPrefix(s, t)
  PROVE  Len(s) < Len(t)
<1>1. Len(s) \in Nat /\ Len(t) \in Nat
  BY LenProperties
<1>2. Len(s) <= Len(t) /\ s # t /\ \A i \in 1..Len(s) : s[i] = t[i]
  BY PrefixPoints DEF IsStrictPrefix
<1>3. Len(s) = Len(t) => s = t
  BY <1>2, SeqEqual
<1> QED BY <1>1, <1>2, <1>3

\* Of two prefixes of one sequence the shorter is a prefix of the longer.
LEMMA PrefixesAreChained ==
  ASSUME NEW S, NEW s \in Seq(S), NEW t \in Seq(S), NEW u \in Seq(S),
         IsPrefix(s, u), IsPrefix(t, u), Len(s) <= Len(t)
  PROVE  IsPrefix(s, t)
<1>1. Len(s) \in Nat /\ Len(t) \in Nat
  BY LenProperties
<1>2. \A i \in 1..Len(s) : s[i] = u[i] /\ i \in 1..Len(t)
  BY <1>1, PrefixPoints
<1>3. \A i \in 1..Len(t) : t[i] = u[i]
  BY PrefixPoints
<1> QED BY <1>2, <1>3, PrefixPoints

\* x and y hang at the same node of the tree D.
Siblings(D, x, y) == \E a \in D \cup {Root} : IsChild(D, a, x) /\ IsChild(D, a, y)

\* evict_lru spares the more recent of two siblings: a leaf that stays is not older
\* than a sibling that goes.
LEMMA OlderSiblingGoes ==
  ASSUME NEW c, CacheOK(c), NEW es \in EvictionRuns(c),
         NEW q \in DOMAIN c.nodes, q \notin DOMAIN AfterEviction(c, es).nodes,
         NEW y \in DOMAIN AfterEviction(c, es).nodes,
         Siblings(DOMAIN c.nodes, q, y), IsLeaf(DOMAIN c.nodes, y)
  PROVE  <<y, q>> \notin c.older
<1> DEFINE D == DOMAIN c.nodes
           R(k) == Remaining(D, es, k)
<1>1. es \in Seq(D) /\ Len(es) \in Nat /\ DOMAIN es = 1..Len(es)
  BY EvictionRunSeq, LenProperties
<1>2. DOMAIN AfterEviction(c, es).nodes = R(Len(es))
  BY DEF AfterEviction
<1>3. \A k \in 1..Len(es) : FoundLeaf(R(k - 1), c.older, es[k])
  BY <1>1 DEF EvictionRuns
<1>4. PICK k \in 1..Len(es) : es[k] = q
  BY <1>2 DEF Remaining
<1>5. \A j \in 1..Len(es) : /\ R(Len(es)) \subseteq R(j - 1) /\ R(j - 1) \subseteq D
                            /\ es[j] \notin R(Len(es))
  BY <1>1 DEF Remaining
<1>6. PICK a \in D \cup {Root} : IsChild(D, a, q) /\ IsChild(D, a, y)
  BY DEF Siblings
<1>7. a \in R(k - 1) \cup {Root}
  <2>1. SUFFICES ASSUME a \in D, a \notin R(k - 1)
                 PROVE  FALSE
    BY <1>6
  <2>2. PICK j \in 1..Len(es) : es[j] = a
    BY <2>1, <1>1 DEF Remaining
  <2>3. IsLeaf(R(j - 1), a)
    BY <2>2, <1>3 DEF FoundLeaf
  <2>4. y \in R(j - 1)
    BY <1>2, <1>5
  <2> QED BY <2>3, <2>4, <1>6 DEF IsLeaf, IsChild
<1>8. y \in R(k - 1) /\ y \in D
  BY <1>2, <1>4, <1>5
<1>9. /\ IsChild(R(k - 1), a, q) /\ IsChild(R(k - 1), a, y) /\ IsLeaf(R(k - 1), y)
  BY <1>4, <1>5, <1>6 DEF IsChild, IsLeaf
<1>10. FoundLeaf(R(k - 1), c.older, q)
  BY <1>3, <1>4
<1> HIDE DEF R
<1> QED BY <1>7, <1>8, <1>9, <1>10 DEF FoundLeaf, Children

\* A new node is hung where it parts nobody from its parent, and y keeps being a leaf
\* unless it is hung at y.
LEMMA NewNodeParts ==
  ASSUME NEW c, CacheOK(c), NEW tokens \in Seq(Token), NEW blocks \in Seq(Block),
         NEW a \in VacantAt(DOMAIN c.nodes, tokens),
         NEW q \in DOMAIN c.nodes, NEW y \in DOMAIN c.nodes \ {a},
         Siblings(DOMAIN c.nodes, q, y), IsLeaf(DOMAIN c.nodes, y)
  PROVE  LET g == AddNode(c, a, tokens, blocks)
         IN /\ CacheOK(g) /\ DOMAIN c.nodes \subseteq DOMAIN g.nodes /\ c.older \subseteq g.older
            /\ Siblings(DOMAIN g.nodes, q, y) /\ IsLeaf(DOMAIN g.nodes, y)
<1> DEFINE D == DOMAIN c.nodes
           rest == SubSeq(tokens, Len(a) + 1, Len(tokens))
           new == a \o rest
           g == AddNode(c, a, tokens, blocks)
<1>1. /\ a \in Seq(Token) /\ (a = Root \/ a \in D)
      /\ Len(a) \in Nat /\ Len(tokens) \in Nat /\ Len(a) < Len(tokens)
      /\ \A x \in D : IsStrictPrefix(a, x) => x[Len(a) + 1] # tokens[Len(a) + 1]
  <2>1. a \in D \cup {Root} /\ D \subseteq Seq(Token)
    BY DEF VacantAt, CacheOK
  <2>2. a \in Seq(Token)
    BY <2>1, EmptySeq DEF Root
  <2> QED BY <2>1, <2>2, LenProperties DEF VacantAt
<1>2. /\ rest \in Seq(Token) /\ Len(rest) = Len(tokens) - Len(a)
      /\ rest[1] = tokens[Len(a) + 1]
  BY <1>1
<1>3. /\ new \in Seq(Token) /\ Len(new) = Len(tokens)
      /\ new[Len(a) + 1] = tokens[Len(a) + 1] /\ new # a
  BY <1>1, <1>2
<1>4. IsStrictPrefix(a, new)
  BY <1>1, <1>2, <1>3, PrefixOfConcat DEF IsStrictPrefix
<1>5. DOMAIN g.nodes = D \cup {new} /\ c.older \subseteq g.older
  BY DEF AddNode
<1>6. CacheOK(g)
  BY AddNodeOK
<1>7. D \subseteq Seq(Token) /\ Root \notin D
  BY DEF CacheOK
<1> HIDE DEF rest, new, g
<1>8. ASSUME NEW x \in D, IsStrictPrefix(new, x)
      PROVE  FALSE
  <2>1. x \in Seq(Token) /\ IsPrefix(new, x) /\ IsPrefix(a, new)
    BY <1>7, <1>8, <1>4 DEF IsStrictPrefix
  <2>2. IsPrefix(a, x)
    BY <2>1, <1>1, <1>3, PrefixTransitive
  <2>3. Len(new) < Len(x)
    BY <2>1, <1>3, <1>8, StrictIsShorter
  <2>4. a # x
    BY <2>1, <2>3, <1>1, <1>3, LenProperties
  <2>5. x[Len(a) + 1] = new[Len(a) + 1]
    <3>1. Len(a) + 1 \in 1..Len(new)
      BY <1>1, <1>3
    <3> QED BY <3>1, <2>1, <1>3, PrefixPoints
  <2> QED BY <2>2, <2>4, <2>5, <1>1, <1>3 DEF IsStrictPrefix
<1>9. ASSUME IsStrictPrefix(y, new)
      PROVE  FALSE
  <2>1. y \in Seq(Token) /\ Len(y) \in Nat /\ IsPrefix(y, new) /\ IsPrefix(a, new)
    BY <1>7, <1>9, <1>4, LenProperties DEF IsStrictPrefix
  <2>2. CASE Len(y) <= Len(a)
    <3>1. IsStrictPrefix(y, a)
      BY <2>1, <2>2, <1>1, <1>3, PrefixesAreChained DEF IsStrictPrefix
    <3>2. a # Root
      <4>1. Len(y) < Len(a)
        BY <3>1, <2>1, <1>1, StrictIsShorter
      <4> QED BY <4>1, <2>1, EmptySeq DEF Root
    <3> QED BY <3>1, <3>2, <1>1 DEF IsLeaf
  <2>3. CASE Len(a) < Len(y)
    <3>1. IsStrictPrefix(a, y)
      <4>1. IsPrefix(a, y)
        BY <2>1, <2>3, <1>1, <1>3, PrefixesAreChained
      <4> QED BY <4>1 DEF IsStrictPrefix
    <3>2. y[Len(a) + 1] = new[Len(a) + 1]
      <4>1. Len(a) + 1 \in 1..Len(y)
        BY <2>1, <2>3, <1>1
      <4> QED BY <4>1, <2>1, <1>3, PrefixPoints
    <3> QED BY <3>1, <3>2, <1>1, <1>3
  <2> QED BY <2>1, <2>2, <2>3, <1>1
<1>10. Siblings(D \cup {new}, q, y)
  BY <1>8 DEF Siblings, IsChild
<1>11. IsLeaf(D \cup {new}, y)
  BY <1>9 DEF IsLeaf
<1> QED BY <1>5, <1>6, <1>10, <1>11 DEF g

\* What a step may evict: of two siblings the older, unless the call has used it.
SparesRecent ==
  \A q \in Nodes \ Nodes', y \in Nodes \cap Nodes' :
    /\ block_table' # block_table
    /\ Siblings(Nodes, q, y)
    /\ IsLeaf(Nodes, y)
    /\ <<y, q>> \in radix_cache.older
    => \/ \E r \in DOMAIN prompt_table' \ DOMAIN prompt_table : IsPrefix(y, prompt_table'[r])
       \/ \E r \in DOMAIN prompt_table \ DOMAIN prompt_table' : y \in VacantAt(Nodes, prompt_table[r])

\* Touching a prompt leaves y older than a sibling unless the prompt goes through y.
LEMMA TouchedLater ==
  ASSUME NEW c, NEW tokens, NEW y \in DOMAIN c.nodes, NEW q \in DOMAIN c.nodes,
         <<y, q>> \in c.older, ~IsPrefix(y, tokens)
  PROVE  <<y, q>> \in Touch(c, tokens).older
<1>1. y \notin Matched(c, tokens)
  BY DEF Matched
<1> QED BY <1>1 DEF Touch

\* The cache an attempt leaves is the touched one, evicted from or not.
LEMMA AttemptCache ==
  ASSUME NEW tokens, NEW t \in Attempts(tokens)
  PROVE  LET touched == Touch(radix_cache, tokens)
         IN \/ t.cache = touched
            \/ \E es \in EvictionRuns(touched) : t.cache = AfterEviction(touched, es)
<1> DEFINE touched == Touch(radix_cache, tokens)
           needed(h) == DivCeil(Len(tokens) - Len(h), block_size)
           cached(h) == PathBlocks(radix_cache.nodes, h)
           held(h) == [b \in Block |-> ref_counts[b] + Occurrences(cached(h), b)]
           outcomes(h) == IF Len(free_gpu_blocks) < needed(h)
                            THEN Evict(touched, held(h), free_gpu_blocks)
                            ELSE {[cache |-> touched, refs |-> held(h), pool |-> free_gpu_blocks]}
<1>1. PICK h \in Hits(radix_cache, tokens) : \E o \in outcomes(h) :
          t = [cached |-> cached(h), hit_len |-> Len(h), needed |-> needed(h),
               cache |-> o.cache, refs |-> o.refs, pool |-> o.pool]
  BY DEF Attempts
<1>2. PICK o \in outcomes(h) :
          t = [cached |-> cached(h), hit_len |-> Len(h), needed |-> needed(h),
               cache |-> o.cache, refs |-> o.refs, pool |-> o.pool]
  BY <1>1
<1>3. t.cache = o.cache
  BY <1>2
<1>4. \/ o \in Evict(touched, held(h), free_gpu_blocks)
      \/ o = [cache |-> touched, refs |-> held(h), pool |-> free_gpu_blocks]
  BY <1>2
<1> HIDE DEF touched, held
<1>5. o.cache = touched \/ \E es \in EvictionRuns(touched) : o.cache = AfterEviction(touched, es)
  BY <1>4, EvictCache
<1> QED BY <1>3, <1>5 DEF touched

LEMMA GrantSpares ==
  ASSUME IInv, NEW r \in Req, NEW tokens \in Prompts, AllocateWithPrefix(r, tokens)
  PROVE  SparesRecent
<1> DEFINE touched == Touch(radix_cache, tokens)
<1>1. PICK t \in Attempts(tokens) : Grant(r, tokens, t)
  BY DEF AllocateWithPrefix
<1>2. /\ r \notin DOMAIN prompt_table
      /\ radix_cache' = t.cache /\ prompt_table' = Put(prompt_table, r, tokens)
  BY <1>1, NewRequest DEF Grant, AllocateWithPrefix
<1>3. r \in DOMAIN prompt_table' \ DOMAIN prompt_table /\ prompt_table'[r] = tokens
  BY <1>2 DEF Put
<1>4. CacheOK(touched) /\ DOMAIN touched.nodes = Nodes
  BY DEF Touch, IInv, CacheOK, Nodes
<1> SUFFICES ASSUME NEW q \in Nodes \ Nodes', NEW y \in Nodes \cap Nodes',
                    Siblings(Nodes, q, y), IsLeaf(Nodes, y),
                    <<y, q>> \in radix_cache.older, ~IsPrefix(y, tokens)
             PROVE  FALSE
  BY <1>3 DEF SparesRecent
<1>5. <<y, q>> \in touched.older
  BY TouchedLater DEF Nodes
<1>6. t.cache = touched \/ \E es \in EvictionRuns(touched) : t.cache = AfterEviction(touched, es)
  BY AttemptCache
<1> HIDE DEF touched
<1>7. t.cache # touched
  BY <1>2, <1>4 DEF Nodes
<1>8. PICK es \in EvictionRuns(touched) : t.cache = AfterEviction(touched, es)
  BY <1>6, <1>7
<1>9. /\ q \in DOMAIN touched.nodes /\ q \notin DOMAIN AfterEviction(touched, es).nodes
      /\ y \in DOMAIN AfterEviction(touched, es).nodes
  BY <1>2, <1>4, <1>8 DEF Nodes
<1> QED BY <1>4, <1>5, <1>9, OlderSiblingGoes

LEMMA FreeToCacheSpares ==
  ASSUME IInv, NEW r \in Req, FreeToCache(r)
  PROVE  SparesRecent
<1> DEFINE blocks == block_table[r]
           tokens == prompt_table[r]
<1>1. /\ r \in DOMAIN block_table /\ r \in DOMAIN prompt_table
      /\ radix_cache' \in Insert(radix_cache, tokens, blocks)
      /\ r \notin DOMAIN prompt_table'
  BY DEF FreeToCache, PromptsLeft, Removed
<1>2. blocks \in Seq(Block) /\ tokens \in Seq(Token) /\ CacheOK(radix_cache)
  BY <1>1 DEF IInv, TypeOK
<1> SUFFICES ASSUME NEW q \in Nodes \ Nodes', NEW y \in Nodes \cap Nodes',
                    Siblings(Nodes, q, y), IsLeaf(Nodes, y),
                    <<y, q>> \in radix_cache.older, y \notin VacantAt(Nodes, tokens)
             PROVE  FALSE
  BY <1>1 DEF SparesRecent
<1> HIDE DEF blocks, tokens
<1>3. PICK g \in Grown(radix_cache, tokens, blocks) :
        radix_cache' \in IF g.num_cached_blocks > num_gpu_blocks \div 3
                           THEN {AfterEviction(g, es) : es \in EvictionRuns(g)}
                           ELSE {g}
  BY <1>1 DEF Insert
<1>4. /\ CacheOK(g) /\ Nodes \subseteq DOMAIN g.nodes /\ radix_cache.older \subseteq g.older
      /\ Siblings(DOMAIN g.nodes, q, y) /\ IsLeaf(DOMAIN g.nodes, y)
  <2>1. CASE g = radix_cache
    BY <2>1, <1>2 DEF Nodes
  <2>2. CASE \E a \in VacantAt(Nodes, tokens) : g = AddNode(radix_cache, a, tokens, blocks)
    <3>1. PICK a \in VacantAt(Nodes, tokens) : g = AddNode(radix_cache, a, tokens, blocks)
      BY <2>2
    <3>2. y \in DOMAIN radix_cache.nodes \ {a} /\ q \in DOMAIN radix_cache.nodes
      BY <3>1 DEF Nodes
    <3> QED BY <3>1, <3>2, <1>2, NewNodeParts DEF Nodes
  <2> QED BY <2>1, <2>2 DEF Grown, Nodes
<1>5. radix_cache' # g
  BY <1>4 DEF Nodes
<1>6. PICK es \in EvictionRuns(g) : radix_cache' = AfterEviction(g, es)
  BY <1>3, <1>5
<1>7. /\ q \in DOMAIN g.nodes /\ q \notin DOMAIN AfterEviction(g, es).nodes
      /\ y \in DOMAIN AfterEviction(g, es).nodes
  BY <1>4, <1>6 DEF Nodes
<1> QED BY <1>4, <1>7, OlderSiblingGoes

LEMMA SparingStep ==
  ASSUME IInv, [Next]_vars
  PROVE  SparesRecent
<1>1. CASE UNCHANGED vars
  BY <1>1 DEF vars, SparesRecent
<1>2. ASSUME NEW r \in Req, NEW tokens \in Prompts, AllocateWithPrefix(r, tokens)
      PROVE  SparesRecent
  BY <1>2, GrantSpares
<1>3. ASSUME NEW r \in Req, NEW tokens \in Prompts, AllocateRefused(r, tokens)
      PROVE  SparesRecent
  BY <1>3 DEF AllocateRefused, Refuse, SparesRecent
<1>4. ASSUME NEW r \in Req, NEW n \in LegacySizes, Allocate(r, n)
      PROVE  SparesRecent
  BY <1>4 DEF Allocate, SparesRecent, Nodes
<1>5. ASSUME NEW r \in Req, FreeToCache(r)
      PROVE  SparesRecent
  BY <1>5, FreeToCacheSpares
<1>6. ASSUME NEW r \in Req, FreeToPool(r)
      PROVE  SparesRecent
  BY <1>6 DEF FreeToPool, SparesRecent, Nodes
<1> QED BY <1>1, <1>2, <1>3, <1>4, <1>5, <1>6 DEF Next

\* The eviction of a deposit or of a granted allocation takes the less recent of two
\* sibling leaves, unless that very call has used the other: allocated through it, or
\* hung the deposit's node below it.
THEOREM OlderSiblingsGo == Spec => LeastRecentSiblingFirst
<1>1. IInv /\ [Next]_vars =>
        [\A q \in Nodes \ Nodes', y \in Nodes \cap Nodes' :
           /\ block_table' # block_table
           /\ \E a \in Nodes \cup {Root} : IsChild(Nodes, a, q) /\ IsChild(Nodes, a, y)
           /\ IsLeaf(Nodes, y)
           /\ <<y, q>> \in radix_cache.older
           => \/ \E r \in DOMAIN prompt_table' \ DOMAIN prompt_table : IsPrefix(y, prompt_table'[r])
              \/ \E r \in DOMAIN prompt_table \ DOMAIN prompt_table' :
                   y \in VacantAt(Nodes, prompt_table[r])]_vars
  BY SparingStep DEF SparesRecent, Siblings
<1> QED BY <1>1, Inductive, PTL DEF Spec, LeastRecentSiblingFirst

-----------------------------------------------------------------------------
(* What becomes of a block nobody refers to                                *)

\* A refused allocation has matched the block.
MatchedInVain(b) ==
  /\ block_table' = block_table
  /\ \E tokens \in Prompts : \E h \in Hits(radix_cache, tokens) :
       /\ Len(free_gpu_blocks') < DivCeil(Len(tokens) - Len(h), block_size)
       /\ Occurrences(PathBlocks(radix_cache.nodes, h), b) > 0

Freed(b) == \E i \in DOMAIN free_gpu_blocks' : free_gpu_blocks'[i] = b

LEMMA GrantFrees ==
  ASSUME IInv, NEW r \in Req, NEW tokens \in Prompts, AllocateWithPrefix(r, tokens),
         NEW b \in Block, ref_counts[b] > 0, ref_counts'[b] = 0
  PROVE  Freed(b)
<1> tokens \in Seq(Token)
  OBVIOUS
<1>1. PICK t \in Attempts(tokens) : Grant(r, tokens, t)
  BY DEF AllocateWithPrefix
<1> DEFINE new == Top(t.pool, t.needed)
           m == Len(t.pool)
           n == t.needed
<1>2. /\ Len(t.pool) >= t.needed
      /\ free_gpu_blocks' = Popped(t.pool, t.needed)
      /\ ref_counts'[b] = IF \E i \in DOMAIN new : new[i] = b THEN 1 ELSE t.refs[b]
  BY <1>1 DEF Grant
<1>3. /\ t.cached \in Seq(Block) /\ t.needed \in Nat /\ t.pool \in Seq(Block)
      /\ \A c \in Block : ref_counts[c] + Occurrences(t.cached, c) > 0 /\ t.refs[c] = 0
                             => \E i \in DOMAIN t.pool : t.pool[i] = c
  BY AttemptsOK DEF AttemptOK, HasFreed, Plus
<1>4. t.refs[b] = 0 /\ ~ \E i \in DOMAIN new : new[i] = b
  BY <1>2
<1>5. ref_counts[b] + Occurrences(t.cached, b) > 0
  <2>1. Occurrences(t.cached, b) \in Nat /\ ref_counts[b] \in Nat
    BY <1>3, OccurrencesType DEF IInv, TypeOK
  <2> QED BY <2>1
<1>6. PICK k \in DOMAIN t.pool : t.pool[k] = b
  BY <1>3, <1>4, <1>5
<1>7. m \in Nat /\ n \in Nat /\ n <= m /\ k \in 1..m
  BY <1>2, <1>3, <1>6, LenProperties
<1>8. k \in 1..m - n
  <2>1. ASSUME ~(k \in 1..m - n) PROVE FALSE
    <3>1. m + 1 - k \in 1..n /\ m + 1 - (m + 1 - k) = k
      <4> HIDE DEF m, n
      <4> QED BY <2>1, <1>7
    <3>2. m + 1 - k \in DOMAIN new /\ new[m + 1 - k] = t.pool[k]
      BY <3>1 DEF Top
    <3> QED BY <3>2, <1>4, <1>6
  <2> QED BY <2>1
<1>9. k \in DOMAIN Popped(t.pool, n) /\ Popped(t.pool, n)[k] = t.pool[k]
  BY <1>3, <1>7, <1>8 DEF Popped
<1> QED BY <1>2, <1>6, <1>9 DEF Freed

LEMMA RefuseFrees ==
  ASSUME IInv, NEW r \in Req, NEW tokens \in Prompts, AllocateRefused(r, tokens),
         NEW b \in Block, ref_counts[b] > 0, ref_counts'[b] = 0
  PROVE  Freed(b) \/ MatchedInVain(b)
<1> tokens \in Seq(Token)
  OBVIOUS
<1>1. PICK t \in Attempts(tokens) : Refuse(t)
  BY DEF AllocateRefused
<1>2. /\ Len(t.pool) < t.needed /\ free_gpu_blocks' = t.pool
      /\ ref_counts'[b] = t.refs[b] - Occurrences(t.cached, b)
      /\ block_table' = block_table
  BY <1>1 DEF Refuse
<1>3. /\ t.cached \in Seq(Block) /\ t.refs \in [Block -> Nat]
      /\ \A c \in Block : ref_counts[c] + Occurrences(t.cached, c) > 0 /\ t.refs[c] = 0
                             => \E i \in DOMAIN t.pool : t.pool[i] = c
  BY AttemptsOK DEF AttemptOK, HasFreed, Plus
<1>4. /\ Occurrences(t.cached, b) \in Nat /\ ref_counts[b] \in Nat /\ t.refs[b] \in Nat
  BY <1>3, OccurrencesType DEF IInv, TypeOK
<1>5. CASE Occurrences(t.cached, b) = 0
  <2>1. t.refs[b] = 0 /\ ref_counts[b] + Occurrences(t.cached, b) > 0
    BY <1>2, <1>4, <1>5
  <2> QED BY <2>1, <1>2, <1>3 DEF Freed
<1>6. CASE Occurrences(t.cached, b) > 0
  <2> DEFINE cached(h) == PathBlocks(radix_cache.nodes, h)
             needed(h) == DivCeil(Len(tokens) - Len(h), block_size)
             held(h) == [c \in Block |-> ref_counts[c] + Occurrences(cached(h), c)]
             touched == Touch(radix_cache, tokens)
  <2>1. PICK h \in Hits(radix_cache, tokens) : t.cached = cached(h) /\ t.needed = needed(h)
    <3>1. PICK h \in Hits(radix_cache, tokens) :
            \E o \in IF Len(free_gpu_blocks) < needed(h)
                       THEN Evict(touched, held(h), free_gpu_blocks)
                       ELSE {[cache |-> touched, refs |-> held(h), pool |-> free_gpu_blocks]} :
              t = [cached |-> cached(h), hit_len |-> Len(h), needed |-> needed(h),
                   cache |-> o.cache, refs |-> o.refs, pool |-> o.pool]
      BY DEF Attempts
    <3> QED BY <3>1
  <2> QED BY <2>1, <1>2, <1>6 DEF MatchedInVain
<1> QED BY <1>4, <1>5, <1>6

LEMMA FreeToPoolFrees ==
  ASSUME IInv, NEW r \in Req, FreeToPool(r),
         NEW b \in Block, ref_counts[b] > 0, ref_counts'[b] = 0
  PROVE  Freed(b)
<1> DEFINE blocks == block_table[r]
           zero == {p \in Places(<<blocks>>) : Dropped(blocks)[blocks[p[2]]] = 0}
<1>1. PICK f \in InVisitOrder(zero) :
        free_gpu_blocks' = free_gpu_blocks \o [i \in DOMAIN f |-> blocks[f[i][2]]]
  BY DEF FreeToPool
<1>2. r \in DOMAIN block_table /\ ref_counts' = Dropped(blocks)
  BY DEF FreeToPool
<1>3. /\ blocks \in Seq(Block) /\ DOMAIN blocks = 1..Len(blocks) /\ Len(blocks) \in Nat
      /\ free_gpu_blocks \in Seq(Block) /\ ref_counts[b] \in Nat
  BY <1>2, LenProperties DEF IInv, TypeOK
<1>4. \A p : p \in Places(<<blocks>>) <=> \E i \in DOMAIN blocks : p = <<1, i>>
  <2>1. DOMAIN <<blocks>> = {1} /\ <<blocks>>[1] = blocks
    OBVIOUS
  <2> QED BY <2>1 DEF Places
<1>5. PICK i \in DOMAIN blocks : blocks[i] = b
  <2>1. ref_counts'[b] = ref_counts[b] - Occurrences(blocks, b) /\ Occurrences(blocks, b) \in Nat
    BY <1>2, <1>3, OccurrencesType DEF Dropped
  <2>2. Occurrences(blocks, b) # 0
    BY <2>1, <1>3
  <2>3. {j \in DOMAIN blocks : blocks[j] = b} # {}
    BY <2>2, FS_EmptySet DEF Occurrences
  <2> QED BY <2>3
<1>6. <<1, i>> \in zero
  BY <1>2, <1>4, <1>5
<1>7. /\ IsFiniteSet(zero) /\ Cardinality(zero) \in Nat
      /\ \A p \in zero : IsPlace(p) /\ p[2] \in DOMAIN blocks
  <2>1. IsFiniteSet({1} \X (DOMAIN blocks))
    <3>1. IsFiniteSet(DOMAIN blocks)
      BY <1>3, FS_Interval
    <3> QED BY <3>1, TaggedCardinality
  <2>2. \A p \in zero : p \in {1} \X (DOMAIN blocks) /\ p = <<p[1], p[2]>> /\ p[1] = 1 /\ p[2] \in DOMAIN blocks
    BY <1>4
  <2> HIDE DEF zero
  <2>3. IsFiniteSet(zero)
    BY <2>1, <2>2, FS_Subset
  <2> QED BY <2>2, <2>3, <1>3, FS_CardinalityType DEF IsPlace
<1> HIDE DEF zero
<1>8. PICK k \in DOMAIN f : f[k] = <<1, i>>
  BY <1>6, <1>7, AllVisited
<1> DEFINE pushed == [j \in DOMAIN f |-> blocks[f[j][2]]]
<1>9. pushed \in Seq(Block) /\ DOMAIN f = 1..Len(pushed)
  <2>1. f \in [1..Cardinality(zero) -> zero]
    BY DEF InVisitOrder
  <2>2. \A j \in DOMAIN f : blocks[f[j][2]] \in Block
    BY <2>1, <1>3, <1>7, ElementOfSeq
  <2>3. pushed \in [1..Cardinality(zero) -> Block]
    BY <2>1, <2>2
  <2> HIDE DEF pushed
  <2> QED
    BY <2>1, <2>3, <1>7
<1>10. pushed[k] = b /\ k \in 1..Len(pushed)
  BY <1>5, <1>8, <1>9
<1> HIDE DEF pushed
<1>11. /\ Len(free_gpu_blocks) + k \in DOMAIN (free_gpu_blocks \o pushed)
       /\ (free_gpu_blocks \o pushed)[Len(free_gpu_blocks) + k] = pushed[k]
  BY <1>3, <1>9, <1>10
<1> QED BY <1>1, <1>10, <1>11 DEF Freed, pushed

LEMMA LastReferenceStep ==
  ASSUME IInv, [Next]_vars, NEW b \in Block, ref_counts[b] > 0, ref_counts'[b] = 0
  PROVE  Freed(b) \/ MatchedInVain(b)
<1>1. CASE UNCHANGED vars
  BY <1>1 DEF vars
<1>2. ASSUME NEW r \in Req, NEW tokens \in Prompts, AllocateWithPrefix(r, tokens)
      PROVE  Freed(b)
  BY <1>2, GrantFrees
<1>3. ASSUME NEW r \in Req, NEW tokens \in Prompts, AllocateRefused(r, tokens)
      PROVE  Freed(b) \/ MatchedInVain(b)
  BY <1>3, RefuseFrees
<1>4. ASSUME NEW r \in Req, NEW n \in LegacySizes, Allocate(r, n)
      PROVE  FALSE
  <2>1. ref_counts'[b] = 1 \/ ref_counts'[b] = ref_counts[b]
    BY <1>4 DEF Allocate
  <2> QED BY <2>1
<1>5. ASSUME NEW r \in Req, FreeToCache(r)
      PROVE  FALSE
  <2>1. r \in DOMAIN block_table /\ ref_counts' = Deposited(block_table[r])
    BY <1>5 DEF FreeToCache
  <2>2. Occurrences(block_table[r], b) \in Nat /\ ref_counts[b] \in Nat
    BY <2>1, OccurrencesType DEF IInv, TypeOK
  <2>3. ref_counts'[b] = ref_counts[b] - Occurrences(block_table[r], b) + Occurrences(block_table[r], b)
    BY <2>1 DEF Deposited, Dropped
  <2> QED BY <2>2, <2>3
<1>6. ASSUME NEW r \in Req, FreeToPool(r)
      PROVE  Freed(b)
  BY <1>6, FreeToPoolFrees
<1> QED BY <1>1, <1>2, <1>3, <1>4, <1>5, <1>6 DEF Next

\* A block whose last reference goes is pushed to the pool by the very call, unless it is
\* an allocation that is refused and had matched the block.
THEOREM UnreferencedFreed == Spec => LastReferenceFrees
<1>1. IInv /\ [Next]_vars =>
        [\A b \in Block : ref_counts[b] > 0 /\ ref_counts'[b] = 0 =>
           \/ \E i \in DOMAIN free_gpu_blocks' : free_gpu_blocks'[i] = b
           \/ /\ block_table' = block_table
              /\ \E tokens \in Prompts : \E h \in Hits(radix_cache, tokens) :
                   /\ Len(free_gpu_blocks') < DivCeil(Len(tokens) - Len(h), block_size)
                   /\ Occurrences(PathBlocks(radix_cache.nodes, h), b) > 0]_vars
  BY LastReferenceStep DEF Freed, MatchedInVain
<1> QED BY <1>1, Inductive, PTL DEF Spec, LastReferenceFrees
=============================================================================
