---------------------------- MODULE BlockManager ----------------------------
(***************************************************************************)
(* The paged block allocator of the scheduler                              *)
(* (scheduler/block_manager.rs): one action per method of `BlockManager`.  *)
(* Every method runs to its end under the scheduler's write lock, so each  *)
(* is one atomic step.                                                     *)
(***************************************************************************)
EXTENDS Integers, SequencesExt

CONSTANTS
  num_gpu_blocks,   \* physical blocks, BlockManager::new
  block_size,       \* tokens per block
  Req,              \* the request ids
  Token,            \* the token ids
  Prompts,          \* the prompts a request may carry
  LegacySizes       \* the num_tokens the legacy allocate is called with

ASSUME BlockManagerAssumption ==
  /\ num_gpu_blocks \in Nat
  /\ block_size \in Nat \ {0}
  /\ Prompts \subseteq Seq(Token)
  /\ LegacySizes \subseteq Nat

INSTANCE RadixCache WITH max_capacity <- num_gpu_blocks \div 3

VARIABLES
  block_table,      \* request id -> its blocks, cached ones first
  prompt_table,     \* request id -> its prompt, absent for a legacy request
  ref_counts,       \* block -> references counted by the manager
  free_gpu_blocks,  \* the pool, popped and pushed at its end
  radix_cache       \* see RadixCache

vars == <<block_table, prompt_table, ref_counts, free_gpu_blocks, radix_cache>>

Block == 0 .. num_gpu_blocks - 1

\* How often block b is listed in s.
Occurrences(s, b) == Cardinality({i \in DOMAIN s : s[i] = b})

DivCeilTruncated(n, d) == n \div d   \* a slip: the last, partly filled block is left out
DivCeil(n, d) == (n + d - 1) \div d

Init ==
  /\ block_table = [r \in {} |-> <<>>]
  /\ prompt_table = [r \in {} |-> <<>>]
  /\ ref_counts = [b \in Block |-> 0]
  /\ free_gpu_blocks = [i \in 1..num_gpu_blocks |-> i - 1]
  /\ radix_cache = EmptyCache

-----------------------------------------------------------------------------
(* Helpers of the methods.                                                 *)

\* HashMap::insert and HashMap::remove.
Put(f, r, v) == [x \in DOMAIN f \cup {r} |-> IF x = r THEN v ELSE f[x]]
Removed(f, r) == [x \in DOMAIN f \ {r} |-> f[x]]

\* The places of a list of block lists, in the order a loop visits them.
Places(lists) == UNION {{k} \X (DOMAIN lists[k]) : k \in DOMAIN lists}
Visited(p, q) == p[1] < q[1] \/ (p[1] = q[1] /\ p[2] < q[2])
PlacesOf(lists, b) == {p \in Places(lists) : lists[p[1]][p[2]] = b}

\* The places I in the order of the loop: one sequence.
InVisitOrder(I) == {f \in [1..Cardinality(I) -> I] :
                      \A j, k \in DOMAIN f : j < k => Visited(f[j], f[k])}

\* A slip: every visited block is released, counted down to zero or not.
EveryPlace(lists, refs) == Places(lists)

\* A slip: a count is compared before it is lowered.
PlacesOfUncounted(lists, refs) == {p \in Places(lists) : refs[lists[p[1]][p[2]]] = 0}

\* The places at which a loop that decrements the counts refs brings the
\* count of the block at hand to zero.
ZeroingPlaces(lists, refs) ==
  {p \in Places(lists) :
     LET b == lists[p[1]][p[2]]
     IN Cardinality({q \in PlacesOf(lists, b) : q = p \/ Visited(q, p)}) = refs[b]}

\* The pool after n pops, and the blocks popped, first pop first.
Popped(pool, n) == SubSeq(pool, 1, Len(pool) - n)
Top(pool, n) == [i \in 1..n |-> pool[Len(pool) + 1 - i]]

-----------------------------------------------------------------------------
(* allocate_with_prefix                                                    *)

\* The loop over the evicted blocks: the counts drop, and a block whose count
\* reaches zero is pushed.  One outcome for each way evict_lru may run.
Evict(cache, refs, pool) ==
  UNION {LET lists == EvictedLists(cache, es)
         IN {[cache |-> AfterEviction(cache, es),
              refs |-> [b \in Block |-> refs[b] - Cardinality(PlacesOf(lists, b))],
              pool |-> pool \o [i \in DOMAIN f |-> lists[f[i][1]][f[i][2]]]] :
             f \in InVisitOrder(ZeroingPlaces(lists, refs))} : es \in EvictionRuns(cache)}

\* Lines 59-80: what the method has computed and changed when it decides
\* whether the pool is large enough.
Attempts(tokens) ==
  UNION {LET cached == PathBlocks(radix_cache.nodes, h)
             needed == DivCeil(Len(tokens) - Len(h), block_size)
             touched == Touch(radix_cache, tokens)
             held == [b \in Block |-> ref_counts[b] + Occurrences(cached, b)]
         IN {[cached |-> cached, hit_len |-> Len(h), needed |-> needed,
              cache |-> o.cache, refs |-> o.refs, pool |-> o.pool] :
             o \in IF Len(free_gpu_blocks) < needed
                     THEN Evict(touched, held, free_gpu_blocks)
                     ELSE {[cache |-> touched, refs |-> held, pool |-> free_gpu_blocks]}}
         : h \in Hits(radix_cache, tokens)}

\* The pool is large enough: the request gets the cached blocks and new ones.
Grant(r, tokens, t) ==
  LET new == Top(t.pool, t.needed)
  IN /\ Len(t.pool) >= t.needed
     /\ radix_cache' = t.cache
     /\ free_gpu_blocks' = Popped(t.pool, t.needed)
     /\ ref_counts' = [b \in Block |-> IF \E i \in DOMAIN new : new[i] = b
                                         THEN 1 ELSE t.refs[b]]
     /\ block_table' = Put(block_table, r, t.cached \o new)
     /\ prompt_table' = Put(prompt_table, r, tokens)

\* It is not, even after the eviction: the counts of the cached blocks are
\* rolled back and None is returned.
Refuse(t) ==
  /\ Len(t.pool) < t.needed
  /\ radix_cache' = t.cache
  /\ free_gpu_blocks' = t.pool
  /\ ref_counts' = [b \in Block |-> t.refs[b] - Occurrences(t.cached, b)]
  /\ UNCHANGED <<block_table, prompt_table>>

\* A request id is drawn at random for each request (api/openai.rs): the one
\* that comes here has no blocks yet.
AllocateWithPrefix(r, tokens) ==
  /\ r \notin DOMAIN block_table
  /\ \E t \in Attempts(tokens) : Grant(r, tokens, t)

AllocateRefused(r, tokens) ==
  /\ r \notin DOMAIN block_table
  /\ \E t \in Attempts(tokens) : Refuse(t)

-----------------------------------------------------------------------------
(* allocate, the legacy entry without a prompt; its None changes nothing   *)

Allocate(r, num_tokens) ==
  LET n == DivCeil(num_tokens, block_size)
      new == Top(free_gpu_blocks, n)
  IN /\ r \notin DOMAIN block_table
     /\ Len(free_gpu_blocks) >= n
     /\ free_gpu_blocks' = Popped(free_gpu_blocks, n)
     /\ ref_counts' = [b \in Block |-> IF \E i \in DOMAIN new : new[i] = b
                                         THEN 1 ELSE ref_counts[b]]
     /\ block_table' = Put(block_table, r, new)
     /\ UNCHANGED <<prompt_table, radix_cache>>

-----------------------------------------------------------------------------
(* free: no effect on an id without blocks                                 *)

\* The counts after the loop of lines 133-135.
Dropped(blocks) == [b \in Block |-> ref_counts[b] - Occurrences(blocks, b)]

\* A slip: the cache takes the blocks without counting its references.
DepositedUncounted(blocks) == Dropped(blocks)

\* Lines 138-142: the cache owns a reference to each of them.
Deposited(blocks) == [b \in Block |-> Dropped(blocks)[b] + Occurrences(blocks, b)]

\* A slip: the prompt is read but stays in the table.
PromptsKept(r) == prompt_table
PromptsLeft(r) == Removed(prompt_table, r)

\* With a prompt the blocks are deposited in the cache.
FreeToCache(r) ==
  /\ r \in DOMAIN block_table \cap DOMAIN prompt_table
  /\ LET blocks == block_table[r]
     IN /\ ref_counts' = Deposited(blocks)
        /\ radix_cache' \in Insert(radix_cache, prompt_table[r], blocks)
  /\ block_table' = Removed(block_table, r)
  /\ prompt_table' = PromptsLeft(r)
  /\ UNCHANGED free_gpu_blocks

\* Without one those with no reference left are pushed to the pool.
FreeToPool(r) ==
  /\ r \in DOMAIN block_table \ DOMAIN prompt_table
  /\ LET blocks == block_table[r]
         zero == {p \in Places(<<blocks>>) : Dropped(blocks)[blocks[p[2]]] = 0}
     IN /\ ref_counts' = Dropped(blocks)
        /\ \E f \in InVisitOrder(zero) :
             free_gpu_blocks' = free_gpu_blocks \o [i \in DOMAIN f |-> blocks[f[i][2]]]
  /\ block_table' = Removed(block_table, r)
  /\ UNCHANGED <<prompt_table, radix_cache>>

-----------------------------------------------------------------------------

Next ==
  \E r \in Req :
    \/ \E tokens \in Prompts : AllocateWithPrefix(r, tokens) \/ AllocateRefused(r, tokens)
    \/ \E n \in LegacySizes : Allocate(r, n)
    \/ FreeToCache(r)
    \/ FreeToPool(r)

Spec == Init /\ [][Next]_vars
-----------------------------------------------------------------------------
(* Properties                                                              *)

Nodes == DOMAIN radix_cache.nodes

\* The places where the requests of a table list block b, and those where the
\* nodes of a cache do.
ListedIn(table, b) == UNION {{r} \X {i \in DOMAIN table[r] : table[r][i] = b} : r \in DOMAIN table}
NodeHolders(nodes, b) == {p \in Slots(nodes, DOMAIN nodes) : nodes[p[1]].block_ids[p[2]] = b}

TableHolders(b) == ListedIn(block_table, b)
CacheHolders(b) == NodeHolders(radix_cache.nodes, b)

\* The shape of the state: tables over requests and blocks, a cache over
\* token strings, counts that have not gone below zero.
TypeOK ==
  /\ DOMAIN block_table \subseteq Req
  /\ \A r \in DOMAIN block_table : block_table[r] \in Seq(Block)
  /\ DOMAIN prompt_table \subseteq DOMAIN block_table
  /\ \A r \in DOMAIN prompt_table : prompt_table[r] \in Prompts
  /\ ref_counts \in [Block -> Nat]
  /\ free_gpu_blocks \in Seq(Block)
  /\ Nodes \subseteq Seq(Token) \ {Root}
  /\ \A q \in Nodes : /\ radix_cache.nodes[q].block_ids \in Seq(Block)
                      /\ radix_cache.nodes[q].path_blocks \in Seq(Block)
  /\ radix_cache.num_cached_blocks \in Nat

\* The count of a block covers everyone who lists it, so the decrements of
\* evict, rollback and free (usize) never wrap below zero and a block is never
\* released while a request or the cache still lists it.
RefsCoverHolders ==
  \A b \in Block : Cardinality(TableHolders(b)) + Cardinality(CacheHolders(b)) <= ref_counts[b]

\* No block in the pool belongs to a running request or to the cache: handing
\* it out again could never overwrite KV entries that are still in use.
FreeBlocksUnheld ==
  \A i \in DOMAIN free_gpu_blocks :
     TableHolders(free_gpu_blocks[i]) = {} /\ CacheHolders(free_gpu_blocks[i]) = {}

\* A block is in the pool at most once: no sequence of evictions, rollbacks and
\* frees pushes it twice.
NoDoubleFree ==
  \A i, j \in DOMAIN free_gpu_blocks : i # j => free_gpu_blocks[i] # free_gpu_blocks[j]

\* A request's blocks have room for its whole prompt, also when part of them
\* come from the cache.
PromptsFit ==
  \A r \in DOMAIN prompt_table : Len(block_table[r]) * block_size >= Len(prompt_table[r])

\* num_cached_blocks is what the tree holds, and no operation leaves the cache
\* above its capacity.
CacheWithinCapacity ==
  /\ radix_cache.num_cached_blocks = Cardinality(Slots(radix_cache.nodes, Nodes))
  /\ radix_cache.num_cached_blocks <= num_gpu_blocks \div 3

\* A block the manager grants that some other request is using comes from a
\* cached prefix of the granted request's own prompt: what allocation takes from
\* the pool is shared with nobody.
SharingOnlyThroughCache ==
  [][\A r \in DOMAIN block_table' \ DOMAIN block_table :
       \A i \in DOMAIN block_table'[r] :
         (\E s \in DOMAIN block_table : \E j \in DOMAIN block_table[s] :
             block_table[s][j] = block_table'[r][i])
         => /\ r \in DOMAIN prompt_table'
            /\ \E q \in Nodes : /\ IsPrefix(q, prompt_table'[r])
                               /\ \E j \in DOMAIN radix_cache.nodes[q].block_ids :
                                    radix_cache.nodes[q].block_ids[j] = block_table'[r][i]]_vars

\* A block whose last reference goes is in the pool when the call returns, whether an
\* eviction or a request gave it up.  One exception: a refused allocation has matched a
\* prefix and then evicted it; the count that kept the prefix's blocks out of the pool was
\* its own, and taking it back pushes nothing.
LastReferenceFrees ==
  [][\A b \in Block : ref_counts[b] > 0 /\ ref_counts'[b] = 0 =>
       \/ \E i \in DOMAIN free_gpu_blocks' : free_gpu_blocks'[i] = b
       \/ /\ block_table' = block_table
          /\ \E tokens \in Prompts : \E h \in Hits(radix_cache, tokens) :
               /\ Len(free_gpu_blocks') < DivCeil(Len(tokens) - Len(h), block_size)
               /\ Occurrences(PathBlocks(radix_cache.nodes, h), b) > 0]_vars

\* Least recently used first, but among siblings only: when the eviction of a deposit
\* or of a granted allocation takes a node and leaves a sibling that was a leaf and had
\* been used less recently, then the same call has given that sibling a use: the
\* allocated prompt goes through it, or the deposit hangs its node below it.  (Across
\* levels there is no such order: a fresh leaf near the root goes before a stale one
\* further down.)
LeastRecentSiblingFirst ==
  [][\A q \in Nodes \ Nodes', y \in Nodes \cap Nodes' :
       /\ block_table' # block_table
       /\ \E a \in Nodes \cup {Root} : IsChild(Nodes, a, q) /\ IsChild(Nodes, a, y)
       /\ IsLeaf(Nodes, y)
       /\ <<y, q>> \in radix_cache.older
       => \/ \E r \in DOMAIN prompt_table' \ DOMAIN prompt_table : IsPrefix(y, prompt_table'[r])
          \/ \E r \in DOMAIN prompt_table \ DOMAIN prompt_table' :
               y \in VacantAt(Nodes, prompt_table[r])]_vars

=============================================================================
