----------------------------- MODULE RadixCache -----------------------------
(***************************************************************************)
(* The prefix cache of the scheduler (scheduler/radix_cache.rs) as values  *)
(* and operators on them.  Each operator is one method of `RadixCache`; a  *)
(* method that mutates the cache returns the cache it leaves behind.       *)
(*                                                                         *)
(* The tree is a function from the token string spelled from the root to a *)
(* node to that node's contents.  A node is only ever added below an       *)
(* existing one or removed as a leaf, so the string, the parent and the    *)
(* blocks on the way from the root are fixed when the node is created.     *)
(***************************************************************************)
EXTENDS Integers, SequencesExt

CONSTANT max_capacity     \* blocks the cache may keep, RadixCache::new

Root == <<>>

(***************************************************************************)
(* A cache is a record                                                     *)
(*   nodes  token string -> [block_ids, path_blocks]: the node's own       *)
(*          blocks, and the blocks match_prefix has collected on reaching  *)
(*          it (those of its ancestors, then its own)                      *)
(*   older  the order of the nodes' last_accessed: <<x, y>> when x's is    *)
(*          the earlier one (two calls of Instant::now() are taken to be   *)
(*          distinct)                                                      *)
(*   num_cached_blocks                                                     *)
(***************************************************************************)
EmptyCache == [nodes |-> [q \in {} |-> [block_ids |-> <<>>, path_blocks |-> <<>>]],
               older |-> {}, num_cached_blocks |-> 0]

IsChild(D, a, c) == /\ IsStrictPrefix(a, c)
                    /\ \A x \in D : IsStrictPrefix(a, x) => ~IsStrictPrefix(x, c)

Children(D, a) == {c \in D : IsChild(D, a, c)}

IsLeaf(D, x) == \A y \in D : ~IsStrictPrefix(x, y)

\* The blocks collected on the way from the root to h.
PathBlocks(nodes, h) == IF h = Root THEN <<>> ELSE nodes[h].path_blocks

\* The places in the lists of the nodes E that hold a block: a block that is
\* listed twice has two.
Slots(nodes, E) == UNION {{q} \X (DOMAIN nodes[q].block_ids) : q \in E}

-----------------------------------------------------------------------------
(* match_prefix: descends while the child named by the next token matches  *)
(* in full, touches every node it passes, and reports their blocks.        *)

\* A slip: the descent enters a child on its first token alone.
MatchedByFirstToken(cache, tokens) ==
  {q \in DOMAIN cache.nodes : Len(q) <= Len(tokens) /\ q[1] = tokens[1]}

Matched(cache, tokens) == {q \in DOMAIN cache.nodes : IsPrefix(q, tokens)}

\* The node where the descent ends.  There is exactly one.
Hits(cache, tokens) ==
  {h \in Matched(cache, tokens) \cup {Root} :
      \A q \in Matched(cache, tokens) : Len(q) <= Len(h)}

\* last_accessed of the matched nodes is set from the root downwards.
Touch(cache, tokens) ==
  LET M == Matched(cache, tokens)
      Before(x, y) == CASE x \in M /\ y \in M -> Len(x) < Len(y)
                        [] x \notin M /\ y \in M -> TRUE
                        [] x \in M /\ y \notin M -> FALSE
                        [] OTHER -> <<x, y>> \in cache.older
  IN [nodes |-> cache.nodes,
      older |-> {p \in (DOMAIN cache.nodes) \X (DOMAIN cache.nodes) : Before(p[1], p[2])},
      num_cached_blocks |-> cache.num_cached_blocks]

-----------------------------------------------------------------------------
(* evict_lru: removes leaves until the cache is within its capacity, at    *)
(* least one if there is any.  find_oldest_leaf takes the oldest leaf among *)
(* the children of the node it looks at, and only if none of them is a     *)
(* leaf does it try the children, in the order of a HashMap.               *)

\* A slip: the newest leaf is taken.
FoundNewestLeaf(D, older, x) ==
  /\ x \in D
  /\ IsLeaf(D, x)
  /\ \A a \in D \cup {Root} :
        /\ IsChild(D, a, x) =>
             \A y \in Children(D, a) : IsLeaf(D, y) => <<x, y>> \notin older
        /\ IsStrictPrefix(a, x) /\ ~IsChild(D, a, x) =>
             \A y \in Children(D, a) : ~IsLeaf(D, y)

FoundLeaf(D, older, x) ==
  /\ x \in D
  /\ IsLeaf(D, x)
  /\ \A a \in D \cup {Root} :
        /\ IsChild(D, a, x) =>
             \A y \in Children(D, a) : IsLeaf(D, y) => <<y, x>> \notin older
        /\ IsStrictPrefix(a, x) /\ ~IsChild(D, a, x) =>
             \A y \in Children(D, a) : ~IsLeaf(D, y)

Remaining(D, es, k) == D \ {es[j] : j \in 1..k}

\* A slip: one block is subtracted per evicted node.
BlocksLeftByNode(cache, es, k) == cache.num_cached_blocks - k

\* num_cached_blocks after the first k evictions of es.
BlocksLeft(cache, es, k) ==
  cache.num_cached_blocks - Cardinality(Slots(cache.nodes, {es[j] : j \in 1..k}))

\* The sequences of nodes one call can remove, in the order it removes them.
EvictionRuns(cache) ==
  LET D == DOMAIN cache.nodes
  IN {es \in SetToAllKPermutations(D) :
        /\ \A k \in DOMAIN es : FoundLeaf(Remaining(D, es, k - 1), cache.older, es[k])
        /\ \A k \in 1..Len(es) - 1 : BlocksLeft(cache, es, k) > max_capacity
        /\ \/ Len(es) > 0 /\ BlocksLeft(cache, es, Len(es)) <= max_capacity
           \/ Remaining(D, es, Len(es)) = {}}

\* The cache after the evictions es.
AfterEviction(cache, es) ==
  LET D == Remaining(DOMAIN cache.nodes, es, Len(es))
  IN [nodes |-> [q \in D |-> cache.nodes[q]],
      older |-> cache.older \cap (D \X D),
      num_cached_blocks |-> BlocksLeft(cache, es, Len(es))]

\* The block lists the call returns, one per removed node.
EvictedLists(cache, es) == [k \in DOMAIN es |-> cache.nodes[es[k]].block_ids]

-----------------------------------------------------------------------------
(* insert: descends by the first token of each child without comparing the *)
(* rest, and hangs what is left of the tokens, with ALL the blocks, at the *)
(* first vacant entry.  Over capacity it evicts and drops the result.      *)

\* The node at y is entered from its parent: the walk still has tokens left
\* there, and the next one is the key of y's entry.
Entered(D, tokens, y) ==
  \E a \in D \cup {Root} : /\ IsChild(D, a, y)
                           /\ Len(a) < Len(tokens)
                           /\ y[Len(a) + 1] = tokens[Len(a) + 1]

\* Where the walk meets a vacant entry (no node below it starts with the next
\* token): at most one node.
VacantAt(D, tokens) ==
  {a \in D \cup {Root} :
     /\ \A y \in D : IsPrefix(y, a) => Entered(D, tokens, y)
     /\ Len(a) < Len(tokens)
     /\ \A y \in D : IsStrictPrefix(a, y) => y[Len(a) + 1] # tokens[Len(a) + 1]}

AddNode(cache, a, tokens, block_ids) ==
  LET D == DOMAIN cache.nodes
      new == a \o SubSeq(tokens, Len(a) + 1, Len(tokens))
      node == [block_ids |-> block_ids,
               path_blocks |-> PathBlocks(cache.nodes, a) \o block_ids]
  IN [nodes |-> [q \in D \cup {new} |-> IF q = new THEN node ELSE cache.nodes[q]],
      older |-> cache.older \cup (D \X {new}),
      num_cached_blocks |-> cache.num_cached_blocks + Len(block_ids)]

\* The caches the walk can leave before the capacity is looked at.
Grown(cache, tokens, block_ids) ==
  LET V == VacantAt(DOMAIN cache.nodes, tokens)
  IN IF V = {} THEN {cache} ELSE {AddNode(cache, a, tokens, block_ids) : a \in V}

Insert(cache, tokens, block_ids) ==
  UNION {IF g.num_cached_blocks > max_capacity
           THEN {AfterEviction(g, es) : es \in EvictionRuns(g)}
           ELSE {g} : g \in Grown(cache, tokens, block_ids)}

=============================================================================
