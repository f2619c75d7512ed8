------------------------- MODULE BlockManagerClaims -------------------------
(***************************************************************************)
(* What the comments of the scheduler say of BlockManager and RadixCache,  *)
(* and the code does not do.  Each is checked by a run that is expected to *)
(* violate it.                                                             *)
(***************************************************************************)
EXTENDS MCBlockManager

\* A prompt of more blocks than the cache may keep; two that diverge inside a node.
Overflowing == {<<1, 2, 1>>}
Divergent == {<<1, 2>>, <<1, 1, 2, 2>>}

InPool(b) == \E i \in DOMAIN free_gpu_blocks : free_gpu_blocks[i] = b

\* "The LRU eviction policy manages when blocks are truly released."
\* (block_manager.rs:128): every block is free, a request's or cached.  A deposit
\* that overflows the cache evicts, and insert drops the blocks its eviction
\* returns (radix_cache.rs:111).
BlocksNeverLost ==
  \A b \in Block : InPool(b) \/ TableHolders(b) # {} \/ CacheHolders(b) # {}

\* "The physical block IDs corresponding to these tokens" (radix_cache.rs:10): a
\* new node spells the prompt whose blocks it holds.  Insert enters a child by
\* its first token and skips its length without comparing the rest.
CachedUnderOwnPrompt ==
  [][\A q \in Nodes' \ Nodes : \E r \in DOMAIN prompt_table : prompt_table[r] = q]_vars
=============================================================================
