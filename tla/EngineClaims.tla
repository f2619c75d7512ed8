---------------------------- MODULE EngineClaims ----------------------------
(***************************************************************************)
(* What the comments and an assertion say of the serving loop, and the     *)
(* code does not do.  Each is checked by a run that is expected to violate *)
(* it.                                                                     *)
(***************************************************************************)
EXTENDS MCEngine

\* "request must be registered" (kv_cache.rs:53): append_kv is called on
\* registered requests only.  A request that the prefix cache lets start past its
\* first token is never registered.
RegisteredAtAppend == AtItem /\ num_layers > 0 => Item.req \in DOMAIN kv

\* "Inserts a new sequence of tokens and their computed blocks into the cache"
\* (radix_cache.rs:85): a prompt is cached when the model has read all of it.  Apply
\* takes a token from every chunk, so a request can be finished, and its blocks be
\* deposited under the whole prompt, with most of the prompt unread.
CachedBlocksComputed ==
  [][\A r \in DOMAIN block_table \ DOMAIN block_table' :
       radix_cache'.num_cached_blocks > radix_cache.num_cached_blocks => Prefilled(r)]_vars

\* "Deadline for request cancellation" (continuous_batching.rs:32): the deadline
\* ends a request.  Only schedule looks at it, which a sleeping worker never calls
\* and, once a forward pass has failed, nobody.
DeadlineEndsRequest == \A r \in Req : r \in late ~> r \notin DOMAIN requests
=============================================================================
