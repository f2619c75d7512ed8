---------------------------- MODULE PagedKernel -----------------------------
(***************************************************************************)
(* The software paged attention kernel (model/attention_kernel.rs) as      *)
(* index arithmetic: which score each weight is computed from.  c is a     *)
(* call: block_size, num_heads, num_kv_heads and the ctx_len of one        *)
(* sequence.  Heads, tokens and blocks are counted from 0; the score of    *)
(* head h at token t is the pair <<h, t>>.                                 *)
(***************************************************************************)
EXTENDS Integers, SequencesExt

NumBlocks(c) == (c.ctx_len + c.block_size - 1) \div c.block_size

BlockLen(c, b) ==
  LET start == b * c.block_size
  IN (IF start + c.block_size <= c.ctx_len THEN start + c.block_size ELSE c.ctx_len) - start

\* A slip: the heads take the KV heads in turn.
ExpandedInTurn(c) ==
  LET group_size == c.num_heads \div c.num_kv_heads
  IN [h \in 0..c.num_kv_heads * group_size - 1 |-> h % c.num_kv_heads]

\* expand_kv_for_gqa: each KV head is repeated num_heads / num_kv_heads times.
Expanded(c) ==
  LET group_size == c.num_heads \div c.num_kv_heads
  IN [h \in 0..c.num_kv_heads * group_size - 1 |-> h \div group_size]

\* A single KV head is squeezed away with its dimension, and a number of heads
\* that the KV heads do not divide does not fit the query: an error either way.
Fails(c) ==
  c.ctx_len > 0 /\ (c.num_kv_heads = 1 \/ DOMAIN Expanded(c) # 0..c.num_heads - 1)

\* The scores of a block are appended head by head.
BlockScores(c, b) ==
  FlattenSeq([h \in 1..c.num_heads |->
                [i \in 1..BlockLen(c, b) |-> <<h - 1, b * c.block_size + i - 1>>]])

AttnScores(c) == FlattenSeq([b \in 1..NumBlocks(c) |-> BlockScores(c, b - 1)])

\* The vector is read as one row of num_heads scores per token.
Weights(c) ==
  LET scores == AttnScores(c)
  IN [h \in 0..c.num_heads - 1 |-> [t \in 0..c.ctx_len - 1 |-> scores[t * c.num_heads + h + 1]]]

\* paged_attention_kernel for one sequence: per head and token, the score its
\* weight is computed from and the KV head its value is taken from.
PagedAttention(c) ==
  IF Fails(c) THEN [ok |-> FALSE]
  ELSE [ok |-> TRUE, weights |-> Weights(c), values |-> Expanded(c)]
=============================================================================
