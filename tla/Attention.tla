----------------------------- MODULE Attention ------------------------------
(***************************************************************************)
(* The attention of the served models (model/llama.rs, model/qwen.rs) by   *)
(* the shapes of its tensors, with the KV cache of the request.  A shape   *)
(* is a sequence of dimensions, Mismatch an error of candle.  m is a       *)
(* model: arch, n_heads, n_kv_heads, num_layers, and the dtype of its      *)
(* weights, which its activations have.  The cache holds one entry per     *)
(* appended token, with the layer that appended it and the position its    *)
(* rotary embedding was given.  At the end the GGUF models, which keep     *)
(* their own cache (model/quantized.rs).                                   *)
(***************************************************************************)
EXTENDS Integers, Sequences

head_dim == 2
Mismatch == <<>>

-----------------------------------------------------------------------------
(* candle                                                                  *)

Elements(shape) ==
  LET n[i \in 0..Len(shape)] == IF i = 0 THEN 1 ELSE n[i - 1] * shape[i] IN n[Len(shape)]

\* The leading dimensions are compared by their product.
Matmul(a, b) ==
  LET n == Len(a)
  IN IF /\ n >= 2 /\ Len(b) = n
        /\ Elements(SubSeq(a, 1, n - 2)) = Elements(SubSeq(b, 1, n - 2))
        /\ a[n] = b[n - 1]
       THEN [a EXCEPT ![n] = b[n]] ELSE Mismatch

Transpose(shape, i, j) == [shape EXCEPT ![i] = shape[j], ![j] = shape[i]]

\* A start below 0 (a usize that wraps, or a panic) is no better than an end
\* behind the dimension.
Narrow(shape, i, start, len) ==
  IF Len(shape) >= i /\ start >= 0 /\ start + len <= shape[i] THEN [shape EXCEPT ![i] = len]
                                                              ELSE Mismatch

-----------------------------------------------------------------------------

\* A slip, or the repair: positions go on behind the cached tokens.
PositionsContinued(index, seq_len, cache) == [i \in 1..seq_len |-> Len(cache) + i - 1]

\* RotaryEmbedding::apply
Positions(index, seq_len, cache) == [i \in 1..seq_len |-> index + i - 1]

\* append_kv
AppendKV(cache, layer, positions) ==
  cache \o [i \in DOMAIN positions |-> [layer |-> layer, pos |-> positions[i]]]

\* A slip: every KV head is repeated n_heads times.
ExpandedAll(m) == IF m.n_kv_heads = m.n_heads THEN m.n_heads ELSE m.n_kv_heads * m.n_heads

\* expand_kv: each KV head is repeated n_heads / n_kv_heads times.
Expanded(m) ==
  IF m.n_kv_heads = m.n_heads THEN m.n_heads ELSE m.n_kv_heads * (m.n_heads \div m.n_kv_heads)

\* Only a single token attends to what is cached, its own entry included.
UsesCache(seq_len, cache) == seq_len = 1 /\ Len(cache) > seq_len
ContextLen(seq_len, cache) == IF UsesCache(seq_len, cache) THEN Len(cache) ELSE seq_len

\* The shape behind the two products, from q (tokens, heads) and the expanded
\* k and v (context, heads).
Output(m, seq_len, context) ==
  LET q == <<1, seq_len, m.n_heads, head_dim>>
      full == <<1, context, Expanded(m), head_dim>>
      scores == Narrow(Matmul(q, Transpose(full, 3, 4)), 4, full[3] - seq_len, seq_len)
  IN Matmul(scores, Narrow(full, 2, full[2] - seq_len, seq_len))

\* LlamaAttention::forward.  The rotary embedding multiplies with factors in F32;
\* then the new K and V are cached, in F16, before anything else can fail.
AttentionForward(m, layer, seq_len, index, cache) ==
  LET appended == AppendKV(cache, layer, Positions(index, seq_len, cache))
  IN IF m.dtype # "F32" THEN [ok |-> FALSE, cache |-> cache]
     ELSE [ok |-> /\ UsesCache(seq_len, appended) => m.dtype = "F16"
                  /\ Elements(Output(m, seq_len, ContextLen(seq_len, appended)))
                       = seq_len * m.n_heads * head_dim,
           cache |-> appended]

\* Qwen2Attention::forward, the same without the all_reduce, which does nothing.
Qwen2AttentionForward(m, layer, seq_len, index, cache) == AttentionForward(m, layer, seq_len, index, cache)

\* LlamaModel::forward: layer by layer, up to the first that fails.
ModelForward(m, seq_len, index, cache) ==
  LET run[layer \in 0..m.num_layers] ==
        IF layer = 0 THEN [ok |-> TRUE, cache |-> cache]
        ELSE IF run[layer - 1].ok
               THEN AttentionForward(m, layer, seq_len, index, run[layer - 1].cache)
               ELSE run[layer - 1]
  IN run[m.num_layers]

\* Qwen2Model::forward
Qwen2Forward(m, seq_len, index, cache) ==
  LET run[layer \in 0..m.num_layers] ==
        IF layer = 0 THEN [ok |-> TRUE, cache |-> cache]
        ELSE IF run[layer - 1].ok
               THEN Qwen2AttentionForward(m, layer, seq_len, index, run[layer - 1].cache)
               ELSE run[layer - 1]
  IN run[m.num_layers]

\* ModelInstance::forward
Forward(m, seq_len, index, cache) ==
  IF m.arch = "Qwen2" THEN Qwen2Forward(m, seq_len, index, cache)
                      ELSE ModelForward(m, seq_len, index, cache)

\* A slip, or the repair: an input is given the place it starts at.
IndexOfStart(start) == start

\* The worker gives every chunk and every decode the index 0.
Index(start) == 0

ServedForward(m, seq_len, start, cache) == Forward(m, seq_len, Index(start), cache)

-----------------------------------------------------------------------------
(* GGUF: candle_transformers' quantized_llama has one cache, whoever's the *)
(* input is, and begins it anew when the index is 0.                       *)

CachedContext(inner, input, index) == IF index = 0 THEN input ELSE inner \o input

\* QuantizedLlama::forward leaves the request's cache alone.
QuantizedForward(inner, input, index) == CachedContext(inner, input, index)

\* The context the model computes an input from that starts at start, and keeps.
ServedQuantized(inner, input, start) == QuantizedForward(inner, input, Index(start))
=============================================================================
