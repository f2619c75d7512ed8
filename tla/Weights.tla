------------------------------ MODULE Weights -------------------------------
(***************************************************************************)
(* The tensors the models ask a checkpoint for when they are built         *)
(* (model/llama.rs, model/qwen.rs), each with its name and shape.  m is a  *)
(* model: arch ("Llama" or "Qwen2"), layers, heads, kv_heads, and the rank *)
(* and world_size it is built for.  The name of a tensor is the part of    *)
(* the model (<<i>> for layer i, <<>> for the rest), its module and        *)
(* "weight" or "bias".  At the end the tensors of quantized layers.        *)
(***************************************************************************)
EXTENDS Integers, Stages

head_dim == 2
intermediate_size == 6
vocab_size == 5
Hidden(m) == m.heads * head_dim

Tensor(part, module, kind, shape) == [name |-> <<part, module, kind>>, shape |-> shape]

-----------------------------------------------------------------------------
(* candle_nn                                                               *)

\* A slip, or the repair: a bias is taken if there is one (linear_no_bias).
LinearUnbiased(part, module, in, out) == {Tensor(part, module, "weight", <<out, in>>)}

\* linear asks for both.
Linear(part, module, in, out) ==
  {Tensor(part, module, "weight", <<out, in>>), Tensor(part, module, "bias", <<out>>)}
RmsNorm(part, module, size) == {Tensor(part, module, "weight", <<size>>)}
Embedding(part, module, vocab, size) == {Tensor(part, module, "weight", <<vocab, size>>)}

-----------------------------------------------------------------------------
(* The models                                                              *)

\* The same in both: the heads are dealt to the ranks.
Attention(m, layer) ==
  LET q_size == (m.heads \div m.world_size) * head_dim
      kv_size == (m.kv_heads \div m.world_size) * head_dim
  IN Linear(layer, "q_proj", Hidden(m), q_size) \cup Linear(layer, "k_proj", Hidden(m), kv_size)
       \cup Linear(layer, "v_proj", Hidden(m), kv_size) \cup Linear(layer, "o_proj", q_size, Hidden(m))

MLP(m, layer, size) ==
  Linear(layer, "gate_proj", Hidden(m), size) \cup Linear(layer, "up_proj", Hidden(m), size)
    \cup Linear(layer, "down_proj", size, Hidden(m))

\* Only the Llama divides its intermediate size.
LlamaMLP(m, layer) == MLP(m, layer, intermediate_size \div m.world_size)
Qwen2MLP(m, layer) == MLP(m, layer, intermediate_size)

Norms(m, layer) ==
  RmsNorm(layer, "input_layernorm", Hidden(m)) \cup RmsNorm(layer, "post_attention_layernorm", Hidden(m))

LlamaDecoderLayer(m, layer) == Attention(m, layer) \cup LlamaMLP(m, layer) \cup Norms(m, layer)
Qwen2DecoderLayer(m, layer) == Attention(m, layer) \cup Qwen2MLP(m, layer) \cup Norms(m, layer)

\* The ends of the model: the embedding on the first stage, norm and head on the last.
Ends(m) ==
  (IF m.rank = 0 THEN Embedding(<<>>, "embed_tokens", vocab_size, Hidden(m)) ELSE {})
    \cup (IF m.rank = m.world_size - 1
            THEN RmsNorm(<<>>, "norm", Hidden(m)) \cup Linear(<<>>, "lm_head", Hidden(m), vocab_size)
            ELSE {})

OwnLayers(m) ==
  LET stage == Stage(m.rank, m.world_size, m.layers)
  IN {<<i>> : i \in stage.start_layer..stage.end_layer - 1}

LlamaModel(m) == Ends(m) \cup UNION {LlamaDecoderLayer(m, layer) : layer \in OwnLayers(m)}
Qwen2Model(m) == Ends(m) \cup UNION {Qwen2DecoderLayer(m, layer) : layer \in OwnLayers(m)}

\* ModelInstance::from_architecture
Asked(m) == IF m.arch = "Qwen2" THEN Qwen2Model(m) ELSE LlamaModel(m)

\* A tensor that is missing or has another shape is an error.
Builds(m, checkpoint) == Asked(m) \subseteq checkpoint

-----------------------------------------------------------------------------
(* The layers of GPTQ and AWQ files (model/quantization/gptq.rs, awq.rs)   *)

\* They are asked for with the shape 0: one dimension, without an entry.
Got(checkpoint, module, kind) == Tensor(<<>>, module, kind, <<0>>) \in checkpoint

\* GptqLoader::load_linear takes a tensor of the layer's own name for its qweight.
GptqLoads(checkpoint, module) ==
  /\ Got(checkpoint, module, "") \/ Got(checkpoint, module, "qweight")
  /\ Got(checkpoint, module, "scales")

\* AwqLoader::load_linear
AwqLoads(checkpoint, module) ==
  \A kind \in {"qweight", "qzeros", "scales"} : Got(checkpoint, module, kind)
=============================================================================
