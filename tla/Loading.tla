------------------------------ MODULE Loading -------------------------------
(***************************************************************************)
(* Which model a checkpoint is loaded as (model/config.rs,                 *)
(* model/loader.rs, model/model_registry.rs), as far as its files decide;  *)
(* what becomes of their tensors is in Weights.  And what the server       *)
(* starts with (main.rs).  d is a model path:                              *)
(*   gguf         it is a .gguf file                                       *)
(*   names        model_type and architectures, each as the set of the     *)
(*                keywords below that it contains in lower case            *)
(*   fields       the fields config.json has                               *)
(*   safetensors  there are .safetensors files                             *)
(*   files        the tokenizer's files next to them                       *)
(***************************************************************************)
EXTENDS Integers, Sequences, FiniteSetsExt

\* In the order infer_architecture asks for them.
Classes ==
  << [arch |-> "DecoderOnly",
      keywords |-> {"llama", "qwen", "gemma", "gpt", "bloom", "gptj"}],
     [arch |-> "MixtureOfExperts",
      keywords |-> {"moe", "mixtral", "deepseek", "gpt-oss"}],
     [arch |-> "HybridAttentionStateSpace",
      keywords |-> {"mamba", "qwen3.5", "state_space", "ssm", "hybrid", "s4"}],
     [arch |-> "MultiModal",
      keywords |-> {"llava", "qwen-vl", "pixtral", "vision", "multimodal", "vision-language"}],
     [arch |-> "EmbeddingRetrieval",
      keywords |-> {"e5", "mistral", "gte", "colbert", "embedding", "retrieval", "sbert"}],
     [arch |-> "RewardClassification",
      keywords |-> {"reward", "math", "classification", "qa", "scoring"}] >>

Keywords == UNION {Classes[i].keywords : i \in DOMAIN Classes}

\* The keywords within a keyword: a name with the second contains the first.
Within == {<<"gpt", "gptj">>, <<"gpt", "gpt-oss">>, <<"qwen", "qwen3.5">>, <<"qwen", "qwen-vl">>,
           <<"vision", "vision-language">>}
NameWith(keyword) == {keyword} \cup {k \in Keywords : <<k, keyword>> \in Within}

Matching(names) == {i \in DOMAIN Classes : Classes[i].keywords \cap UNION names # {}}

\* A slip: the last class that matches wins.
InferLastMatch(names) == IF Matching(names) = {} THEN "Unknown" ELSE Classes[Max(Matching(names))].arch

\* infer_architecture
InferArchitecture(names) ==
  IF Matching(names) = {} THEN "Unknown" ELSE Classes[Min(Matching(names))].arch

\* The fields to_llama_config cannot do without; the KV heads default to the heads.
Required == {"hidden_size", "intermediate_size", "num_hidden_layers", "num_attention_heads",
             "vocab_size"}
HasLlamaConfig(d) == Required \subseteq d.fields

\* from_architecture
ModelInstance(arch) == IF arch = "MixtureOfExperts" THEN "Qwen2" ELSE "Llama"

\* ModelLoader::new and load
Load(d) ==
  IF d.gguf THEN [ok |-> TRUE, model |-> "Quantized", arch |-> "Unknown"]
  ELSE IF ~HasLlamaConfig(d) \/ ~d.safetensors THEN [ok |-> FALSE]
  ELSE LET arch == InferArchitecture(d.names)
       IN [ok |-> TRUE, model |-> ModelInstance(arch), arch |-> arch]

-----------------------------------------------------------------------------
(* Start-up.  c is a command line: model, a model path d or NoModel;       *)
(* tokenizer, a path or NoPath; mode.  A path says what is there (kind:    *)
(* a file, a dir or nothing) and whether that file, or the dir's           *)
(* tokenizer.json, is in the format of tokenizer.json.                     *)

NoModel == [none |-> TRUE]
NoPath == [kind |-> "none", valid |-> FALSE]

\* A slip: the configuration is taken for the tokenizer.
CandidatesConfigFirst ==
  <<"tokenizer_config.json", "tokenizer.json", "tokenizer.model", "vocab.json", "spiece.model">>

Candidates ==
  <<"tokenizer.json", "tokenizer_config.json", "tokenizer.model", "vocab.json", "spiece.model">>

\* detect_tokenizer_path: the first candidate there is, in a directory.
DetectTokenizerPath(d) ==
  LET found == {i \in DOMAIN Candidates : Candidates[i] \in d.files}
  IN IF d.gguf \/ found = {} THEN NoPath
     ELSE [kind |-> "file", valid |-> Candidates[Min(found)] = "tokenizer.json"]

\* The argument, or else what is detected.
TokenizerPath(c) ==
  IF c.tokenizer # NoPath THEN c.tokenizer
  ELSE IF c.model = NoModel THEN NoPath ELSE DetectTokenizerPath(c.model)

\* A path where nothing is and a file that cannot be read are no errors.
HasTokenizer(path) == path.kind \in {"file", "dir"} /\ path.valid

ModeOf(c) == IF c.mode \in {"full-graph", "piecewise", "kernel-dispatch"} THEN c.mode ELSE "eager"

\* main: a model that cannot be loaded ends the start; without one the mock is served.
Start(c) ==
  IF c.model # NoModel /\ ~Load(c.model).ok THEN [ok |-> FALSE]
  ELSE [ok |-> TRUE, model |-> IF c.model = NoModel THEN "mock" ELSE Load(c.model).model,
        mode |-> ModeOf(c), tokenizer |-> HasTokenizer(TokenizerPath(c))]
=============================================================================
