--------------------------- MODULE ModelCodeProofs ---------------------------
(***************************************************************************)
(* What the functions of the model code compute for calls of every size:   *)
(* the scores of the paged kernel, what of a model's files is found, what  *)
(* the execution engine answers, what the client of a chat is told and     *)
(* where its answer ends, which tensors a model asks for, what its         *)
(* attention layers cache, what a speculative step returns, and which      *)
(* tokens are drawn from the logits.                                       *)
(***************************************************************************)
EXTENDS PackingProofs

-----------------------------------------------------------------------------
(* Loading                                                                 *)

\* The least of a finite set, as the loader takes it.
LEMMA LoaderMin ==
  ASSUME NEW S \in SUBSET Int, IsFiniteSet(S), S # {}
  PROVE  Loader!Min(S) \in S /\ \A x \in S : Loader!Min(S) <= x
BY LeastAndGreatest DEF Loader!Min

\* The first entry of a list that is looked for is found exactly if it is there.
LEMMA FirstOf ==
  ASSUME NEW n \in Nat, NEW S \in SUBSET (1..n), S # {}, NEW k \in 1..n
  PROVE  /\ Loader!Min(S) \in 1..n
         /\ Loader!Min(S) = k <=> k \in S /\ \A j \in 1..k - 1 : j \notin S
<1>1. S \in SUBSET Int /\ IsFiniteSet(S)
  <2>1. IsFiniteSet(1..n)
    BY FS_Interval
  <2>2. IsFiniteSet(S)
    BY <2>1, FS_Subset
  <2> QED BY <2>2
<1>2. Loader!Min(S) \in S /\ \A x \in S : Loader!Min(S) <= x
  BY <1>1, LoaderMin
<1> DEFINE m == Loader!Min(S)
<1>3. m \in Int /\ m \in 1..n
  <2>1. m \in S
    BY <1>2
  <2> HIDE DEF m
  <2> QED BY <2>1
<1> HIDE DEF m
<1>4. ASSUME m = k PROVE k \in S /\ \A j \in 1..k - 1 : j \notin S
  BY <1>2, <1>3, <1>4 DEF m
<1>5. ASSUME k \in S, \A j \in 1..k - 1 : j \notin S PROVE m = k
  <2>1. m <= k /\ m \in S
    BY <1>2, <1>5 DEF m
  <2>2. ~(m \in 1..k - 1)
    BY <2>1, <1>5
  <2> QED BY <2>1, <2>2, <1>3
<1> QED BY <1>3, <1>4, <1>5 DEF m

\* detect_tokenizer_path finds a tokenizer that can be read exactly if tokenizer.json
\* is there.
THEOREM TokenizerDetected ==
  ASSUME NEW d, d.gguf \in BOOLEAN
  PROVE  Loader!HasTokenizer(Loader!DetectTokenizerPath(d))
           <=> ~d.gguf /\ "tokenizer.json" \in d.files
<1> DEFINE found == {i \in DOMAIN Loader!Candidates : Loader!Candidates[i] \in d.files}
           first == Loader!Min(found)
<1>1. /\ DOMAIN Loader!Candidates = 1..5
      /\ Loader!Candidates[1] = "tokenizer.json"
      /\ \A i \in 2..5 : Loader!Candidates[i] # "tokenizer.json"
  BY DEF Loader!Candidates
<1>2. found \in SUBSET (1..5) /\ (1 \in found <=> "tokenizer.json" \in d.files)
  BY <1>1
<1>3. Loader!DetectTokenizerPath(d) =
        IF d.gguf \/ found = {} THEN Loader!NoPath
        ELSE [kind |-> "file", valid |-> Loader!Candidates[first] = "tokenizer.json"]
  BY DEF Loader!DetectTokenizerPath
<1> HIDE DEF found
<1>4. ASSUME found # {}
      PROVE  Loader!Candidates[first] = "tokenizer.json" <=> 1 \in found
  <2>1. /\ first \in 1..5
        /\ first = 1 <=> 1 \in found /\ \A j \in 1..1 - 1 : j \notin found
    BY <1>2, <1>4, FirstOf
  <2> HIDE DEF first
  <2> QED BY <1>1, <2>1
<1> HIDE DEF first
<1> DEFINE readable == Loader!Candidates[first] = "tokenizer.json"
<1>5. readable \in BOOLEAN
  OBVIOUS
<1>6. CASE d.gguf \/ found = {}
  <2>1. ~Loader!HasTokenizer(Loader!NoPath)
    BY DEF Loader!HasTokenizer, Loader!NoPath
  <2> QED BY <1>2, <1>3, <1>6, <2>1
<1>7. CASE ~d.gguf /\ found # {}
  <2> HIDE DEF readable
  <2>1. Loader!HasTokenizer([kind |-> "file", valid |-> readable]) <=> readable
    BY <1>5 DEF Loader!HasTokenizer
  <2> QED BY <1>2, <1>3, <1>4, <1>7, <2>1 DEF readable
<1> QED BY <1>6, <1>7

\* What the server has started with.
StartedOK == call.op = "start" => result \in {NoResult, Loader!Start(call)}

\* A server that starts has a tokenizer exactly if its path is right, or
\* none is given and the model is a directory with a tokenizer.json.
THEOREM TokenizerFound == Spec => []TokenizerFromJsonOnly
<1>1. CallOK /\ StartedOK => TokenizerFromJsonOnly
  <2> SUFFICES ASSUME CallOK, StartedOK, call.op = "start", result # NoResult, result.ok
               PROVE  result.tokenizer <=>
                        IF call.tokenizer # Loader!NoPath THEN call.tokenizer.valid
                        ELSE /\ call.model # Loader!NoModel
                             /\ ~call.model.gguf /\ "tokenizer.json" \in call.model.files
    BY DEF TokenizerFromJsonOnly
  <2> DEFINE path == Loader!TokenizerPath(call)
             has == Loader!HasTokenizer(path)
  <2>1. result = Loader!Start(call) /\ result.ok
    BY DEF StartedOK
  <2>2. result.tokenizer = has
    <3> HIDE DEF has
    <3> QED BY <2>1 DEF Loader!Start, has
  <2>3. /\ call.tokenizer \in [kind : {"file", "dir"}, valid : BOOLEAN]
             \cup {Loader!NoPath, [kind |-> "missing", valid |-> FALSE]}
        /\ call.model \in ModelPaths \cup {Loader!NoModel}
    BY DEF CallOK, StartCalls
  <2>4. CASE call.tokenizer # Loader!NoPath
    <3>1. path = call.tokenizer
      BY <2>4 DEF Loader!TokenizerPath
    <3>2. Loader!HasTokenizer(call.tokenizer) <=> call.tokenizer.valid
      BY <2>3, <2>4 DEF Loader!HasTokenizer
    <3> QED BY <2>2, <2>4, <3>1, <3>2
  <2>5. CASE call.tokenizer = Loader!NoPath /\ call.model = Loader!NoModel
    <3>1. path = Loader!NoPath
      BY <2>5 DEF Loader!TokenizerPath
    <3>2. ~Loader!HasTokenizer(Loader!NoPath)
      BY DEF Loader!HasTokenizer, Loader!NoPath
    <3> QED BY <2>2, <2>5, <3>1, <3>2
  <2>6. CASE call.tokenizer = Loader!NoPath /\ call.model # Loader!NoModel
    <3>1. path = Loader!DetectTokenizerPath(call.model)
      BY <2>6 DEF Loader!TokenizerPath
    <3>2. call.model.gguf \in BOOLEAN
      BY <2>3, <2>6 DEF ModelPaths
    <3>3. has <=> ~call.model.gguf /\ "tokenizer.json" \in call.model.files
      BY <3>1, <3>2, TokenizerDetected
    <3> QED BY <2>2, <2>6, <3>3
  <2> QED BY <2>4, <2>5, <2>6
<1>2. Init => CallOK /\ StartedOK
  BY CallsStart DEF Init, StartedOK
<1>3. CallOK /\ StartedOK /\ [Next]_<<call, result>> => CallOK' /\ StartedOK'
  BY CallsKept, StepOfCall DEF StartedOK, StartServer
<1> QED BY <1>1, <1>2, <1>3, PTL DEF Spec

\* infer_architecture takes a checkpoint for a mixture of experts by the keywords of
\* these only where it has none of the decoders'.
THEOREM ExpertsInferred ==
  ASSUME NEW names
  PROVE  Loader!InferArchitecture(names) = "MixtureOfExperts" <=>
           /\ {"moe", "mixtral", "deepseek", "gpt-oss"} \cap UNION names # {}
           /\ {"llama", "qwen", "gemma", "gpt", "bloom", "gptj"} \cap UNION names = {}
<1> DEFINE S == Loader!Matching(names)
           first == Loader!Min(S)
<1>1. /\ DOMAIN Loader!Classes = 1..6
      /\ \A i \in 1..6 : Loader!Classes[i].arch = "MixtureOfExperts" <=> i = 2
      /\ Loader!Classes[1].keywords = {"llama", "qwen", "gemma", "gpt", "bloom", "gptj"}
      /\ Loader!Classes[2].keywords = {"moe", "mixtral", "deepseek", "gpt-oss"}
  BY DEF Loader!Classes
<1>2. /\ S \in SUBSET (1..6)
      /\ 1 \in S <=> Loader!Classes[1].keywords \cap UNION names # {}
      /\ 2 \in S <=> Loader!Classes[2].keywords \cap UNION names # {}
  BY <1>1 DEF Loader!Matching
<1>3. Loader!InferArchitecture(names) = "MixtureOfExperts" <=> 2 \in S /\ 1 \notin S
  <2>1. CASE S = {}
    BY <2>1 DEF Loader!InferArchitecture
  <2>2. CASE S # {}
    <3> HIDE DEF S
    <3>1. /\ first \in 1..6
          /\ first = 2 <=> 2 \in S /\ \A j \in 1..2 - 1 : j \notin S
      BY <1>2, <2>2, FirstOf
    <3>2. Loader!InferArchitecture(names) = Loader!Classes[first].arch
      BY <2>2 DEF Loader!InferArchitecture, S
    <3> HIDE DEF first
    <3>3. first = 2 <=> 2 \in S /\ 1 \notin S
      BY <3>1
    <3> QED BY <1>1, <3>1, <3>2, <3>3
  <2> QED BY <2>1, <2>2
<1> HIDE DEF S
<1> QED BY <1>1, <1>2, <1>3

\* What has been loaded.
LoadedOK == call.op = "load" => result \in {NoResult, Loader!Load(call)}

\* A name with gpt-oss or gptj contains gpt.
LEMMA NamesClosed ==
  ASSUME NEW names, NEW K, NEW L, names = {Loader!NameWith(K), Loader!NameWith(L)}
  PROVE  {"gpt-oss", "gptj"} \cap UNION names # {} => "gpt" \in UNION names
<1>1. "gpt" \in Loader!Keywords
  BY DEF Loader!Keywords, Loader!Classes
<1>2. ASSUME NEW k, {"gpt-oss", "gptj"} \cap Loader!NameWith(k) # {}
      PROVE  "gpt" \in Loader!NameWith(k)
  <2>1. \A j : <<j, k>> \in Loader!Within => j \notin {"gpt-oss", "gptj"}
    BY DEF Loader!Within
  <2>2. k \in {"gpt-oss", "gptj"}
    BY <1>2, <2>1 DEF Loader!NameWith
  <2>3. <<"gpt", k>> \in Loader!Within
    BY <2>2 DEF Loader!Within
  <2> QED BY <1>1, <2>3 DEF Loader!NameWith
<1> QED BY <1>2

\* Only mixture-of-experts names without a decoder's run as Qwen2.
THEOREM QwenIsLlama == Spec => []QwenRunsAsLlama
<1>1. CallOK /\ LoadedOK => QwenRunsAsLlama
  <2> SUFFICES ASSUME CallOK, LoadedOK, call.op = "load", result # NoResult
               PROVE  QwenRunsAsLlama
    BY DEF QwenRunsAsLlama
  <2> DEFINE text == UNION call.names
             arch == Loader!InferArchitecture(call.names)
  <2>1. result = Loader!Load(call) /\ call \in LoadCalls
    BY DEF CallOK, LoadedOK
  <2>2. /\ call.gguf \in BOOLEAN /\ call.safetensors \in BOOLEAN
        /\ call.names = {} \/ \E k, l \in Loader!Keywords :
                                call.names = {Loader!NameWith(k), Loader!NameWith(l)}
    BY <2>1 DEF LoadCalls
  <2>3. {"gpt-oss", "gptj"} \cap text # {} => "gpt" \in text
    BY <2>2, NamesClosed
  <2>4. Loader!HasLlamaConfig(call) <=> AllFields \ call.fields \subseteq {"num_key_value_heads"}
    BY DEF AllFields, Loader!HasLlamaConfig, Loader!Required
  <2>5. arch = "MixtureOfExperts" <=>
          /\ text \cap {"moe", "mixtral", "deepseek"} # {}
          /\ text \cap {"llama", "qwen", "gemma", "gpt", "bloom"} = {}
    BY <2>3, ExpertsInferred
  <2> HIDE DEF arch, text
  <2>6. CASE call.gguf
    <3>1. result.ok
      BY <2>1, <2>6 DEF Loader!Load
    <3> QED BY <2>6, <3>1 DEF QwenRunsAsLlama
  <2>7. CASE ~call.gguf /\ ~(Loader!HasLlamaConfig(call) /\ call.safetensors)
    <3>1. ~result.ok
      BY <2>1, <2>7 DEF Loader!Load
    <3> QED BY <2>4, <2>7, <3>1 DEF QwenRunsAsLlama
  <2>8. CASE ~call.gguf /\ Loader!HasLlamaConfig(call) /\ call.safetensors
    <3>1. result.ok /\ result.model = Loader!ModelInstance(arch)
      BY <2>1, <2>8 DEF Loader!Load, arch
    <3>2. /\ result.model \in {"Llama", "Qwen2"}
          /\ result.model = "Qwen2" <=> arch = "MixtureOfExperts"
      BY <3>1 DEF Loader!ModelInstance
    <3> QED BY <2>4, <2>5, <2>8, <3>1, <3>2 DEF QwenRunsAsLlama, text
  <2> QED BY <2>2, <2>6, <2>7, <2>8
<1>2. Init => CallOK /\ LoadedOK
  BY CallsStart DEF Init, LoadedOK
<1>3. CallOK /\ LoadedOK /\ [Next]_<<call, result>> => CallOK' /\ LoadedOK'
  BY CallsKept, StepOfCall DEF LoadedOK, LoadModel
<1> QED BY <1>1, <1>2, <1>3, PTL DEF Spec

-----------------------------------------------------------------------------
(* Concatenation                                                           *)

\* s has n entries.
Entries(s, n) == n \in Nat /\ s = [k \in 1..n |-> s[k]]

\* What has one sequence before the other is their concatenation.
LEMMA Concatenated ==
  ASSUME NEW m, NEW n, NEW s, NEW t, NEW u,
         Entries(s, m), Entries(t, n), Entries(u, m + n),
         \A k \in 1..m + n : u[k] = IF k <= m THEN s[k] ELSE t[k - m]
  PROVE  u = s \o t
<1> DEFINE T == {s[k] : k \in 1..m} \cup {t[k] : k \in 1..n}
<1> USE DEF Entries
<1>1. s \in Seq(T) /\ Len(s) = m
  <2>1. \A k \in 1..m : s[k] \in T
    OBVIOUS
  <2> HIDE DEF T
  <2>2. [k \in 1..m |-> s[k]] \in [1..m -> T]
    BY <2>1
  <2>3. s \in [1..m -> T] /\ m \in Nat
    BY <2>2
  <2> HIDE DEF Entries
  <2>4. s \in Seq(T)
    BY <2>3, SeqDef
  <2>5. Len(s) \in Nat /\ 1..Len(s) = 1..m
    BY <2>3, <2>4, LenProperties
  <2>6. Len(s) = m
    BY <2>3, <2>5
  <2> QED BY <2>4, <2>6
<1>2. t \in Seq(T) /\ Len(t) = n
  <2>1. \A k \in 1..n : t[k] \in T
    OBVIOUS
  <2> HIDE DEF T
  <2>2. [k \in 1..n |-> t[k]] \in [1..n -> T]
    BY <2>1
  <2>3. t \in [1..n -> T] /\ n \in Nat
    BY <2>2
  <2> HIDE DEF Entries
  <2>4. t \in Seq(T)
    BY <2>3, SeqDef
  <2>5. Len(t) \in Nat /\ 1..Len(t) = 1..n
    BY <2>3, <2>4, LenProperties
  <2>6. Len(t) = n
    BY <2>3, <2>5
  <2> QED BY <2>4, <2>6
<1> HIDE DEF T
<1>3. /\ s \o t \in Seq(T) /\ Len(s \o t) = m + n
      /\ \A k \in 1..m + n : (s \o t)[k] = IF k <= m THEN s[k] ELSE t[k - m]
  <2> HIDE DEF Entries
  <2>1. /\ s \o t \in Seq(T) /\ Len(s \o t) = Len(s) + Len(t)
        /\ \A k \in 1..Len(s) + Len(t) :
             (s \o t)[k] = IF k <= Len(s) THEN s[k] ELSE t[k - Len(s)]
    BY <1>1, <1>2, ConcatProperties
  <2> QED BY <1>1, <1>2, <2>1
<1> DEFINE v == s \o t
<1>4. v = [k \in 1..m + n |-> v[k]]
  BY <1>3
<1>5. \A k \in 1..m + n : v[k] = u[k]
  BY <1>3
<1> HIDE DEF v
<1> QED BY <1>4, <1>5 DEF v

\* FlattenSeq of sequences whose first i ones make up F[i].
LEMMA Flattened ==
  ASSUME NEW ss, Len(ss) \in Nat \ {0}, NEW F,
         DOMAIN F = 1..Len(ss), F = [i \in 1..Len(ss) |-> F[i]],
         F[1] = ss[1], \A i \in 2..Len(ss) : F[i] = F[i - 1] \o ss[i]
  PROVE  FlattenSeq(ss) = F[Len(ss)]
<1> DEFINE n == Len(ss)
           Recursive(f) == f = [i \in 1..n |-> IF i = 1 THEN ss[i] ELSE f[i - 1] \o ss[i]]
           flatten == CHOOSE f : Recursive(f)
<1>1. FlattenSeq(ss) = flatten[n]
  BY DEF FlattenSeq
<1>2. Recursive(F)
  <2>1. ASSUME NEW i \in 1..n PROVE F[i] = IF i = 1 THEN ss[i] ELSE F[i - 1] \o ss[i]
    <3>1. CASE i = 1
      BY <3>1
    <3>2. CASE i # 1
      <4>1. i \in 2..n
        BY <3>2
      <4> QED BY <3>2, <4>1
    <3> QED BY <3>1, <3>2
  <2> QED BY <2>1
<1>3. Recursive(flatten)
  <2> HIDE DEF Recursive
  <2> QED BY <1>2
<1> DEFINE wrong == {i \in 1..n : flatten[i] # F[i]}
<1>4. ASSUME wrong # {} PROVE FALSE
  <2>1. wrong \in SUBSET Int /\ IsFiniteSet(wrong)
    <3>1. IsFiniteSet(1..n)
      BY FS_Interval
    <3>2. wrong \in SUBSET (1..n)
      OBVIOUS
    <3> HIDE DEF wrong
    <3>3. IsFiniteSet(wrong)
      BY <3>1, <3>2, FS_Subset
    <3> QED BY <3>2, <3>3
  <2>2. PICK i \in wrong : \A j \in wrong : i <= j
    <3> HIDE DEF wrong
    <3> QED BY <1>4, <2>1, LeastAndGreatest
  <2>3. i \in 1..n /\ flatten[i] # F[i]
    OBVIOUS
  <2>4. \A k \in 1..n : flatten[k] = IF k = 1 THEN ss[k] ELSE flatten[k - 1] \o ss[k]
    <3> HIDE DEF flatten
    <3> QED BY <1>3
  <2>5. CASE i = 1
    BY <2>3, <2>4, <2>5
  <2>6. CASE i # 1
    <3>1. i \in 2..n /\ i - 1 \in 1..n /\ ~(i <= i - 1)
      <4>1. n \in Nat /\ i \in 1..n
        BY <2>3
      <4> HIDE DEF n, wrong
      <4> QED BY <2>6, <4>1
    <3>2. flatten[i - 1] = F[i - 1]
      <4> HIDE DEF flatten
      <4> QED BY <2>2, <3>1
    <3> QED BY <2>3, <2>4, <2>6, <3>1, <3>2
  <2> QED BY <2>5, <2>6
<1> HIDE DEF flatten
<1> QED BY <1>1, <1>4

-----------------------------------------------------------------------------
(* The paged kernel                                                        *)

\* The scores of h heads at L tokens from base on, head by head.
Runs(h, L, base) == [k \in 1..h * L |-> <<(k - 1) \div L, base + ((k - 1) % L)>>]

\* One head at L tokens.
Run(h, L, base) == [i \in 1..L |-> <<h, base + i - 1>>]

\* The scores of one more head come behind those of the heads before it.
LEMMA RunsAppended ==
  ASSUME NEW h \in Nat, NEW L \in Nat \ {0}, NEW base \in Int
  PROVE  /\ Runs(h + 1, L, base) = Runs(h, L, base) \o Run(h, L, base)
         /\ Runs(1, L, base) = Run(0, L, base)
<1>1. h * L \in Nat /\ (h + 1) * L = h * L + L
  BY QuotientRemainder, Multiples
<1> DEFINE s == Runs(h, L, base)
           t == Run(h, L, base)
           m == h * L
           u == Runs(h + 1, L, base)
<1>2. Len(s) = m /\ Len(t) = L /\ DOMAIN u = 1..m + L
  BY <1>1 DEF Runs, Run
<1>3. Entries(s, m) /\ Entries(t, L)
  BY <1>1 DEF Runs, Run, Entries
<1>4. ASSUME NEW k \in 1..m + L
      PROVE  u[k] = IF k <= m THEN s[k] ELSE t[k - m]
  <2>1. u[k] = <<(k - 1) \div L, base + ((k - 1) % L)>>
    BY <1>1 DEF Runs
  <2>2. CASE k <= m
    <3>1. k \in 1..m
      BY <1>1, <2>2
    <3> QED BY <2>1, <2>2, <3>1 DEF Runs
  <2>3. CASE ~(k <= m)
    <3> DEFINE j == k - 1 - m
    <3>1. j \in 0..L - 1 /\ k - 1 = h * L + j /\ k - m \in 1..L /\ k - m = j + 1
      BY <1>1, <2>3
    <3> HIDE DEF j, m
    <3>2. (h * L + j) \div L = h /\ (h * L + j) % L = j
      BY <3>1, QuotientRemainder
    <3>3. u[k] = <<h, base + j>>
      BY <2>1, <3>1, <3>2
    <3>4. t[k - m] = <<h, base + (j + 1) - 1>>
      BY <3>1 DEF Run
    <3>5. base + (j + 1) - 1 = base + j
      BY <3>1
    <3> QED BY <2>3, <3>3, <3>4, <3>5
  <2> QED BY <2>2, <2>3
<1>5. Entries(u, m + L)
  BY <1>1, <1>2 DEF Runs, Entries
<1>6. u = s \o t
  <2> HIDE DEF u, s, t, m
  <2> QED BY <1>3, <1>4, <1>5, Concatenated
<1>7. Runs(1, L, base) = Run(0, L, base)
  <2>1. ASSUME NEW k \in 1..L
        PROVE  <<(k - 1) \div L, base + ((k - 1) % L)>> = <<0, base + k - 1>>
    <3> DEFINE j == k - 1
    <3>1. j \in 0..L - 1 /\ 0 \in Nat
      OBVIOUS
    <3> HIDE DEF j
    <3>2. (0 * L + j) \div L = 0 /\ (0 * L + j) % L = j
      BY <3>1, QuotientRemainder
    <3>3. 0 * L + j = j
      BY <3>1
    <3>4. base + j = base + k - 1
      BY DEF j
    <3> QED BY <3>2, <3>3, <3>4 DEF j
  <2>2. 1 * L = L
    OBVIOUS
  <2> QED BY <2>1, <2>2 DEF Runs, Run
<1> QED BY <1>6, <1>7

\* A call as the kernel may get it, with at least one token.
KernelCall(c) ==
  /\ c.ctx_len \in Nat \ {0} /\ c.block_size \in Nat \ {0} /\ c.num_heads \in Nat \ {0}

\* The blocks are full but for the last one, which ends the context.
LEMMA BlockLens ==
  ASSUME NEW c, KernelCall(c)
  PROVE  /\ NumBlocks(c) \in Nat \ {0}
         /\ NumBlocks(c) * c.block_size >= c.ctx_len
         /\ (NumBlocks(c) - 1) * c.block_size < c.ctx_len
         /\ \A b \in 0..NumBlocks(c) - 1 :
              /\ b * c.block_size \in Nat
              /\ BlockLen(c, b) \in 1..c.block_size
              /\ b < NumBlocks(c) - 1 => BlockLen(c, b) = c.block_size
              /\ b * c.block_size + BlockLen(c, b) <= c.ctx_len
              /\ b = NumBlocks(c) - 1 => b * c.block_size + BlockLen(c, b) = c.ctx_len
<1> DEFINE B == c.block_size
           ctx == c.ctx_len
           x == ctx + B - 1
           n == NumBlocks(c)
<1>1. B \in Nat \ {0} /\ ctx \in Nat \ {0} /\ x \in Nat
  BY DEF KernelCall
<1>2. n = x \div B
  BY DEF NumBlocks
<1>3. n \in Nat /\ n * B \in Int /\ n * B <= x /\ x < n * B + B
  <2> HIDE DEF x, n, B
  <2>1. x \div B \in Nat
    BY <1>1, OneInterval
  <2> QED BY <1>1, <1>2, <2>1, OneInterval
<1> HIDE DEF n
<1>4. n # 0
  <2> SUFFICES ASSUME n = 0 PROVE FALSE
    OBVIOUS
  <2>1. n * B = 0
    BY <1>1
  <2>2. x >= B
    BY <1>1
  <2> HIDE DEF x, B
  <2> QED BY <1>1, <1>3, <2>1, <2>2
<1>5. (n - 1) * B \in Int /\ n * B = (n - 1) * B + B
  <2>1. n - 1 \in Int /\ n = (n - 1) + 1
    BY <1>3
  <2> QED BY <1>1, <2>1, Multiples
<1>6. n * B >= ctx /\ (n - 1) * B < ctx
  <2> DEFINE end == n * B
             last == (n - 1) * B
  <2>1. /\ end \in Int /\ last \in Int /\ end = last + B
        /\ end <= x /\ x < end + B /\ x = ctx + B - 1
    BY <1>3, <1>5
  <2> HIDE DEF end, last, x, B, ctx
  <2>2. end >= ctx /\ last < ctx
    BY <1>1, <2>1
  <2> QED BY <2>2 DEF end, last
<1>7. ASSUME NEW b \in 0..n - 1
      PROVE  /\ b * B \in Nat
             /\ BlockLen(c, b) \in 1..B
             /\ b < n - 1 => BlockLen(c, b) = B
             /\ b * B + BlockLen(c, b) <= ctx
             /\ b = n - 1 => b * B + BlockLen(c, b) = ctx
  <2>1. b \in Nat /\ b <= n - 1 /\ n - 1 \in Int
    BY <1>3
  <2>2. 0 * B <= b * B /\ b * B <= (n - 1) * B /\ b * B \in Int
    BY <1>1, <2>1, Multiples
  <2>3. b < n - 1 => (b + 1) * B <= (n - 1) * B /\ (b + 1) * B = b * B + B
    BY <1>1, <2>1, Multiples
  <2> DEFINE start == b * B
  <2>4. BlockLen(c, b) = (IF start + B <= ctx THEN start + B ELSE ctx) - start
    BY DEF BlockLen
  <2>5. start \in Nat /\ start < ctx
    BY <1>5, <1>6, <2>2, <1>1
  <2>6. b < n - 1 => start + B <= ctx
    BY <1>5, <1>6, <2>3, <2>5, <1>1
  <2>7. b = n - 1 => start + B >= ctx
    BY <1>5, <1>6, <1>1
  <2> HIDE DEF start, B, ctx
  <2>8. /\ BlockLen(c, b) \in 1..B
        /\ b < n - 1 => BlockLen(c, b) = B
        /\ start + BlockLen(c, b) <= ctx
        /\ b = n - 1 => start + BlockLen(c, b) = ctx
    BY <1>1, <2>1, <2>4, <2>5, <2>6, <2>7
  <2> QED BY <2>5, <2>8 DEF start
<1> QED BY <1>3, <1>4, <1>6, <1>7 DEF n

\* The scores of a block.
LEMMA BlockScoresRuns ==
  ASSUME NEW c, KernelCall(c), NEW b \in 0..NumBlocks(c) - 1
  PROVE  BlockScores(c, b) = Runs(c.num_heads, BlockLen(c, b), b * c.block_size)
<1> DEFINE H == c.num_heads
           L == BlockLen(c, b)
           base == b * c.block_size
           ss == [h \in 1..H |-> Run(h - 1, L, base)]
           F == [h \in 1..H |-> Runs(h, L, base)]
<1>1. H \in Nat \ {0}
  BY DEF KernelCall
<1>2. L \in Nat \ {0} /\ base \in Int
  <2>1. L \in 1..c.block_size /\ base \in Nat
    BY BlockLens
  <2> HIDE DEF L, base
  <2> QED BY <2>1
<1>3. BlockScores(c, b) = FlattenSeq(ss)
  BY DEF BlockScores, Run
<1> HIDE DEF H, L, base
<1>4. Len(ss) = H /\ DOMAIN F = 1..Len(ss) /\ F = [i \in 1..Len(ss) |-> F[i]]
  BY <1>1
<1>5. F[1] = ss[1]
  <2>1. 1 \in 1..H /\ 1 - 1 = 0 /\ 0 \in Nat
    BY <1>1
  <2>2. Runs(1, L, base) = Run(0, L, base)
    BY <1>2, <2>1, RunsAppended
  <2> QED BY <2>1, <2>2
<1>6. ASSUME NEW h \in 2..Len(ss) PROVE F[h] = F[h - 1] \o ss[h]
  <2>1. h - 1 \in Nat /\ h - 1 \in 1..H /\ h \in 1..H /\ (h - 1) + 1 = h
    BY <1>1, <1>4
  <2>2. Runs((h - 1) + 1, L, base) = Runs(h - 1, L, base) \o Run(h - 1, L, base)
    BY <1>2, <2>1, RunsAppended
  <2> QED BY <2>1, <2>2
<1>7. FlattenSeq(ss) = F[Len(ss)]
  <2> HIDE DEF F, ss
  <2>1. Len(ss) \in Nat \ {0}
    BY <1>1, <1>4
  <2> QED BY <1>4, <1>5, <1>6, <2>1, Flattened
<1> QED BY <1>1, <1>3, <1>4, <1>7 DEF H, L, base

\* The score at place m, counted from 0: its block is as far behind as the scores of
\* full blocks reach, and within its block it is listed head by head.
ScorePlace(c, m) ==
  LET b == m \div (c.num_heads * c.block_size)
      r == m % (c.num_heads * c.block_size)
  IN <<r \div BlockLen(c, b), b * c.block_size + (r % BlockLen(c, b))>>

\* The end of the first i blocks.
BlocksEnd(c, i) == IF i * c.block_size <= c.ctx_len THEN i * c.block_size ELSE c.ctx_len

\* The scores of the first i blocks.
ScoresOf(c, i) == [k \in 1..c.num_heads * BlocksEnd(c, i) |-> ScorePlace(c, k - 1)]

\* Place r of block b.
LEMMA ScoreInBlock ==
  ASSUME NEW c, KernelCall(c), NEW b \in 0..NumBlocks(c) - 1,
         NEW r \in 0..c.num_heads * BlockLen(c, b) - 1
  PROVE  /\ b * (c.num_heads * c.block_size) + r \in Nat
         /\ ScorePlace(c, b * (c.num_heads * c.block_size) + r)
              = <<r \div BlockLen(c, b), b * c.block_size + (r % BlockLen(c, b))>>
         /\ b * (c.num_heads * c.block_size) = c.num_heads * (b * c.block_size)
<1> DEFINE H == c.num_heads
           B == c.block_size
           L == BlockLen(c, b)
           W == H * B
<1>1. H \in Nat \ {0} /\ B \in Nat \ {0} /\ NumBlocks(c) \in Nat
  BY BlockLens DEF KernelCall
<1>2. L \in 1..B /\ b \in Nat
  BY <1>1, BlockLens
<1>3. W \in Nat \ {0}
  <2> HIDE DEF H, B
  <2> QED BY <1>1
<1>4. r \in 0..W - 1
  <2>1. L * H <= B * H /\ L * H \in Int
    <3> HIDE DEF H, B, L
    <3>1. L \in Int /\ B \in Int /\ L <= B /\ H \in Nat
      BY <1>1, <1>2
    <3> QED BY <3>1, Multiples
  <2>2. L * H = H * L /\ B * H = H * B
    <3> HIDE DEF H, B, L
    <3>1. L \in Int /\ B \in Int /\ H \in Nat
      BY <1>1, <1>2
    <3> QED BY <3>1
  <2>3. r \in 0..H * L - 1
    OBVIOUS
  <2> HIDE DEF L, H, B
  <2> QED BY <1>3, <2>1, <2>2, <2>3 DEF W
<1> HIDE DEF W
<1>5. b * W + r \in Nat /\ (b * W + r) \div W = b /\ (b * W + r) % W = r
  BY <1>2, <1>3, <1>4, QuotientRemainder
<1>6. ScorePlace(c, b * W + r) = <<r \div L, b * B + (r % L)>>
  BY <1>5 DEF ScorePlace, W
<1>7. b * W = H * (b * B)
  <2> HIDE DEF H, B
  <2> QED BY <1>1, <1>2 DEF W
<1> QED BY <1>5, <1>6, <1>7 DEF W

\* The scores, place by place.
LEMMA ScoresPlaced ==
  ASSUME NEW c, KernelCall(c)
  PROVE  AttnScores(c) = [k \in 1..c.num_heads * c.ctx_len |-> ScorePlace(c, k - 1)]
<1> DEFINE H == c.num_heads
           B == c.block_size
           n == NumBlocks(c)
           ss == [b \in 1..n |-> BlockScores(c, b - 1)]
           F == [i \in 1..n |-> ScoresOf(c, i)]
<1>1. /\ H \in Nat \ {0} /\ B \in Nat \ {0} /\ n \in Nat \ {0} /\ c.ctx_len \in Nat
      /\ n * B >= c.ctx_len
  BY BlockLens DEF KernelCall
<1>2. AttnScores(c) = FlattenSeq(ss)
  BY DEF AttnScores
<1>3. Len(ss) = n /\ DOMAIN F = 1..Len(ss) /\ F = [i \in 1..Len(ss) |-> F[i]]
  <2> HIDE DEF n
  <2> QED BY <1>1
<1>4. ASSUME NEW b \in 0..n - 1
      PROVE  /\ BlockScores(c, b) = Runs(H, BlockLen(c, b), b * B)
             /\ b * B \in Nat /\ BlockLen(c, b) \in Nat \ {0}
             /\ BlocksEnd(c, b) = b * B /\ BlocksEnd(c, b + 1) = b * B + BlockLen(c, b)
  <2>1. /\ b * B \in Nat /\ BlockLen(c, b) \in 1..B
        /\ b * B + BlockLen(c, b) <= c.ctx_len
    BY BlockLens
  <2>2. (b + 1) * B = b * B + B
    <3>1. b \in Int /\ B \in Nat
      <4> HIDE DEF n, B
      <4> QED BY <1>1
    <3> HIDE DEF B
    <3> QED BY <3>1, Multiples
  <2>3. BlockLen(c, b) = (IF b * B + B <= c.ctx_len THEN b * B + B ELSE c.ctx_len) - b * B
    BY DEF BlockLen
  <2>4. BlocksEnd(c, b) = b * B
    BY <2>1, <1>1 DEF BlocksEnd
  <2>5. BlocksEnd(c, b + 1) = IF b * B + B <= c.ctx_len THEN b * B + B ELSE c.ctx_len
    BY <2>2 DEF BlocksEnd
  <2> DEFINE start == b * B
  <2>6. BlocksEnd(c, b + 1) = start + BlockLen(c, b)
    <3>1. start \in Nat
      BY <2>1
    <3> HIDE DEF start, B
    <3>2. BlockLen(c, b) = BlocksEnd(c, b + 1) - start
      BY <2>3, <2>5 DEF start
    <3>3. BlocksEnd(c, b + 1) \in Int
      BY <1>1, <2>5, <3>1 DEF start
    <3> QED BY <3>1, <3>2, <3>3
  <2> QED BY <2>1, <2>4, <2>6, BlockScoresRuns
<1>5. ASSUME NEW b \in 0..n - 1
      PROVE  ScoresOf(c, b + 1) = ScoresOf(c, b) \o BlockScores(c, b)
  <2> DEFINE L == BlockLen(c, b)
             m == H * (b * B)
             p == H * L
             s == ScoresOf(c, b)
             t == BlockScores(c, b)
             u == ScoresOf(c, b + 1)
  <2>1. m \in Nat /\ p \in Nat /\ H * BlocksEnd(c, b) = m /\ H * BlocksEnd(c, b + 1) = m + p
    <3> DEFINE start == b * B
    <3>1. /\ start \in Nat /\ L \in Nat \ {0}
          /\ BlocksEnd(c, b) = start /\ BlocksEnd(c, b + 1) = start + L
      BY <1>4
    <3> HIDE DEF start, L, H
    <3> QED BY <1>1, <3>1 DEF start
  <2>2. Entries(s, m) /\ Entries(u, m + p)
    BY <2>1 DEF Entries, ScoresOf
  <2>3. Entries(t, p) /\ \A k \in 1..p : t[k] = <<(k - 1) \div L, b * B + ((k - 1) % L)>>
    BY <1>4, <2>1 DEF Entries, Runs
  <2>4. ASSUME NEW k \in 1..m + p
        PROVE  u[k] = IF k <= m THEN s[k] ELSE t[k - m]
    <3>1. u[k] = ScorePlace(c, k - 1)
      BY <2>1 DEF ScoresOf
    <3>2. CASE k <= m
      <4>1. k \in 1..m
        BY <2>1, <3>2
      <4>2. s[k] = ScorePlace(c, k - 1)
        BY <2>1, <4>1 DEF ScoresOf
      <4> QED BY <3>1, <3>2, <4>2
    <3>3. CASE ~(k <= m)
      <4> DEFINE r == k - 1 - m
      <4>1. r \in 0..p - 1 /\ k - m \in 1..p /\ (k - m) - 1 = r /\ k - 1 = m + r
        <5> HIDE DEF m, p
        <5> QED BY <2>1, <3>3
      <4> HIDE DEF r
      <4>2. /\ ScorePlace(c, b * (H * B) + r) = <<r \div L, b * B + (r % L)>>
            /\ b * (H * B) = m
        BY <4>1, ScoreInBlock
      <4>3. t[k - m] = <<((k - m) - 1) \div L, b * B + (((k - m) - 1) % L)>>
        <5> HIDE DEF t, m, p
        <5> QED BY <2>3, <4>1
      <4>4. u[k] = t[k - m]
        <5> HIDE DEF u, t, m
        <5> QED BY <3>1, <4>1, <4>2, <4>3
      <4> QED BY <3>3, <4>4
    <3> QED BY <3>2, <3>3
  <2> HIDE DEF s, t, u, m, p
  <2>5. u = s \o t
    BY <2>2, <2>3, <2>4, Concatenated
  <2> QED BY <2>5 DEF s, t, u
<1>6. F[1] = ss[1]
  <2>1. 0 \in 0..n - 1 /\ 1 \in 1..n /\ 1 - 1 = 0 /\ 0 + 1 = 1
    BY <1>1
  <2>2. ScoresOf(c, 0) = <<>> /\ ScoresOf(c, 1) = ScoresOf(c, 0) \o BlockScores(c, 0)
    <3>1. BlocksEnd(c, 0) = 0
      BY <1>1 DEF BlocksEnd
    <3>2. ScoresOf(c, 0) = <<>>
      BY <1>1, <3>1 DEF ScoresOf
    <3> QED BY <1>5, <2>1, <3>2
  <2>3. BlockScores(c, 0) = <<>> \o BlockScores(c, 0)
    <3> DEFINE L == BlockLen(c, 0)
    <3>1. /\ BlockScores(c, 0) = Runs(H, L, 0 * B) /\ L \in Nat \ {0} /\ 0 * B \in Nat
      BY <1>4, <2>1
    <3>2. H * L \in Nat
      <4> HIDE DEF H, L
      <4> QED BY <1>1, <3>1
    <3> DEFINE t == BlockScores(c, 0)
               p == H * L
    <3>3. Entries(<<>>, 0) /\ Entries(t, 0 + p) /\ Entries(t, p)
      BY <3>1, <3>2 DEF Entries, Runs
    <3>4. \A k \in 1..0 + p : t[k] = IF k <= 0 THEN <<>>[k] ELSE t[k - 0]
      <4>1. p \in Nat
        BY <3>2
      <4> HIDE DEF p, t
      <4> QED BY <4>1
    <3> HIDE DEF t, p
    <3> QED BY <3>3, <3>4, Concatenated DEF t
  <2> QED BY <2>1, <2>2, <2>3
<1>7. ASSUME NEW i \in 2..Len(ss) PROVE F[i] = F[i - 1] \o ss[i]
  <2>1. i - 1 \in 0..n - 1 /\ i \in 1..n /\ i - 1 \in 1..n /\ (i - 1) + 1 = i
    <3> HIDE DEF n
    <3> QED BY <1>1, <1>3
  <2>2. ScoresOf(c, (i - 1) + 1) = ScoresOf(c, i - 1) \o BlockScores(c, i - 1)
    BY <1>5, <2>1
  <2> QED BY <2>1, <2>2
<1>8. FlattenSeq(ss) = F[n]
  <2> HIDE DEF F, ss, n
  <2> QED BY <1>1, <1>3, <1>6, <1>7, Flattened
<1>9. BlocksEnd(c, n) = c.ctx_len
  <2>1. n * B \in Int
    BY <1>1
  <2> QED BY <1>1, <2>1 DEF BlocksEnd
<1>10. F[n] = ScoresOf(c, n)
  <2> HIDE DEF n
  <2> QED BY <1>1
<1>11. AttnScores(c) = ScoresOf(c, n)
  BY <1>2, <1>8, <1>10
<1> HIDE DEF n
<1> QED BY <1>9, <1>11 DEF ScoresOf

\* The place in its block of the score that head h reads at token t.
InBlock(c, h, t) == (t % c.block_size) * c.num_heads + h

\* Head h reads at token t a score of the block of t.
LEMMA WeightPlaced ==
  ASSUME NEW c, KernelCall(c), NEW h \in 0..c.num_heads - 1, NEW t \in 0..c.ctx_len - 1
  PROVE  LET b == t \div c.block_size
             L == BlockLen(c, b)
             r == InBlock(c, h, t)
         IN /\ b \in 0..NumBlocks(c) - 1
            /\ t = b * c.block_size + (t % c.block_size) /\ t % c.block_size \in 0..L - 1
            /\ r \in 0..c.num_heads * L - 1
            /\ Weights(c)[h][t] = <<r \div L, b * c.block_size + (r % L)>>
<1> DEFINE H == c.num_heads
           B == c.block_size
           b == t \div B
           L == BlockLen(c, b)
           j == t % B
           r == InBlock(c, h, t)
           n == NumBlocks(c)
           ctx == c.ctx_len
<1>1. /\ H \in Nat \ {0} /\ B \in Nat \ {0} /\ ctx \in Nat \ {0} /\ n \in Nat \ {0}
      /\ n * B >= ctx /\ t \in Nat /\ t < ctx /\ h \in Nat /\ h < H
  BY BlockLens DEF KernelCall
<1>2. b \in Nat /\ j \in 0..B - 1 /\ t = B * b + j /\ b * B \in Int /\ b * B <= t /\ B * b = b * B
  <2> HIDE DEF B
  <2>1. b \in Nat /\ b * B <= t
    BY <1>1, OneInterval
  <2>2. j \in 0..B - 1 /\ t = B * b + j
    <3>1. t \in Int /\ B \in Nat \ {0}
      BY <1>1
    <3>2. t % B \in 0..B - 1 /\ t = B * (t \div B) + (t % B)
      BY <3>1, Division
    <3> QED BY <3>2
  <2> HIDE DEF b
  <2> QED BY <1>1, <2>1, <2>2
<1>3. b \in 0..n - 1
  <2> SUFFICES ASSUME n <= b PROVE FALSE
    <3> HIDE DEF b, n
    <3> QED BY <1>1, <1>2
  <2>1. n * B <= b * B
    <3> HIDE DEF b, n, B
    <3>1. n \in Int /\ b \in Int /\ B \in Nat
      BY <1>1, <1>2
    <3> QED BY <3>1, Multiples
  <2>2. n * B \in Int
    BY <1>1
  <2> HIDE DEF b, n, B, ctx
  <2> QED BY <1>1, <1>2, <2>1, <2>2
<1>4. L \in 1..B /\ (b < n - 1 => L = B) /\ (b = n - 1 => b * B + L = ctx)
  BY <1>3, BlockLens
<1>5. j \in 0..L - 1
  <2> HIDE DEF L, b, n, j, B, ctx
  <2> QED BY <1>1, <1>2, <1>3, <1>4
<1>6. j * H \in Nat /\ r = j * H + h /\ r \in 0..H * L - 1
  <2>1. r = j * H + h
    BY DEF InBlock
  <2> HIDE DEF j, L, H, r
  <2>2. j + 1 <= L /\ L \in Int /\ j + 1 \in Int /\ j \in Int /\ H \in Nat
    BY <1>1, <1>4, <1>5
  <2>3. (j + 1) * H <= L * H /\ (j + 1) * H = j * H + H /\ 0 * H <= j * H /\ j * H \in Int
    BY <2>2, <1>5, Multiples
  <2>4. L * H = H * L /\ L * H \in Int
    BY <2>2
  <2> DEFINE jH == j * H
             LH == H * L
  <2>5. jH \in Nat /\ jH + H <= LH /\ LH \in Int /\ r = jH + h
    <3>1. 0 * H = 0
      BY <2>2
    <3> QED BY <2>1, <2>3, <2>4, <3>1
  <2> HIDE DEF jH, LH
  <2>6. r \in 0..LH - 1
    BY <1>1, <2>5
  <2> QED BY <2>1, <2>5, <2>6 DEF jH, LH
<1>7. t * H + h = b * (H * B) + r
  <2> HIDE DEF b, j, H, B, r
  <2>1. b * (H * B) = (B * b) * H /\ (B * b + j) * H = (B * b) * H + j * H
    BY <1>1, <1>2
  <2>2. (B * b) * H \in Int
    BY <1>1, <1>2
  <2> QED BY <1>1, <1>2, <1>6, <2>1, <2>2
<1>8. ScorePlace(c, t * H + h) = <<r \div L, b * B + (r % L)>>
  <2> HIDE DEF b, r
  <2> QED BY <1>3, <1>6, <1>7, ScoreInBlock
<1>9. t * H + h \in 0..H * ctx - 1
  <2> HIDE DEF H, ctx
  <2>1. t + 1 \in Int /\ ctx \in Int /\ t + 1 <= ctx /\ H \in Nat /\ t \in Int
    BY <1>1
  <2>2. (t + 1) * H <= ctx * H /\ (t + 1) * H = t * H + H /\ 0 * H <= t * H /\ t * H \in Int
    BY <1>1, <2>1, Multiples
  <2>3. ctx * H = H * ctx /\ ctx * H \in Int
    BY <2>1
  <2> DEFINE tH == t * H
             cH == H * ctx
  <2>4. tH \in Nat /\ tH + H <= cH /\ cH \in Int
    <3>1. 0 * H = 0
      BY <2>1
    <3> QED BY <2>2, <2>3, <3>1
  <2> HIDE DEF tH, cH
  <2>5. tH + h \in 0..cH - 1
    BY <1>1, <2>4
  <2> QED BY <2>5 DEF tH, cH
<1>10. Weights(c)[h][t] = ScorePlace(c, t * H + h)
  <2> DEFINE m == t * H + h
             p == H * ctx
  <2>1. AttnScores(c) = [k \in 1..p |-> ScorePlace(c, k - 1)]
    BY ScoresPlaced
  <2>2. Weights(c)[h][t] = AttnScores(c)[m + 1]
    BY DEF Weights
  <2>3. m + 1 \in 1..p /\ (m + 1) - 1 = m
    <3> HIDE DEF m
    <3>1. p \in Int
      BY <1>1
    <3> HIDE DEF p
    <3> QED BY <1>9, <3>1 DEF m, p
  <2> HIDE DEF m, p
  <2>4. AttnScores(c)[m + 1] = ScorePlace(c, m)
    BY <2>1, <2>3
  <2> QED BY <2>2, <2>4 DEF m
<1>11. t = b * B + j
  BY <1>2
<1> QED BY <1>3, <1>5, <1>6, <1>8, <1>10, <1>11

\* Where it is in its block tells the head and the token, and the score tells where it is.
LEMMA ScoresDistinct ==
  ASSUME NEW c, KernelCall(c),
         NEW h \in 0..c.num_heads - 1, NEW g \in 0..c.num_heads - 1,
         NEW t \in 0..c.ctx_len - 1, NEW u \in 0..c.ctx_len - 1
  PROVE  /\ Weights(c)[h][t][2] \div c.block_size = t \div c.block_size
         /\ Weights(c)[h][t] = Weights(c)[g][u] => h = g /\ t = u
<1> DEFINE H == c.num_heads
           B == c.block_size
           Block(v) == v \div B
           L(v) == BlockLen(c, Block(v))
           r(k, v) == InBlock(c, k, v)
<1>1. H \in Nat \ {0} /\ B \in Nat \ {0}
  BY DEF KernelCall
<1>2. ASSUME NEW k \in 0..H - 1, NEW v \in 0..c.ctx_len - 1
      PROVE  /\ Block(v) \in Nat /\ L(v) \in 1..B /\ r(k, v) \in Nat
             /\ v = Block(v) * B + (v % B) /\ v % B \in Nat /\ r(k, v) = (v % B) * H + k
             /\ Weights(c)[k][v] = <<r(k, v) \div L(v), Block(v) * B + (r(k, v) % L(v))>>
             /\ (Block(v) * B + (r(k, v) % L(v))) \div B = Block(v)
             /\ r(k, v) = L(v) * (r(k, v) \div L(v)) + (r(k, v) % L(v))
  <2>1. /\ Block(v) \in 0..NumBlocks(c) - 1
        /\ v = Block(v) * B + (v % B) /\ v % B \in 0..L(v) - 1
        /\ r(k, v) \in 0..H * L(v) - 1
        /\ Weights(c)[k][v] = <<r(k, v) \div L(v), Block(v) * B + (r(k, v) % L(v))>>
    BY WeightPlaced
  <2>2. L(v) \in 1..B /\ Block(v) \in Nat
    <3>1. NumBlocks(c) \in Nat /\ BlockLen(c, Block(v)) \in 1..B
      BY <2>1, BlockLens
    <3> HIDE DEF Block
    <3> QED BY <2>1, <3>1
  <2>3. r(k, v) = (v % B) * H + k
    BY DEF InBlock
  <2> DEFINE q == r(k, v)
             len == L(v)
             bl == Block(v)
  <2>4. q \in Nat /\ len \in 1..B /\ bl \in Nat
    BY <2>1, <2>2
  <2> HIDE DEF q, len, bl, B
  <2>5. q % len \in 0..len - 1 /\ q = len * (q \div len) + (q % len)
    BY <1>1, <2>4, Division
  <2>6. q % len \in 0..B - 1
    BY <1>1, <2>4, <2>5
  <2>7. (bl * B + (q % len)) \div B = bl
    BY <1>1, <2>4, <2>6, QuotientRemainder
  <2> QED BY <2>1, <2>2, <2>3, <2>4, <2>5, <2>7 DEF q, len, bl, B
<1>3. Weights(c)[h][t][2] \div B = Block(t)
  <2>1. /\ Weights(c)[h][t] = <<r(h, t) \div L(t), Block(t) * B + (r(h, t) % L(t))>>
        /\ (Block(t) * B + (r(h, t) % L(t))) \div B = Block(t)
    BY <1>2
  <2> DEFINE x == Block(t) * B + (r(h, t) % L(t))
  <2> HIDE DEF x, Block
  <2> QED BY <2>1 DEF x
<1>4. ASSUME Weights(c)[h][t] = Weights(c)[g][u]
      PROVE  h = g /\ t = u
  <2>1. /\ Weights(c)[h][t] = <<r(h, t) \div L(t), Block(t) * B + (r(h, t) % L(t))>>
        /\ Weights(c)[g][u] = <<r(g, u) \div L(u), Block(u) * B + (r(g, u) % L(u))>>
        /\ (Block(t) * B + (r(h, t) % L(t))) \div B = Block(t)
        /\ (Block(u) * B + (r(g, u) % L(u))) \div B = Block(u)
        /\ r(h, t) = L(t) * (r(h, t) \div L(t)) + (r(h, t) % L(t))
        /\ r(g, u) = L(u) * (r(g, u) \div L(u)) + (r(g, u) % L(u))
    BY <1>2
  <2> DEFINE q == r(h, t) \div L(t)
             p == r(g, u) \div L(u)
             i == r(h, t) % L(t)
             j == r(g, u) % L(u)
             x == Block(t) * B + i
             y == Block(u) * B + j
  <2>2. q = p /\ x = y
    <3>1. <<q, x>> = <<p, y>>
      BY <1>4, <2>1
    <3> HIDE DEF q, p, x, y
    <3> QED BY <3>1
  <2>3. Block(t) = Block(u)
    <3>1. x \div B = Block(t) /\ y \div B = Block(u)
      BY <2>1
    <3> HIDE DEF x, y, Block
    <3> QED BY <2>2, <3>1
  <2>4. L(t) = L(u)
    BY <2>3
  <2>5. i = j
    <3>1. i \in Int /\ j \in Int /\ Block(t) * B \in Int /\ Block(u) * B \in Int
      <4>1. /\ Block(t) \in Nat /\ L(t) \in 1..B /\ r(h, t) \in Nat
            /\ Block(u) \in Nat /\ L(u) \in 1..B /\ r(g, u) \in Nat
        BY <1>2
      <4> HIDE DEF Block, L, r, B
      <4> QED BY <1>1, <4>1
    <3>2. Block(t) * B = Block(u) * B
      BY <2>3
    <3> DEFINE m == Block(t) * B
    <3>3. m \in Int /\ m + i = x /\ m + j = y
      BY <3>1, <3>2
    <3> HIDE DEF x, y, m, i, j
    <3>4. i \in Int /\ j \in Int /\ m \in Int /\ m + i = m + j
      BY <2>2, <3>1, <3>3
    <3> QED BY <3>4
  <2>6. r(h, t) = r(g, u)
    <3>1. r(h, t) = L(t) * q + i /\ r(g, u) = L(u) * p + j
      BY <2>1
    <3> HIDE DEF L, r, q, p, i, j
    <3> QED BY <2>2, <2>4, <2>5, <3>1
  <2>7. t % B = u % B /\ h = g
    <3>1. /\ t % B \in Nat /\ r(h, t) = (t % B) * H + h
          /\ u % B \in Nat /\ r(g, u) = (u % B) * H + g
      BY <1>2
    <3> DEFINE a == t % B
               d == u % B
    <3>2. a \in Nat /\ d \in Nat /\ a * H + h = d * H + g
      BY <2>6, <3>1
    <3> HIDE DEF a, d, H, r
    <3>3. /\ (a * H + h) \div H = a /\ (a * H + h) % H = h
          /\ (d * H + g) \div H = d /\ (d * H + g) % H = g
      BY <1>1, <3>2, QuotientRemainder DEF H
    <3> QED BY <3>2, <3>3 DEF a, d
  <2>8. t = Block(t) * B + (t % B) /\ u = Block(u) * B + (u % B)
    BY <1>2
  <2> QED BY <2>3, <2>7, <2>8
<1> QED BY <1>3, <1>4

\* In a block of one token the heads read their own scores.
LEMMA OneTokenBlock ==
  ASSUME NEW c, KernelCall(c), NEW h \in 0..c.num_heads - 1, NEW t \in 0..c.ctx_len - 1,
         BlockLen(c, t \div c.block_size) = 1
  PROVE  Weights(c)[h][t] = <<h, t>>
<1> DEFINE B == c.block_size
           b == t \div B
           L == BlockLen(c, b)
           r == InBlock(c, h, t)
<1>1. /\ t = b * B + (t % B) /\ t % B \in 0..L - 1
      /\ Weights(c)[h][t] = <<r \div L, b * B + (r % L)>>
  BY WeightPlaced
<1>2. c.num_heads \in Nat /\ c.block_size \in Nat \ {0}
  BY DEF KernelCall
<1>3. t % B = 0
  <2>1. L - 1 = 0
    OBVIOUS
  <2> HIDE DEF L, B
  <2> QED BY <1>1, <2>1
<1>4. r = h
  <2>1. r = (t % B) * c.num_heads + h
    BY DEF InBlock
  <2> HIDE DEF r, B
  <2> QED BY <1>2, <1>3, <2>1
<1>5. r \div L = h /\ r % L = 0
  <2>1. h \in Int /\ h \div 1 = h /\ h % 1 = 0
    <3>1. h \in Int /\ 1 \in Nat \ {0}
      BY <1>2
    <3>2. h % 1 \in 0..1 - 1 /\ h = 1 * (h \div 1) + (h % 1) /\ h \div 1 \in Int
      BY <3>1, Division
    <3> QED BY <3>1, <3>2
  <2> HIDE DEF r
  <2> QED BY <1>4, <2>1
<1>6. b * B + (r % L) = t
  <2> DEFINE start == b * B
  <2>1. t = start + 0
    BY <1>1, <1>3
  <2> HIDE DEF start, r, L
  <2> QED BY <1>5, <2>1 DEF start
<1> HIDE DEF r, b, B, L
<1> QED BY <1>1, <1>5, <1>6

\* In the first block of two tokens or more the second head reads a score of the first.
LEMMA FirstBlockMixed ==
  ASSUME NEW c, KernelCall(c), c.num_heads >= 2, c.block_size # 1, c.ctx_len # 1
  PROVE  /\ 1 \in 0..c.num_heads - 1 /\ 0 \in 0..c.ctx_len - 1
         /\ Weights(c)[1][0] = <<0, 1>>
<1> DEFINE B == c.block_size
           L == BlockLen(c, 0)
<1>1. /\ B \in Nat /\ B >= 2 /\ c.ctx_len \in Nat /\ c.ctx_len >= 2
      /\ c.num_heads \in Nat /\ B \in Nat \ {0}
  BY DEF KernelCall
<1>2. 1 \in 0..c.num_heads - 1 /\ 0 \in 0..c.ctx_len - 1
  BY <1>1
<1>3. 0 * B = 0 /\ 0 \div B = 0 /\ 0 % B = 0
  <2>2. 0 \in Nat /\ 0 \in 0..B - 1 /\ 0 * B + 0 = 0 /\ 0 * B = 0
    BY <1>1
  <2>3. (0 * B + 0) \div B = 0 /\ (0 * B + 0) % B = 0
    BY <1>1, <2>2, QuotientRemainder
  <2> HIDE DEF B
  <2> QED BY <2>2, <2>3
<1>4. L \in Nat /\ L >= 2
  <2>1. L = (IF 0 + B <= c.ctx_len THEN 0 + B ELSE c.ctx_len) - 0
    BY <1>3 DEF BlockLen
  <2> HIDE DEF L, B
  <2> QED BY <1>1, <2>1
<1>5. InBlock(c, 1, 0) = 1
  <2>1. InBlock(c, 1, 0) = 0 * c.num_heads + 1
    BY <1>3 DEF InBlock
  <2> QED BY <1>1, <2>1
<1>6. 1 \div L = 0 /\ 1 % L = 1
  <2> HIDE DEF L
  <2>1. L \in Nat \ {0} /\ 0 \in Nat /\ 1 \in 0..L - 1 /\ 0 * L + 1 = 1
    BY <1>4
  <2>2. (0 * L + 1) \div L = 0 /\ (0 * L + 1) % L = 1
    BY <2>1, QuotientRemainder
  <2> QED BY <2>1, <2>2
<1>7. Weights(c)[1][0] = <<1 \div L, 0 * B + (1 % L)>>
  <2> DEFINE b == 0 \div B
             r == InBlock(c, 1, 0)
  <2>1. Weights(c)[1][0] = <<r \div BlockLen(c, b), b * B + (r % BlockLen(c, b))>>
    BY <1>2, WeightPlaced
  <2>2. b = 0 /\ r = 1
    BY <1>3, <1>5
  <2> HIDE DEF b, r
  <2> QED BY <2>1, <2>2
<1>8. 0 * B + 1 = 1
  BY <1>3
<1> QED BY <1>2, <1>6, <1>7, <1>8

\* A call that does not fail has two heads or more, as many as its KV heads are expanded to.
LEMMA HeadsExpanded ==
  ASSUME NEW c, KernelCall(c), c.num_kv_heads \in Nat \ {0}, ~Fails(c)
  PROVE  /\ c.num_heads >= 2
         /\ \A h \in 0..c.num_heads - 1 :
              Expanded(c)[h] = h \div (c.num_heads \div c.num_kv_heads)
<1> DEFINE H == c.num_heads
           G == c.num_kv_heads
           size == H \div G
<1>1. H \in Nat \ {0} /\ G \in Nat \ {0} /\ c.ctx_len > 0
  BY DEF KernelCall
<1>2. G # 1 /\ DOMAIN Expanded(c) = 0..H - 1
  BY <1>1 DEF Fails
<1>3. DOMAIN Expanded(c) = 0..G * size - 1
  BY DEF Expanded
<1>4. size \in Nat /\ size * G <= H
  <2> HIDE DEF H, G
  <2> QED BY <1>1, OneInterval
<1>5. size # 0
  <2> SUFFICES ASSUME size = 0 PROVE FALSE
    OBVIOUS
  <2>1. 0 \in 0..H - 1 /\ G * size = 0
    <3> HIDE DEF size, H, G
    <3> QED BY <1>1
  <2>2. 0..G * size - 1 = 0..0 - 1
    BY <2>1
  <2>3. 0 \in 0..0 - 1
    BY <1>2, <1>3, <2>1, <2>2
  <2> QED BY <2>3
<1>6. H >= 2
  <2> HIDE DEF size, H, G
  <2>1. 1 \in Int /\ size \in Int /\ 1 <= size /\ G \in Nat /\ G >= 2 /\ H \in Nat
    BY <1>1, <1>2, <1>4, <1>5
  <2>2. 1 * G <= size * G /\ 1 * G = G /\ size * G \in Int
    BY <2>1, Multiples
  <2> QED BY <1>4, <2>1, <2>2
<1>7. \A h \in 0..H - 1 : Expanded(c)[h] = h \div size
  <2>1. Expanded(c) = [h \in 0..G * size - 1 |-> h \div size]
    BY DEF Expanded
  <2>2. 0..G * size - 1 = 0..H - 1
    BY <1>2, <1>3
  <2> QED BY <2>1, <2>2
<1> QED BY <1>6, <1>7

\* The kernel returned what it made of the call.
AttendedOK == call.op = "paged" => result \in {NoResult, PagedAttention(call)}

\* Every score is read once and in its block, whatever the sizes; the heads read their
\* own scores exactly if the blocks, or the context, have one token.
THEOREM KernelScores == Spec => []ScoresStayInBlock
<1>1. CallOK /\ AttendedOK => ScoresStayInBlock
  <2> SUFFICES ASSUME CallOK, AttendedOK, Attended
               PROVE  ScoresStayInBlock
    BY DEF ScoresStayInBlock
  <2> DEFINE c == call
             w == Weights(call)
             Heads == 0..call.num_heads - 1
             Positions == 0..call.ctx_len - 1
             group_size == call.num_heads \div call.num_kv_heads
             Own == \A h \in Heads, t \in Positions : w[h][t] = <<h, t>>
  <2>1. KernelCall(call) /\ call.num_kv_heads \in Nat \ {0}
    BY ModelCodeAssumption DEF CallOK, PagedCalls, Attended, KernelCall
  <2>2. ~Fails(call) /\ result = [ok |-> TRUE, weights |-> w, values |-> Expanded(call)]
    BY DEF AttendedOK, Attended, NoResult, PagedAttention
  <2>3. result.weights = w /\ result.values = Expanded(call)
    <3> HIDE DEF w
    <3> QED BY <2>2
  <2>4. /\ call.num_heads >= 2
        /\ \A h \in Heads : result.values[h] = h \div group_size
    BY <2>1, <2>2, <2>3, HeadsExpanded
  <2>5. ASSUME NEW h \in Heads, NEW g \in Heads, NEW t \in Positions, NEW u \in Positions
        PROVE  /\ w[h][t] = w[g][u] => h = g /\ t = u
               /\ w[h][t][2] \div call.block_size = t \div call.block_size
    BY <2>1, ScoresDistinct
  <2>6. ASSUME call.block_size = 1 \/ call.ctx_len = 1 PROVE Own
    <3> SUFFICES ASSUME NEW h \in Heads, NEW t \in Positions PROVE w[h][t] = <<h, t>>
      OBVIOUS
    <3> DEFINE b == t \div call.block_size
               L == BlockLen(call, b)
    <3>1. b \in 0..NumBlocks(call) - 1
      BY <2>1, WeightPlaced
    <3>2. /\ L \in 1..call.block_size /\ b * call.block_size \in Nat
          /\ b * call.block_size + L <= call.ctx_len
      <4> HIDE DEF b
      <4> QED BY <2>1, <3>1, BlockLens
    <3>3. L = 1
      <4> DEFINE start == b * call.block_size
      <4>1. start \in Nat /\ start + L <= call.ctx_len /\ L \in 1..call.block_size
        BY <3>2
      <4> HIDE DEF start, L
      <4> QED BY <2>1, <2>6, <4>1 DEF KernelCall
    <3> QED BY <2>1, <3>3, OneTokenBlock
  <2>7. ASSUME Own PROVE call.block_size = 1 \/ call.ctx_len = 1
    <3> SUFFICES ASSUME call.block_size # 1, call.ctx_len # 1 PROVE FALSE
      OBVIOUS
    <3>1. 1 \in Heads /\ 0 \in Positions /\ w[1][0] = <<0, 1>>
      BY <2>1, <2>4, FirstBlockMixed
    <3> HIDE DEF w, Heads, Positions
    <3>2. w[1][0] = <<1, 0>>
      BY <2>7, <3>1
    <3> QED BY <3>1, <3>2
  <2> HIDE DEF w, group_size
  <2> QED BY <2>3, <2>4, <2>5, <2>6, <2>7 DEF ScoresStayInBlock, group_size
<1>2. Init => CallOK /\ AttendedOK
  BY CallsStart DEF Init, AttendedOK
<1>3. CallOK /\ AttendedOK /\ [Next]_<<call, result>> => CallOK' /\ AttendedOK'
  BY CallsKept, StepOfCall DEF AttendedOK, Attend
<1> QED BY <1>1, <1>2, <1>3, PTL DEF Spec

-----------------------------------------------------------------------------
(* The execution engine                                                    *)

Entry == [op : {"mode"}, mode : Graph!Modes] \cup [op : {"begin", "end"}]
           \cup [op : {"forward"}, req : {1, 2}, output : Seq(Nat)]

\* What the log s says of the engine before its k-th call; m is the mode it started in.
Earlier(s, k, ops) == {j \in 1..k - 1 : s[j].op \in ops}
Latest(s, k, ops, default) ==
  IF Earlier(s, k, ops) = {} THEN default
  ELSE s[CHOOSE j \in Earlier(s, k, ops) : \A i \in Earlier(s, k, ops) : i <= j]
ModeIn(s, m, k) == Latest(s, k, {"mode"}, [mode |-> m]).mode
CapturingIn(s, k) == Latest(s, k, {"begin", "end"}, [op |-> "end"]).op = "begin"
Captured(s, m, k) == s[k].op = "forward" /\ ModeIn(s, m, k) = "FullGraph" /\ CapturingIn(s, k)
Replayed(s, m, k) ==
  /\ s[k].op = "forward" /\ ModeIn(s, m, k) = "FullGraph" /\ ~CapturingIn(s, k)
  /\ \E j \in 1..k - 1 : Captured(s, m, j)

\* The log of the calls is told by the calls before.
LEMMA LogOfCalls ==
  /\ \A k : ModeAt(k) = ModeIn(result.log, call.mode, k)
  /\ \A k : CapturingAt(k) <=> CapturingIn(result.log, k)
  /\ \A k : Captures(k) <=> Captured(result.log, call.mode, k)
  /\ \A k : Stale(k) <=> Replayed(result.log, call.mode, k)
<1>1. \A k : ModeAt(k) = ModeIn(result.log, call.mode, k)
  BY DEF ModeAt, ModeIn, LastOf, Latest, Earlier
<1>2. \A k : CapturingAt(k) <=> CapturingIn(result.log, k)
  BY DEF CapturingAt, CapturingIn, LastOf, Latest, Earlier
<1>3. \A k : Captures(k) <=> Captured(result.log, call.mode, k)
  BY <1>1, <1>2 DEF Captures, Captured, IsForward
<1>4. \A k : Stale(k) <=> Replayed(result.log, call.mode, k)
  BY <1>1, <1>2, <1>3 DEF Stale, Replayed, IsForward
<1> QED BY <1>1, <1>2, <1>3, <1>4

\* A call changes nothing of what was before it, and is the latest one afterwards.
LEMMA LatestKept ==
  ASSUME NEW s \in Seq(Entry), NEW x \in Entry, NEW ops, NEW default,
         NEW k \in 1..Len(s) + 1
  PROVE  Latest(Append(s, x), k, ops, default) = Latest(s, k, ops, default)
<1> DEFINE t == Append(s, x)
<1>1. \A j \in 1..k - 1 : t[j] = s[j]
  BY AppendProperties
<1> HIDE DEF t
<1>2. Earlier(t, k, ops) = Earlier(s, k, ops)
  BY <1>1 DEF Earlier
<1>3. CASE Earlier(s, k, ops) = {}
  BY <1>2, <1>3 DEF Latest, t
<1>4. CASE Earlier(s, k, ops) # {}
  <2> DEFINE D == Earlier(s, k, ops)
             last == CHOOSE j \in D : \A i \in D : i <= j
  <2>1. last \in D
    <3>1. D \in SUBSET Int /\ IsFiniteSet(D)
      <4>4. k - 1 \in Int
        OBVIOUS
      <4>1. IsFiniteSet(1..k - 1)
        BY <4>4, FS_Interval
      <4>3. D \in SUBSET (1..k - 1)
        BY DEF Earlier
      <4> HIDE DEF D
      <4>2. IsFiniteSet(D)
        BY <4>1, <4>3, FS_Subset
      <4> QED BY <4>4, <4>2, <4>3
    <3> HIDE DEF D
    <3>2. \E j \in D : \A i \in D : j >= i
      BY <1>4, <3>1, LeastAndGreatest DEF D
    <3>3. \E j \in D : \A i \in D : i <= j
      BY <3>1, <3>2
    <3> QED BY <3>3
  <2>2. last \in 1..k - 1
    BY <2>1 DEF Earlier
  <2> HIDE DEF last
  <2>3. t[last] = s[last]
    BY <1>1, <2>2
  <2> QED BY <1>2, <1>4, <2>3 DEF Latest, last, t
<1> QED BY <1>3, <1>4

LEMMA LatestAppended ==
  ASSUME NEW s \in Seq(Entry), NEW x \in Entry, NEW ops, NEW default
  PROVE  Latest(Append(s, x), Len(s) + 2, ops, default)
           = IF x.op \in ops THEN x ELSE Latest(s, Len(s) + 1, ops, default)
<1> DEFINE n == Len(s)
           t == Append(s, x)
           D == Earlier(t, n + 2, ops)
<1>1. n \in Nat /\ t[n + 1] = x /\ \A j \in 1..n : t[j] = s[j]
  BY AppendProperties
<1>2. Latest(t, n + 1, ops, default) = Latest(s, n + 1, ops, default)
  <2>1. n + 1 \in 1..n + 1
    BY <1>1
  <2> QED BY <2>1, LatestKept
<1> HIDE DEF t, n
<1>3. CASE x.op \in ops
  <2>1. n + 1 \in D /\ \A i \in D : i <= n + 1
    BY <1>1, <1>3 DEF Earlier
  <2>2. \A j \in D : (\A i \in D : i <= j) => j = n + 1
    BY <1>1, <2>1 DEF Earlier
  <2> DEFINE last == CHOOSE j \in D : \A i \in D : i <= j
  <2>3. last = n + 1
    <3> HIDE DEF D
    <3> QED BY <2>1, <2>2
  <2>4. Latest(t, n + 2, ops, default) = t[last]
    <3> HIDE DEF last
    <3> QED BY <2>1 DEF Latest, last
  <2> QED BY <1>1, <1>3, <2>3, <2>4 DEF t, n
<1>4. CASE x.op \notin ops
  <2>1. Earlier(t, n + 2, ops) = Earlier(t, n + 1, ops)
    BY <1>1, <1>4 DEF Earlier
  <2>2. Latest(t, n + 2, ops, default) = Latest(t, n + 1, ops, default)
    <3> DEFINE E == Earlier(t, n + 1, ops)
               last == CHOOSE j \in E : \A i \in E : i <= j
    <3>1. Latest(t, n + 1, ops, default) = IF E = {} THEN default ELSE t[last]
      BY DEF Latest
    <3>2. Latest(t, n + 2, ops, default) =
            IF D = {} THEN default ELSE t[CHOOSE j \in D : \A i \in D : i <= j]
      BY DEF Latest
    <3>3. D = E
      BY <2>1
    <3> HIDE DEF D, E
    <3> QED BY <3>1, <3>2, <3>3
  <2> QED BY <1>2, <1>4, <2>2 DEF t, n
<1> QED BY <1>3, <1>4

LEMMA LogKept ==
  ASSUME NEW s \in Seq(Entry), NEW x \in Entry, NEW m
  PROVE  /\ \A k \in 1..Len(s) + 1 :
              /\ ModeIn(Append(s, x), m, k) = ModeIn(s, m, k)
              /\ CapturingIn(Append(s, x), k) <=> CapturingIn(s, k)
         /\ \A k \in 1..Len(s) : /\ Captured(Append(s, x), m, k) <=> Captured(s, m, k)
                                 /\ Replayed(Append(s, x), m, k) <=> Replayed(s, m, k)
<1>1. \A k \in 1..Len(s) + 1 :
        /\ ModeIn(Append(s, x), m, k) = ModeIn(s, m, k)
        /\ CapturingIn(Append(s, x), k) <=> CapturingIn(s, k)
  BY LatestKept DEF ModeIn, CapturingIn
<1> DEFINE t == Append(s, x)
           n == Len(s)
<1>2. n \in Nat /\ \A k \in 1..n : t[k] = s[k] /\ k \in 1..n + 1
  BY AppendProperties
<1>3. \A k \in 1..n : Captured(t, m, k) <=> Captured(s, m, k)
  <2> HIDE DEF t, n
  <2> QED BY <1>1, <1>2 DEF Captured, t, n
<1>4. \A k \in 1..n : Replayed(t, m, k) <=> Replayed(s, m, k)
  <2>1. ASSUME NEW k \in 1..n PROVE Replayed(t, m, k) <=> Replayed(s, m, k)
    <3>1. \A j \in 1..k - 1 : j \in 1..n
      BY <1>2
    <3>2. (\E j \in 1..k - 1 : Captured(t, m, j)) <=> (\E j \in 1..k - 1 : Captured(s, m, j))
      BY <1>3, <3>1
    <3>3. /\ t[k] = s[k] /\ ModeIn(t, m, k) = ModeIn(s, m, k)
          /\ CapturingIn(t, k) <=> CapturingIn(s, k)
      BY <1>1, <1>2
    <3> HIDE DEF t
    <3> QED BY <3>2, <3>3 DEF Replayed
  <2> QED BY <2>1
<1> QED BY <1>1, <1>3, <1>4

\* t lists the numbers of S in their order.
Lists(t, S) ==
  /\ t \in Seq(Nat) /\ ToSet(t) = S
  /\ \A i \in 2..Len(t) : t[i - 1] < t[i]

LEMMA ListsAppended ==
  ASSUME NEW t, NEW S, Lists(t, S), NEW x \in Nat, \A y \in S : y < x
  PROVE  Lists(Append(t, x), S \cup {x})
<1> DEFINE u == Append(t, x)
           n == Len(t)
<1>1. /\ u \in Seq(Nat) /\ Len(u) = n + 1 /\ n \in Nat /\ u[n + 1] = x
      /\ \A i \in 1..n : u[i] = t[i] /\ t[i] \in Nat
  BY AppendProperties DEF Lists
<1>2. DOMAIN t = 1..n /\ DOMAIN u = 1..n + 1
  BY <1>1 DEF Lists
<1>3. ToSet(t) = {t[i] : i \in 1..n} /\ ToSet(u) = {u[i] : i \in 1..n + 1}
  BY <1>2 DEF ToSet
<1> HIDE DEF u, n
<1>4. ToSet(u) = S \cup {x}
  <2>1. ToSet(t) = S
    BY DEF Lists
  <2> QED BY <1>1, <1>3, <2>1
<1>5. ASSUME NEW i \in 2..n + 1 PROVE u[i - 1] < u[i]
  <2>1. CASE i = n + 1
    <3>1. n \in 1..n /\ i - 1 = n
      BY <1>1, <2>1
    <3>2. t[n] \in S
      BY <1>3, <3>1 DEF Lists
    <3> QED BY <1>1, <2>1, <3>1, <3>2
  <2>2. CASE i # n + 1
    <3>1. i \in 2..n /\ i \in 1..n /\ i - 1 \in 1..n
      BY <1>1, <2>2
    <3>2. t[i - 1] < t[i]
      BY <3>1 DEF Lists, n
    <3> QED BY <1>1, <3>1, <3>2
  <2> QED BY <2>1, <2>2
<1> QED BY <1>1, <1>4, <1>5 DEF Lists, u

\* The forwards of request r among the first k calls that the model computed.
Own(s, m, r, k) == {j \in 1..k : s[j].op = "forward" /\ ~Replayed(s, m, j) /\ s[j].req = r}

\* j is the last capture before k.
LastCapture(s, m, j, k) ==
  j \in 1..k - 1 /\ Captured(s, m, j) /\ \A i \in j + 1..k - 1 : ~Captured(s, m, i)

\* The answer to the k-th call.
Answered(s, m, k) ==
  s[k].op = "forward" =>
    IF Replayed(s, m, k)
      THEN \E j : LastCapture(s, m, j, k) /\ s[k].output = s[j].output
      ELSE Lists(s[k].output, Own(s, m, s[k].req, k))

EngineType == [mode : Graph!Modes, is_capturing : BOOLEAN, replay_buffer : SUBSET Seq(Nat),
               context : [{1, 2} -> Seq(Nat)]]

\* The engine is what its calls made of it.
EngineOf(s, m, e) ==
  /\ s \in Seq(Entry) /\ e \in EngineType
  /\ e.mode = ModeIn(s, m, Len(s) + 1)
  /\ e.is_capturing <=> CapturingIn(s, Len(s) + 1)
  /\ \/ e.replay_buffer = {} /\ \A j \in 1..Len(s) : ~Captured(s, m, j)
     \/ \E j : LastCapture(s, m, j, Len(s) + 1) /\ e.replay_buffer = {s[j].output}
  /\ \A r \in {1, 2} : Lists(e.context[r], Own(s, m, r, Len(s)))
  /\ \A k \in 1..Len(s) : Answered(s, m, k)

LEMMA EngineBegins ==
  ASSUME NEW m \in Graph!Modes
  PROVE  EngineOf(<<>>, m, Graph!NewEngine(m, {1, 2}))
<1> DEFINE e == Graph!NewEngine(m, {1, 2})
<1>1. <<>> \in Seq(Entry) /\ Len(<<>>) = 0
  OBVIOUS
<1>2. e \in EngineType /\ e.mode = m /\ e.is_capturing = FALSE /\ e.replay_buffer = {}
  BY DEF Graph!NewEngine, EngineType
<1>3. \A r \in {1, 2} : e.context[r] = <<>>
  BY DEF Graph!NewEngine
<1>4. \A ops : Earlier(<<>>, 1, ops) = {}
  BY DEF Earlier
<1>5. ModeIn(<<>>, m, 1) = m /\ ~CapturingIn(<<>>, 1)
  BY <1>4 DEF ModeIn, CapturingIn, Latest
<1>6. \A r \in {1, 2} : Lists(<<>>, Own(<<>>, m, r, 0))
  <2>1. ToSet(<<>>) = {}
    BY DEF ToSet
  <2>2. \A r \in {1, 2} : Own(<<>>, m, r, 0) = {}
    BY DEF Own
  <2> QED BY <2>1, <2>2 DEF Lists
<1> HIDE DEF e
<1> QED BY <1>1, <1>2, <1>3, <1>5, <1>6 DEF EngineOf, e

\* What was true of the calls before stays true.
LEMMA AnswersStay ==
  ASSUME NEW s \in Seq(Entry), NEW x \in Entry, NEW m
  PROVE  LET n == Len(s)
             t == Append(s, x)
         IN /\ n \in Nat /\ t \in Seq(Entry) /\ Len(t) = n + 1 /\ t[n + 1] = x
            /\ \A k \in 1..n : t[k] = s[k]
            /\ \A k \in 1..n + 1 : \A j : LastCapture(t, m, j, k) <=> LastCapture(s, m, j, k)
            /\ \A k \in 0..n : \A r : Own(t, m, r, k) = Own(s, m, r, k)
            /\ \A k \in 1..n : Answered(s, m, k) => Answered(t, m, k)
<1> DEFINE n == Len(s)
           t == Append(s, x)
<1>1. /\ n \in Nat /\ t \in Seq(Entry) /\ Len(t) = n + 1 /\ t[n + 1] = x
      /\ \A k \in 1..n : t[k] = s[k]
  BY AppendProperties
<1>2. \A k \in 1..n : /\ Captured(t, m, k) <=> Captured(s, m, k)
                      /\ Replayed(t, m, k) <=> Replayed(s, m, k)
  BY LogKept
<1> HIDE DEF n, t
<1>3. \A k \in 1..n + 1 : \A j : LastCapture(t, m, j, k) <=> LastCapture(s, m, j, k)
  <2>1. ASSUME NEW k \in 1..n + 1, NEW j \in 1..k - 1
        PROVE  LastCapture(t, m, j, k) <=> LastCapture(s, m, j, k)
    <3>1. j \in 1..n /\ \A i \in j + 1..k - 1 : i \in 1..n
      BY <1>1
    <3> QED BY <1>2, <3>1 DEF LastCapture
  <2> QED BY <2>1 DEF LastCapture
<1>4. \A k \in 0..n : \A r : Own(t, m, r, k) = Own(s, m, r, k)
  <2> SUFFICES ASSUME NEW k \in 0..n, NEW r PROVE Own(t, m, r, k) = Own(s, m, r, k)
    OBVIOUS
  <2>1. \A j \in 1..k : j \in 1..n
    BY <1>1
  <2> QED BY <1>1, <1>2, <2>1 DEF Own
<1>5. \A k \in 1..n : Answered(s, m, k) => Answered(t, m, k)
  <2> SUFFICES ASSUME NEW k \in 1..n, Answered(s, m, k) PROVE Answered(t, m, k)
    OBVIOUS
  <2>1. t[k] = s[k] /\ (Replayed(t, m, k) <=> Replayed(s, m, k))
    BY <1>1, <1>2
  <2>2. \A r : Own(t, m, r, k) = Own(s, m, r, k)
    <3>1. k \in 0..n
      BY <1>1
    <3> QED BY <1>4, <3>1
  <2>3. \A j : LastCapture(s, m, j, k) => LastCapture(t, m, j, k) /\ t[j] = s[j]
    <3>1. k \in 1..n + 1 /\ \A j \in 1..k - 1 : j \in 1..n
      BY <1>1
    <3> QED BY <1>1, <1>3, <3>1 DEF LastCapture
  <2> QED BY <2>1, <2>2, <2>3 DEF Answered
<1> QED BY <1>1, <1>3, <1>4, <1>5 DEF n, t

\* What the engine is in after one more call.
LEMMA StateAppended ==
  ASSUME NEW s \in Seq(Entry), NEW x \in Entry, NEW m
  PROVE  /\ ModeIn(Append(s, x), m, Len(s) + 2)
              = IF x.op = "mode" THEN x.mode ELSE ModeIn(s, m, Len(s) + 1)
         /\ CapturingIn(Append(s, x), Len(s) + 2)
              <=> IF x.op \in {"begin", "end"} THEN x.op = "begin" ELSE CapturingIn(s, Len(s) + 1)
         /\ ModeIn(Append(s, x), m, Len(s) + 1) = ModeIn(s, m, Len(s) + 1)
         /\ CapturingIn(Append(s, x), Len(s) + 1) <=> CapturingIn(s, Len(s) + 1)
<1>1. ModeIn(Append(s, x), m, Len(s) + 2)
        = IF x.op = "mode" THEN x.mode ELSE ModeIn(s, m, Len(s) + 1)
  <2>1. Latest(Append(s, x), Len(s) + 2, {"mode"}, [mode |-> m])
          = IF x.op \in {"mode"} THEN x ELSE Latest(s, Len(s) + 1, {"mode"}, [mode |-> m])
    BY LatestAppended
  <2> QED BY <2>1 DEF ModeIn
<1>2. CapturingIn(Append(s, x), Len(s) + 2)
        <=> IF x.op \in {"begin", "end"} THEN x.op = "begin" ELSE CapturingIn(s, Len(s) + 1)
  <2>1. Latest(Append(s, x), Len(s) + 2, {"begin", "end"}, [op |-> "end"])
          = IF x.op \in {"begin", "end"} THEN x
            ELSE Latest(s, Len(s) + 1, {"begin", "end"}, [op |-> "end"])
    BY LatestAppended
  <2> QED BY <2>1 DEF CapturingIn
<1>3. Len(s) + 1 \in 1..Len(s) + 1
  <2>1. Len(s) \in Nat
    OBVIOUS
  <2> QED BY <2>1
<1>4. /\ ModeIn(Append(s, x), m, Len(s) + 1) = ModeIn(s, m, Len(s) + 1)
      /\ CapturingIn(Append(s, x), Len(s) + 1) <=> CapturingIn(s, Len(s) + 1)
  BY <1>3, LogKept
<1> QED BY <1>1, <1>2, <1>4

\* A call that captures nothing leaves the last capture the last one.
LEMMA NoCapture ==
  ASSUME NEW s \in Seq(Entry), NEW x \in Entry, NEW m,
         ~Captured(Append(s, x), m, Len(s) + 1)
  PROVE  LET n == Len(s)
             t == Append(s, x)
         IN /\ (\A j \in 1..n : ~Captured(s, m, j)) => (\A j \in 1..n + 1 : ~Captured(t, m, j))
            /\ \A j : LastCapture(s, m, j, n + 1) => LastCapture(t, m, j, n + 2) /\ t[j] = s[j]
<1> DEFINE n == Len(s)
           t == Append(s, x)
<1>1. /\ n \in Nat /\ \A k \in 1..n : t[k] = s[k]
      /\ \A k \in 1..n + 1 : \A j : LastCapture(t, m, j, k) <=> LastCapture(s, m, j, k)
  BY AnswersStay
<1>2. \A k \in 1..n : Captured(t, m, k) <=> Captured(s, m, k)
  BY LogKept
<1>3. ~Captured(t, m, n + 1)
  OBVIOUS
<1> HIDE DEF n, t
<1>4. ASSUME \A j \in 1..n : ~Captured(s, m, j)
      PROVE  \A j \in 1..n + 1 : ~Captured(t, m, j)
  <2>1. \A j \in 1..n + 1 : j \in 1..n \/ j = n + 1
    BY <1>1
  <2> QED BY <1>2, <1>3, <1>4, <2>1
<1>5. ASSUME NEW j, LastCapture(s, m, j, n + 1)
      PROVE  LastCapture(t, m, j, n + 2) /\ t[j] = s[j]
  <2>1. j \in 1..n /\ n + 1 \in 1..n + 1 /\ (n + 1) - 1 = n /\ (n + 2) - 1 = n + 1
    BY <1>1, <1>5 DEF LastCapture
  <2>2. LastCapture(t, m, j, n + 1)
    BY <1>1, <1>5, <2>1
  <2>3. \A i \in j + 1..n + 1 : i \in j + 1..n \/ i = n + 1
    BY <2>1
  <2> QED BY <1>1, <1>3, <2>1, <2>2, <2>3 DEF LastCapture
<1> QED BY <1>4, <1>5 DEF n, t

\* Any call but a forward.
LEMMA OtherCall ==
  ASSUME NEW s, NEW m, NEW e, EngineOf(s, m, e), NEW x \in Entry, x.op # "forward",
         NEW f \in EngineType, f.replay_buffer = e.replay_buffer, f.context = e.context,
         f.mode = IF x.op = "mode" THEN x.mode ELSE e.mode,
         f.is_capturing <=> IF x.op \in {"begin", "end"} THEN x.op = "begin" ELSE e.is_capturing
  PROVE  EngineOf(Append(s, x), m, f)
<1> DEFINE n == Len(s)
           t == Append(s, x)
<1>1. s \in Seq(Entry)
  BY DEF EngineOf
<1>2. /\ n \in Nat /\ t \in Seq(Entry) /\ Len(t) = n + 1 /\ t[n + 1] = x
      /\ \A k \in 1..n : t[k] = s[k]
      /\ \A k \in 0..n : \A r : Own(t, m, r, k) = Own(s, m, r, k)
      /\ \A k \in 1..n : Answered(s, m, k) => Answered(t, m, k)
  BY <1>1, AnswersStay
<1>3. /\ f.mode = ModeIn(t, m, n + 2)
      /\ f.is_capturing <=> CapturingIn(t, n + 2)
  <2>1. e.mode = ModeIn(s, m, n + 1) /\ (e.is_capturing <=> CapturingIn(s, n + 1))
    BY DEF EngineOf
  <2>2. /\ ModeIn(t, m, n + 2) = IF x.op = "mode" THEN x.mode ELSE ModeIn(s, m, n + 1)
        /\ CapturingIn(t, n + 2)
             <=> IF x.op \in {"begin", "end"} THEN x.op = "begin" ELSE CapturingIn(s, n + 1)
    BY <1>1, StateAppended
  <2> HIDE DEF t, n
  <2> QED BY <2>1, <2>2
<1>4. ~Captured(t, m, n + 1)
  BY <1>2 DEF Captured
<1>5. /\ (\A j \in 1..n : ~Captured(s, m, j)) => (\A j \in 1..n + 1 : ~Captured(t, m, j))
      /\ \A j : LastCapture(s, m, j, n + 1) => LastCapture(t, m, j, n + 2) /\ t[j] = s[j]
  BY <1>1, <1>4, NoCapture
<1>6. \A r : Own(t, m, r, n + 1) = Own(s, m, r, n)
  <2> HIDE DEF t, n
  <2>1. n \in 0..n /\ \A j \in 1..n + 1 : j \in 1..n \/ j = n + 1
    BY <1>2
  <2>2. \A r : Own(t, m, r, n + 1) = Own(t, m, r, n)
    BY <1>2, <2>1 DEF Own
  <2> QED BY <1>2, <2>1, <2>2
<1>7. \A k \in 1..n + 1 : Answered(t, m, k)
  <2>1. \A k \in 1..n : Answered(s, m, k)
    BY DEF EngineOf
  <2> HIDE DEF t, n
  <2>2. \A k \in 1..n + 1 : k \in 1..n \/ k = n + 1
    BY <1>2
  <2>3. Answered(t, m, n + 1)
    BY <1>2 DEF Answered
  <2> QED BY <1>2, <2>1, <2>2, <2>3
<1>8. \/ f.replay_buffer = {} /\ \A j \in 1..n + 1 : ~Captured(t, m, j)
      \/ \E j : LastCapture(t, m, j, n + 2) /\ f.replay_buffer = {t[j].output}
  <2>1. \/ e.replay_buffer = {} /\ \A j \in 1..n : ~Captured(s, m, j)
        \/ \E j : LastCapture(s, m, j, n + 1) /\ e.replay_buffer = {s[j].output}
    BY DEF EngineOf
  <2> HIDE DEF t, n
  <2> QED BY <1>5, <2>1
<1>9. \A r \in {1, 2} : Lists(f.context[r], Own(t, m, r, n + 1))
  <2>1. \A r \in {1, 2} : Lists(e.context[r], Own(s, m, r, n))
    BY DEF EngineOf
  <2> HIDE DEF t, n
  <2> QED BY <1>6, <2>1
<1>10. Len(t) + 1 = n + 2 /\ Len(t) = n + 1
  BY <1>2
<1>11. EngineOf(t, m, f)
  <2> HIDE DEF t, n
  <2> QED BY <1>2, <1>3, <1>7, <1>8, <1>9, <1>10 DEF EngineOf
<1> QED BY <1>11

\* A forward: replayed, captured, or neither.
LEMMA ForwardCall ==
  ASSUME NEW s, NEW m, NEW e, EngineOf(s, m, e), NEW r \in {1, 2}
  PROVE  LET out == Graph!EngineForward(e, r, Len(s) + 1)
             x == [op |-> "forward", req |-> r, output |-> out.output]
         IN x \in Entry /\ EngineOf(Append(s, x), m, out.engine)
<1> DEFINE n == Len(s)
           k == n + 1
           out == Graph!EngineForward(e, r, k)
           f == out.engine
           x == [op |-> "forward", req |-> r, output |-> out.output]
           t == Append(s, x)
           text == Append(e.context[r], k)
           ran == [e EXCEPT !.context[r] = text]
           replays == e.mode = "FullGraph" /\ ~e.is_capturing /\ e.replay_buffer # {}
           captures == e.mode = "FullGraph" /\ e.is_capturing
<1>1. /\ s \in Seq(Entry) /\ n \in Nat /\ k \in Nat /\ e \in EngineType
      /\ e.mode = ModeIn(s, m, n + 1) /\ (e.is_capturing <=> CapturingIn(s, n + 1))
      /\ \/ e.replay_buffer = {} /\ \A j \in 1..n : ~Captured(s, m, j)
         \/ \E j : LastCapture(s, m, j, n + 1) /\ e.replay_buffer = {s[j].output}
      /\ \A q \in {1, 2} : Lists(e.context[q], Own(s, m, q, n))
      /\ \A i \in 1..n : Answered(s, m, i)
  BY DEF EngineOf
<1>2. text \in Seq(Nat) /\ ran \in EngineType
  <2>1. e.context \in [{1, 2} -> Seq(Nat)]
    BY <1>1 DEF EngineType
  <2>2. text \in Seq(Nat)
    BY <1>1, <2>1
  <2> HIDE DEF text, k
  <2> QED BY <1>1, <2>1, <2>2 DEF EngineType
<1>3. /\ replays => f = e /\ {out.output} = e.replay_buffer
      /\ captures => f = [ran EXCEPT !.replay_buffer = {text}] /\ out.output = text
      /\ ~replays /\ ~captures => f = ran /\ out.output = text
  <2>1. Graph!Run(e, r, k) = [engine |-> ran, output |-> text]
    BY DEF Graph!Run
  <2>2. Graph!Replays(e) <=> replays
    BY DEF Graph!Replays
  <2>3. ASSUME replays PROVE f = e /\ {out.output} = e.replay_buffer
    <3>1. out = [engine |-> e, output |-> CHOOSE o \in e.replay_buffer : TRUE]
      BY <2>2, <2>3 DEF Graph!EngineForward
    <3>2. \E o : e.replay_buffer = {o}
      BY <1>1, <2>3
    <3> HIDE DEF out
    <3> QED BY <3>1, <3>2
  <2>4. ASSUME captures PROVE f = [ran EXCEPT !.replay_buffer = {text}] /\ out.output = text
    <3>1. ~replays
      BY <2>4
    <3>2. out = [Graph!Run(e, r, k) EXCEPT !.engine.replay_buffer = {Graph!Run(e, r, k).output}]
      BY <2>2, <2>4, <3>1 DEF Graph!EngineForward
    <3> DEFINE record == [engine |-> ran, output |-> text]
               buffer == {text}
               filled == [ran EXCEPT !.replay_buffer = buffer]
    <3>3. record.output = text
      OBVIOUS
    <3>4. out = [record EXCEPT !.engine.replay_buffer = buffer]
      <4> HIDE DEF out, ran, text
      <4> QED BY <2>1, <3>2, <3>3
    <3>5. [record EXCEPT !.engine.replay_buffer = buffer] = [engine |-> filled, output |-> text]
      <4>1. /\ DOMAIN record = {"engine", "output"} /\ record.engine = ran /\ record.output = text
            /\ record = [engine |-> ran, output |-> text]
        OBVIOUS
      <4> HIDE DEF ran, text, buffer
      <4> QED BY <4>1
    <3> HIDE DEF out, ran, text
    <3> QED BY <3>4, <3>5
  <2>5. ASSUME ~replays, ~captures PROVE f = ran /\ out.output = text
    <3>1. out = Graph!Run(e, r, k)
      BY <2>2, <2>5 DEF Graph!EngineForward
    <3> HIDE DEF out, ran, text
    <3> QED BY <2>1, <3>1
  <2> QED BY <2>3, <2>4, <2>5
<1>4. /\ \A q : q # r /\ q \in {1, 2} => ran.context[q] = e.context[q]
      /\ ran.context[r] = text /\ ran.mode = e.mode /\ ran.is_capturing = e.is_capturing
      /\ ran.replay_buffer = e.replay_buffer
  <2>1. e.context \in [{1, 2} -> Seq(Nat)] /\ e = [mode |-> e.mode, is_capturing |-> e.is_capturing,
                             replay_buffer |-> e.replay_buffer, context |-> e.context]
    BY <1>1 DEF EngineType
  <2> HIDE DEF text
  <2> QED BY <2>1
<1>5. /\ f \in EngineType /\ f.mode = e.mode /\ (f.is_capturing <=> e.is_capturing)
      /\ out.output \in Seq(Nat)
  <2>1. CASE replays
    <3>1. out.output \in e.replay_buffer /\ e.replay_buffer \in SUBSET Seq(Nat)
      BY <1>1, <1>3, <2>1 DEF EngineType
    <3> HIDE DEF out, replays, captures
    <3> QED BY <1>1, <1>3, <2>1, <3>1
  <2>2. CASE captures
    <3>1. [ran EXCEPT !.replay_buffer = {text}] \in EngineType
      <4> HIDE DEF ran, text
      <4> QED BY <1>2 DEF EngineType
    <3>2. /\ [ran EXCEPT !.replay_buffer = {text}].mode = ran.mode
          /\ [ran EXCEPT !.replay_buffer = {text}].is_capturing = ran.is_capturing
      <4> HIDE DEF ran, text
      <4> QED BY <1>2 DEF EngineType
    <3> HIDE DEF out, ran, text, replays, captures
    <3> QED BY <1>2, <1>3, <1>4, <2>2, <3>1, <3>2
  <2>3. CASE ~replays /\ ~captures
    <3> HIDE DEF out, ran, text, replays, captures
    <3> QED BY <1>2, <1>3, <1>4, <2>3
  <2> QED BY <2>1, <2>2, <2>3
<1>6. x \in Entry /\ x.op = "forward" /\ x.req = r /\ x.output = out.output
  <2> HIDE DEF out
  <2> QED BY <1>5 DEF Entry
<1> HIDE DEF x, out, f
<1>7. /\ t \in Seq(Entry) /\ Len(t) = n + 1 /\ t[n + 1] = x
      /\ \A i \in 1..n : t[i] = s[i]
      /\ \A i \in 1..n + 1 : \A j : LastCapture(t, m, j, i) <=> LastCapture(s, m, j, i)
      /\ \A i \in 0..n : \A q : Own(t, m, q, i) = Own(s, m, q, i)
      /\ \A i \in 1..n : Answered(s, m, i) => Answered(t, m, i)
  BY <1>1, <1>6, AnswersStay
<1>8. /\ f.mode = ModeIn(t, m, n + 2)
      /\ f.is_capturing <=> CapturingIn(t, n + 2)
      /\ ModeIn(t, m, n + 1) = e.mode
      /\ CapturingIn(t, n + 1) <=> e.is_capturing
  <2>1. /\ ModeIn(t, m, n + 2) = IF x.op = "mode" THEN x.mode ELSE ModeIn(s, m, n + 1)
        /\ CapturingIn(t, n + 2)
             <=> IF x.op \in {"begin", "end"} THEN x.op = "begin" ELSE CapturingIn(s, n + 1)
        /\ ModeIn(t, m, n + 1) = ModeIn(s, m, n + 1)
        /\ CapturingIn(t, n + 1) <=> CapturingIn(s, n + 1)
    BY <1>1, <1>6, StateAppended
  <2> HIDE DEF t, n
  <2> QED BY <1>1, <1>5, <1>6, <2>1
<1>9. Captured(t, m, n + 1) <=> captures
  <2> HIDE DEF t, n
  <2> QED BY <1>6, <1>7, <1>8 DEF Captured
<1>10. Replayed(t, m, n + 1) <=> replays
  <2>1. (\E j \in 1..n : Captured(t, m, j)) <=> (\E j \in 1..n : Captured(s, m, j))
    <3>1. \A j \in 1..n : Captured(t, m, j) <=> Captured(s, m, j)
      BY <1>1, <1>6, LogKept
    <3> HIDE DEF t, n
    <3> QED BY <3>1
  <2>2. (\E j \in 1..n : Captured(s, m, j)) <=> e.replay_buffer # {}
    <3>1. \A j : LastCapture(s, m, j, n + 1) => j \in 1..n /\ Captured(s, m, j)
      BY <1>1 DEF LastCapture
    <3> HIDE DEF n
    <3> QED BY <1>1, <3>1
  <2>3. (n + 1) - 1 = n
    BY <1>1
  <2> HIDE DEF t, n
  <2> QED BY <1>6, <1>7, <1>8, <2>1, <2>2, <2>3 DEF Replayed
<1>11. \A q \in {1, 2} : Own(t, m, q, n + 1) =
         IF q = r /\ ~replays THEN Own(s, m, q, n) \cup {n + 1} ELSE Own(s, m, q, n)
  <2> HIDE DEF t, n, replays
  <2>1. n \in 0..n /\ \A j \in 1..n + 1 : j \in 1..n \/ j = n + 1
    BY <1>1
  <2>2. n + 1 \in 1..n + 1 /\ \A j \in 1..n : j \in 1..n + 1
    BY <1>1
  <2>3. \A q \in {1, 2} : Own(t, m, q, n + 1) =
          IF q = r /\ ~replays THEN Own(t, m, q, n) \cup {n + 1} ELSE Own(t, m, q, n)
    BY <1>6, <1>7, <1>10, <2>1, <2>2 DEF Own
  <2> QED BY <1>7, <2>1, <2>3
<1>12. Lists(text, Own(s, m, r, n) \cup {n + 1})
  <2>1. Lists(e.context[r], Own(s, m, r, n))
    BY <1>1
  <2>2. \A y \in Own(s, m, r, n) : y < n + 1
    <3> HIDE DEF n
    <3> QED BY <1>1 DEF Own
  <2> HIDE DEF n
  <2> QED BY <1>1, <2>1, <2>2, ListsAppended
<1>13. \A q \in {1, 2} : Lists(f.context[q], Own(t, m, q, n + 1))
  <2>1. CASE replays
    <3> HIDE DEF t, n, replays
    <3> QED BY <1>1, <1>3, <1>11, <2>1
  <2>2. CASE ~replays
    <3>1. f.context = ran.context
      <4>1. [ran EXCEPT !.replay_buffer = {text}].context = ran.context
        <5> HIDE DEF ran, text
        <5> QED BY <1>2 DEF EngineType
      <4> HIDE DEF ran, text, replays, captures
      <4> QED BY <1>3, <2>2, <4>1
    <3> HIDE DEF t, n, ran, text, replays
    <3> QED BY <1>1, <1>4, <1>11, <1>12, <2>2, <3>1
  <2> QED BY <2>1, <2>2
<1>14. Answered(t, m, n + 1)
  <2>1. CASE replays
    <3>1. PICK j : LastCapture(s, m, j, n + 1) /\ e.replay_buffer = {s[j].output}
      BY <1>1, <2>1
    <3>2. LastCapture(t, m, j, n + 1) /\ t[j] = s[j]
      <4>1. j \in 1..n /\ n + 1 \in 1..n + 1
        BY <1>1, <3>1 DEF LastCapture
      <4> HIDE DEF t, n
      <4> QED BY <1>7, <3>1, <4>1
    <3>3. out.output = s[j].output
      <4> HIDE DEF replays
      <4> QED BY <1>3, <2>1, <3>1
    <3> HIDE DEF t, n, replays
    <3> QED BY <1>6, <1>7, <1>10, <2>1, <3>2, <3>3 DEF Answered
  <2>2. CASE ~replays
    <3>1. out.output = text
      <4> HIDE DEF text, ran, replays, captures
      <4> QED BY <1>3, <2>2
    <3>2. Lists(out.output, Own(t, m, r, n + 1))
      <4> HIDE DEF t, n, text, replays
      <4> QED BY <1>11, <1>12, <2>2, <3>1
    <3> HIDE DEF t, n, replays
    <3> QED BY <1>6, <1>7, <1>10, <2>2, <3>2 DEF Answered
  <2> QED BY <2>1, <2>2
<1>15. \A i \in 1..n + 1 : Answered(t, m, i)
  <2> HIDE DEF t, n
  <2>1. \A i \in 1..n + 1 : i \in 1..n \/ i = n + 1
    BY <1>1
  <2> QED BY <1>1, <1>7, <1>14, <2>1
<1>16. \/ f.replay_buffer = {} /\ \A j \in 1..n + 1 : ~Captured(t, m, j)
       \/ \E j : LastCapture(t, m, j, n + 2) /\ f.replay_buffer = {t[j].output}
  <2>1. CASE captures
    <3>1. LastCapture(t, m, n + 1, n + 2)
      <4>1. n + 1 \in 1..(n + 2) - 1 /\ \A i \in (n + 1) + 1..(n + 2) - 1 : FALSE
        BY <1>1
      <4> HIDE DEF t, n, captures
      <4> QED BY <1>9, <2>1, <4>1 DEF LastCapture
    <3>2. f.replay_buffer = {text} /\ out.output = text
      <4>1. [ran EXCEPT !.replay_buffer = {text}].replay_buffer = {text}
        <5> HIDE DEF ran, text
        <5> QED BY <1>2 DEF EngineType
      <4> HIDE DEF ran, text, captures, replays
      <4> QED BY <1>3, <2>1, <4>1
    <3> HIDE DEF t, n, text
    <3> QED BY <1>6, <1>7, <3>1, <3>2
  <2>2. CASE ~captures
    <3>1. f.replay_buffer = e.replay_buffer
      <4> HIDE DEF ran, replays, captures, text
      <4> QED BY <1>3, <1>4, <2>2
    <3>2. /\ (\A j \in 1..n : ~Captured(s, m, j)) => (\A j \in 1..n + 1 : ~Captured(t, m, j))
          /\ \A j : LastCapture(s, m, j, n + 1) => LastCapture(t, m, j, n + 2) /\ t[j] = s[j]
      BY <1>1, <1>6, <1>9, <2>2, NoCapture
    <3> HIDE DEF t, n
    <3> QED BY <1>1, <3>1, <3>2
  <2> QED BY <2>1, <2>2
<1>17. Len(t) + 1 = n + 2 /\ Len(t) = n + 1
  BY <1>1, <1>7
<1>18. EngineOf(t, m, f)
  <2> HIDE DEF t, n
  <2> QED BY <1>5, <1>7, <1>8, <1>13, <1>15, <1>16, <1>17 DEF EngineOf
<1> QED BY <1>6, <1>18 DEF x, out, f

\* What the calls of an engine return, and the engine they leave.
EngineOK ==
  call.op = "graph" /\ result # NoResult =>
    \E s, e : result = [engine |-> e, log |-> s] /\ EngineOf(s, call.mode, e)

\* One more call.
LEMMA EngineUsed ==
  ASSUME NEW s, NEW m, NEW e, EngineOf(s, m, e), m \in Graph!Modes
  PROVE  /\ \A mode \in Graph!Modes :
              EngineOf(Append(s, [op |-> "mode", mode |-> mode]), m, Graph!SetMode(e, mode))
         /\ EngineOf(Append(s, [op |-> "begin"]), m, Graph!BeginCapture(e))
         /\ EngineOf(Append(s, [op |-> "end"]), m, Graph!EndCapture(e))
         /\ \A r \in {1, 2} :
              LET out == Graph!EngineForward(e, r, Len(s) + 1)
              IN EngineOf(Append(s, [op |-> "forward", req |-> r, output |-> out.output]), m,
                          out.engine)
<1>1. e \in EngineType
  BY DEF EngineOf
<1>2. ASSUME NEW mode \in Graph!Modes
      PROVE  EngineOf(Append(s, [op |-> "mode", mode |-> mode]), m, Graph!SetMode(e, mode))
  <2> DEFINE x == [op |-> "mode", mode |-> mode]
             f == Graph!SetMode(e, mode)
  <2>1. x \in Entry /\ x.op = "mode" /\ x.mode = mode
    BY DEF Entry
  <2>2. /\ f \in EngineType /\ f.mode = mode /\ f.is_capturing = e.is_capturing
        /\ f.replay_buffer = e.replay_buffer /\ f.context = e.context
    BY <1>1 DEF Graph!SetMode, EngineType
  <2> HIDE DEF x, f
  <2>3. EngineOf(Append(s, x), m, f)
    BY <2>1, <2>2, OtherCall
  <2> QED BY <2>3 DEF x, f
<1>3. EngineOf(Append(s, [op |-> "begin"]), m, Graph!BeginCapture(e))
  <2> DEFINE x == [op |-> "begin"]
             f == Graph!BeginCapture(e)
  <2>1. x \in Entry /\ x.op = "begin"
    BY DEF Entry
  <2>2. /\ f \in EngineType /\ f.mode = e.mode /\ f.is_capturing = TRUE
        /\ f.replay_buffer = e.replay_buffer /\ f.context = e.context
    BY <1>1 DEF Graph!BeginCapture, EngineType
  <2> HIDE DEF x, f
  <2>3. EngineOf(Append(s, x), m, f)
    BY <2>1, <2>2, OtherCall
  <2> QED BY <2>3 DEF x, f
<1>4. EngineOf(Append(s, [op |-> "end"]), m, Graph!EndCapture(e))
  <2> DEFINE x == [op |-> "end"]
             f == Graph!EndCapture(e)
  <2>1. x \in Entry /\ x.op = "end"
    BY DEF Entry
  <2>2. /\ f \in EngineType /\ f.mode = e.mode /\ f.is_capturing = FALSE
        /\ f.replay_buffer = e.replay_buffer /\ f.context = e.context
    BY <1>1 DEF Graph!EndCapture, EngineType
  <2> HIDE DEF x, f
  <2>3. EngineOf(Append(s, x), m, f)
    BY <2>1, <2>2, OtherCall
  <2> QED BY <2>3 DEF x, f
<1>5. ASSUME NEW r \in {1, 2}
      PROVE  LET out == Graph!EngineForward(e, r, Len(s) + 1)
             IN EngineOf(Append(s, [op |-> "forward", req |-> r, output |-> out.output]), m,
                         out.engine)
  BY ForwardCall
<1> QED BY <1>2, <1>3, <1>4, <1>5

\* An engine of any mode, any number of calls into it (the model takes MaxOps): its
\* forwards compute from the request's own tokens, but for those a replay swallowed.
THEOREM EngineReplays == Spec => []AnswersExceptReplays
<1>1. Init => EngineOK
  BY DEF Init, EngineOK
<1>2. ASSUME CallOK, EngineOK, [Next]_<<call, result>> PROVE EngineOK'
  <2> SUFFICES ASSUME call.op = "graph", UNCHANGED call, UseEngine
               PROVE  \E s, e : result' = [engine |-> e, log |-> s] /\ EngineOf(s, call.mode, e)
    <3>1. CASE UNCHANGED <<call, result>>
      BY <1>2, <3>1 DEF EngineOK
    <3>2. CASE Next
      BY <3>2, StepOfCall DEF EngineOK
    <3> QED BY <1>2, <3>1, <3>2
  <2> DEFINE m == call.mode
  <2>1. m \in Graph!Modes
    BY <1>2 DEF CallOK, GraphCalls
  <2>2. PICK s, e :
          /\ EngineOf(s, m, e)
          /\ (IF result = NoResult
                THEN [engine |-> Graph!NewEngine(call.mode, {1, 2}), log |-> <<>>]
                ELSE result) = [engine |-> e, log |-> s]
    <3>1. CASE result = NoResult
      <4>1. EngineOf(<<>>, m, Graph!NewEngine(m, {1, 2}))
        BY <2>1, EngineBegins
      <4> QED BY <3>1, <4>1
    <3>2. CASE result # NoResult
      BY <1>2, <3>2 DEF EngineOK
    <3> QED BY <3>1, <3>2
  <2> DEFINE now == [engine |-> e, log |-> s]
             Done(entry, f) == result' = [engine |-> f, log |-> Append(s, entry)]
             out(r) == Graph!EngineForward(e, r, Len(s) + 1)
  <2>3. now.engine = e /\ now.log = s
    OBVIOUS
  <2>4. \/ \E mode \in Graph!Modes : Done([op |-> "mode", mode |-> mode], Graph!SetMode(e, mode))
        \/ Done([op |-> "begin"], Graph!BeginCapture(e))
        \/ Done([op |-> "end"], Graph!EndCapture(e))
        \/ \E r \in {1, 2} :
             Done([op |-> "forward", req |-> r, output |-> out(r).output], out(r).engine)
    BY <2>2, <2>3 DEF UseEngine
  <2>5. /\ \A mode \in Graph!Modes :
              EngineOf(Append(s, [op |-> "mode", mode |-> mode]), m, Graph!SetMode(e, mode))
        /\ EngineOf(Append(s, [op |-> "begin"]), m, Graph!BeginCapture(e))
        /\ EngineOf(Append(s, [op |-> "end"]), m, Graph!EndCapture(e))
        /\ \A r \in {1, 2} :
             EngineOf(Append(s, [op |-> "forward", req |-> r, output |-> out(r).output]), m,
                      out(r).engine)
    BY <2>1, <2>2, EngineUsed
  <2> QED BY <2>4, <2>5
<1>3. EngineOK => AnswersExceptReplays
  <2> SUFFICES ASSUME EngineOK, call.op = "graph", result # NoResult,
                      NEW k \in DOMAIN result.log, IsForward(k)
               PROVE  IF Stale(k)
                      THEN \E j \in 1..k - 1 :
                             /\ Captures(j) /\ result.log[k].output = result.log[j].output
                             /\ \A i \in j + 1..k - 1 : ~Captures(i)
                      ELSE LET output == result.log[k].output
                           IN /\ ToSet(output) = {j \in 1..k :
                                                    /\ IsForward(j) /\ ~Stale(j)
                                                    /\ result.log[j].req = result.log[k].req}
                              /\ \A i \in 2..Len(output) : output[i - 1] < output[i]
    BY DEF AnswersExceptReplays
  <2> DEFINE s == result.log
             m == call.mode
  <2>1. Answered(s, m, k) /\ s[k].op = "forward"
    <3>1. PICK t, e : result = [engine |-> e, log |-> t] /\ EngineOf(t, m, e)
      BY DEF EngineOK
    <3>2. s = t
      BY <3>1
    <3>3. DOMAIN s = 1..Len(s) /\ \A i \in 1..Len(s) : Answered(s, m, i)
      BY <3>1, <3>2 DEF EngineOf
    <3> QED BY <3>3 DEF IsForward
  <2>2. /\ Stale(k) <=> Replayed(s, m, k)
        /\ \A j : Captures(j) <=> Captured(s, m, j)
        /\ \A j : Stale(j) <=> Replayed(s, m, j)
    BY LogOfCalls
  <2>3. CASE Stale(k)
    BY <2>1, <2>2, <2>3 DEF Answered, LastCapture
  <2>4. CASE ~Stale(k)
    <3>1. Lists(s[k].output, Own(s, m, s[k].req, k))
      BY <2>1, <2>2, <2>4 DEF Answered
    <3>2. Own(s, m, s[k].req, k) =
            {j \in 1..k : IsForward(j) /\ ~Stale(j) /\ s[j].req = s[k].req}
      BY <2>2 DEF Own, IsForward
    <3> QED BY <2>4, <3>1, <3>2 DEF Lists
  <2> QED BY <2>3, <2>4
<1> QED BY <1>1, <1>2, <1>3, CallsStart, CallsKept, PTL DEF Spec

-----------------------------------------------------------------------------
(* The answer of a chat                                                    *)

Delta(tk, tokens) == [data |-> "delta", content |-> Chat!DeltaContent(tk, tokens)]
\* The deltas of a stream that has read tokens.
Deltas(tk, tokens) == [i \in 1..Len(tokens) |-> Delta(tk, SubSeq(tokens, 1, i))]

LEMMA OneMoreDelta ==
  ASSUME NEW tk, NEW tokens \in Seq(Chat!Tokens), NEW t \in Chat!Tokens
  PROVE  Deltas(tk, Append(tokens, t)) = Append(Deltas(tk, tokens), Delta(tk, Append(tokens, t)))
<1> DEFINE n == Len(tokens)
           u == Append(tokens, t)
           left == Deltas(tk, u)
           right == Append(Deltas(tk, tokens), Delta(tk, u))
<1>1. /\ n \in Nat /\ u \in Seq(Chat!Tokens) /\ Len(u) = n + 1 /\ u[n + 1] = t
      /\ \A i \in 1..n : u[i] = tokens[i]
  BY AppendProperties
<1>2. SubSeq(u, 1, n + 1) = u
  <2>1. SubSeq(u, 1, Len(u)) = u
    <3> HIDE DEF u
    <3> QED BY <1>1
  <2> QED BY <1>1, <2>1
<1>3. \A i \in 1..n : SubSeq(u, 1, i) = SubSeq(tokens, 1, i)
  <2> SUFFICES ASSUME NEW i \in 1..n PROVE SubSeq(u, 1, i) = SubSeq(tokens, 1, i)
    OBVIOUS
  <2> HIDE DEF u, n
  <2>1. SubSeq(u, 1, i) = [j \in 1..i |-> u[j]]
    BY <1>1
  <2>2. SubSeq(tokens, 1, i) = [j \in 1..i |-> tokens[j]]
    BY <1>1
  <2>3. \A j \in 1..i : j \in 1..n
    BY <1>1
  <2> QED BY <1>1, <2>1, <2>2, <2>3
<1>4. left = [i \in 1..n + 1 |-> Delta(tk, SubSeq(u, 1, i))]
  <2> HIDE DEF u, n
  <2> QED BY <1>1 DEF Deltas
<1>5. Deltas(tk, tokens) = [i \in 1..n |-> Delta(tk, SubSeq(tokens, 1, i))]
  BY DEF Deltas
<1> DEFINE before == Deltas(tk, tokens)
           last == Delta(tk, u)
<1>6. /\ before = [i \in 1..n |-> before[i]] /\ Len(before) = n
      /\ \A i \in 1..n : before[i] = Delta(tk, SubSeq(tokens, 1, i))
  <2> HIDE DEF n
  <2>1. before = [i \in 1..n |-> Delta(tk, SubSeq(tokens, 1, i))]
    BY <1>5
  <2> HIDE DEF before
  <2> QED BY <1>1, <2>1
<1>7. Append(before, last) = [i \in 1..n + 1 |-> IF i = n + 1 THEN last ELSE before[i]]
  <2> HIDE DEF before, last, n
  <2> QED BY <1>1, <1>6
<1>8. \A i \in 1..n + 1 : left[i] = IF i = n + 1 THEN last ELSE before[i]
  <2> HIDE DEF u, n
  <2>1. \A i \in 1..n + 1 : i \in 1..n \/ i = n + 1
    BY <1>1
  <2>2. \A i \in 1..n + 1 : left[i] = Delta(tk, SubSeq(u, 1, i))
    <3> HIDE DEF left
    <3> QED BY <1>4
  <2> HIDE DEF left, before
  <2> QED BY <1>2, <1>3, <1>6, <2>1, <2>2
<1>9. left = [i \in 1..n + 1 |-> left[i]]
  BY <1>4
<1>10. left = Append(before, last)
  <2> HIDE DEF left, before, last, n
  <2> QED BY <1>7, <1>8, <1>9
<1> QED BY <1>10

\* Without a tokenizer a delta is the name of its token, and they make the answer.
LEMMA DeltasOfNames ==
  ASSUME NEW tk, ~tk.loaded, NEW tokens \in Seq(Chat!Tokens)
  PROVE  FlattenSeq([i \in 1..Len(tokens) |-> Deltas(tk, tokens)[i].content])
           = Chat!AnswerContent(tk, tokens)
<1> DEFINE n == Len(tokens)
           ss == [i \in 1..n |-> Deltas(tk, tokens)[i].content]
           names == Chat!Names(tokens)
<1>1. n \in Nat /\ DOMAIN tokens = 1..n
  OBVIOUS
<1>2. names = [i \in 1..n |-> Chat!Name(tokens[i])] /\ Chat!AnswerContent(tk, tokens) = names
  BY DEF Chat!Names, Chat!AnswerContent
<1>3. \A i \in 1..n : ss[i] = <<Chat!Name(tokens[i])>>
  <2> SUFFICES ASSUME NEW i \in 1..n PROVE ss[i] = <<Chat!Name(tokens[i])>>
    OBVIOUS
  <2> DEFINE part == SubSeq(tokens, 1, i)
  <2>1. ss[i] = Chat!DeltaContent(tk, part)
    BY DEF Deltas, Delta
  <2>2. Chat!DeltaContent(tk, part) = Chat!Names(<<Chat!Last(part)>>)
    <3> HIDE DEF part
    <3> QED BY DEF Chat!DeltaContent
  <2>3. Chat!Last(part) = tokens[i]
    <3>1. Len(part) = i /\ part[i] = tokens[i]
      BY <1>1
    <3> QED BY <3>1 DEF Chat!Last
  <2>4. Chat!Names(<<tokens[i]>>) = <<Chat!Name(tokens[i])>>
    <3> DEFINE one == <<tokens[i]>>
    <3>1. DOMAIN one = 1..1 /\ one[1] = tokens[i]
      OBVIOUS
    <3> DEFINE x == tokens[i]
               word == Chat!Name(x)
    <3>2. Chat!Names(one) = [j \in 1..1 |-> Chat!Name(one[j])]
      BY <3>1 DEF Chat!Names
    <3>3. \A j \in 1..1 : Chat!Name(one[j]) = word
      <4> HIDE DEF one
      <4> QED BY <3>1
    <3>4. Chat!Names(one) = [j \in 1..1 |-> word]
      <4> HIDE DEF one, word
      <4> QED BY <3>2, <3>3
    <3>5. [j \in 1..1 |-> word] = <<word>>
      <4> HIDE DEF word
      <4> QED OBVIOUS
    <3> HIDE DEF word
    <3>6. Chat!Names(one) = <<word>>
      BY <3>4, <3>5
    <3> QED BY <3>6 DEF word
  <2> QED BY <2>1, <2>2, <2>3, <2>4
<1>4. CASE n = 0
  <2>1. ss = <<>> /\ names = <<>>
    BY <1>2, <1>4
  <2>2. FlattenSeq(ss) = <<>>
    BY <2>1 DEF FlattenSeq
  <2> QED BY <1>2, <2>1, <2>2
<1>5. CASE n # 0
  <2> DEFINE F == [i \in 1..n |-> [j \in 1..i |-> Chat!Name(tokens[j])]]
  <2>1. Len(ss) = n
    BY <1>1
  <2>2. F[1] = ss[1]
    <3>1. 1 \in 1..n
      BY <1>1, <1>5
    <3>2. F[1] = [j \in 1..1 |-> Chat!Name(tokens[j])]
      BY <3>1
    <3>3. [j \in 1..1 |-> Chat!Name(tokens[j])] = <<Chat!Name(tokens[1])>>
      OBVIOUS
    <3> HIDE DEF ss, F
    <3> QED BY <1>3, <3>1, <3>2, <3>3
  <2>3. ASSUME NEW i \in 2..n PROVE F[i] = F[i - 1] \o ss[i]
    <3> DEFINE a == F[i - 1]
               b == <<Chat!Name(tokens[i])>>
    <3>1. i \in 1..n /\ i - 1 \in 1..n /\ i \in Nat
      BY <1>1
    <3>2. a = [j \in 1..i - 1 |-> Chat!Name(tokens[j])] /\ F[i] = [j \in 1..i |-> Chat!Name(tokens[j])]
      BY <3>1
    <3>3. ss[i] = b
      BY <1>3, <3>1
    <3>4. a \o b = [j \in 1..i |-> IF j <= i - 1 THEN a[j] ELSE b[j - (i - 1)]]
      <4> DEFINE Words == {Chat!Name(t) : t \in Chat!Tokens}
                 c == a \o b
      <4>1. /\ Len(a) = i - 1 /\ Len(b) = 1 /\ (i - 1) + 1 = i
            /\ a \in Seq(Words) /\ b \in Seq(Words)
        <5> HIDE DEF a
        <5>1. \A j \in 1..i : tokens[j] \in Chat!Tokens
          BY <1>1
        <5> QED BY <3>1, <3>2, <5>1
      <4> HIDE DEF a, b, Words
      <4>2. /\ c \in Seq(Words) /\ Len(c) = i
            /\ \A j \in 1..i : c[j] = IF j <= i - 1 THEN a[j] ELSE b[j - (i - 1)]
        <5>1. /\ c \in Seq(Words) /\ Len(c) = Len(a) + Len(b)
              /\ \A j \in 1..Len(a) + Len(b) : c[j] = IF j <= Len(a) THEN a[j] ELSE b[j - Len(a)]
          BY <4>1, ConcatProperties
        <5> HIDE DEF c
        <5>2. Len(a) + Len(b) = i
          BY <4>1
        <5> QED BY <4>1, <5>1, <5>2
      <4> HIDE DEF c
      <4>3. c = [j \in 1..i |-> c[j]]
        BY <4>2
      <4>4. c = [j \in 1..i |-> IF j <= i - 1 THEN a[j] ELSE b[j - (i - 1)]]
        BY <4>2, <4>3
      <4> QED BY <4>4 DEF c
    <3>5. \A j \in 1..i : (IF j <= i - 1 THEN a[j] ELSE b[j - (i - 1)]) = Chat!Name(tokens[j])
      <4> TAKE j \in 1..i
      <4>1. CASE j <= i - 1
        <5>1. j \in 1..i - 1
          BY <3>1, <4>1
        <5> HIDE DEF a
        <5> QED BY <3>2, <4>1, <5>1
      <4>2. CASE ~(j <= i - 1)
        <5>1. j = i /\ j - (i - 1) = 1
          BY <3>1, <4>2
        <5> HIDE DEF a
        <5> QED BY <4>2, <5>1
      <4> QED BY <4>1, <4>2
    <3> DEFINE joined == [j \in 1..i |-> IF j <= i - 1 THEN a[j] ELSE b[j - (i - 1)]]
    <3>6. joined = F[i]
      <4> HIDE DEF F, a, b
      <4> QED BY <3>2, <3>5
    <3>7. F[i - 1] = a
      OBVIOUS
    <3>8. a \o b = joined
      BY <3>4
    <3> HIDE DEF ss, F, a, b, joined
    <3> QED BY <3>3, <3>6, <3>7, <3>8
  <2>4. DOMAIN F = 1..n /\ F = [i \in 1..n |-> F[i]]
    OBVIOUS
  <2>5. F[n] = names
    <3>1. n \in 1..n
      BY <1>1, <1>5
    <3> QED BY <1>2, <3>1
  <2> HIDE DEF ss, F
  <2>6. FlattenSeq(ss) = F[Len(ss)]
    BY <1>1, <1>5, <2>1, <2>2, <2>3, <2>4, Flattened
  <2> QED BY <1>2, <2>1, <2>5, <2>6 DEF ss
<1> QED BY <1>4, <1>5

ChatFields == {"ok", "status", "prompt_tokens", "max_tokens", "stop_token_ids", "generated",
               "channel", "closed", "expired", "all_tokens", "events", "done"}

PromptOf(tk, p) == Chat!Encode(tk, Chat!PromptText(p.messages))

\* What ends an answer of tokens.
EndOf(tk, p, tokens) ==
  LET prompt_tokens == IF tk.loaded THEN Len(PromptOf(tk, p)) ELSE 0
  IN IF p.stream THEN [data |-> "[DONE]"]
     ELSE [data |-> "body", content |-> Chat!AnswerContent(tk, tokens), finish_reason |-> "stop",
           prompt_tokens |-> prompt_tokens, completion_tokens |-> Len(tokens),
           total_tokens |-> prompt_tokens + Len(tokens)]
Told(tk, p, tokens) == IF p.stream THEN Deltas(tk, tokens) ELSE <<>>

\* A request and its handler: the tokens that were generated are those that were read and
\* those still in the channel, and the events tell those that were read.
Handler(tk, p, h) ==
  /\ h = [f \in ChatFields |-> h[f]]
  /\ {h.generated, h.channel, h.all_tokens} \subseteq Seq(Chat!Tokens)
  /\ h.generated = h.all_tokens \o h.channel
  /\ tk.loaded => h.prompt_tokens = PromptOf(tk, p)
  /\ h.done => h.channel = <<>> /\ h.events = Append(Told(tk, p, h.all_tokens), EndOf(tk, p, h.all_tokens))
  /\ ~h.done => h.events = Told(tk, p, h.all_tokens)

LEMMA HandlerPosted ==
  ASSUME NEW tk, NEW p, Chat!Post(tk, p).ok
  PROVE  Handler(tk, p, Chat!Post(tk, p))
<1> DEFINE h == Chat!Post(tk, p)
           tokens == IF tk.loaded THEN Chat!Encode(tk, Chat!PromptText(p.messages)) ELSE <<1, 2, 3>>
           stops == Chat!StopTokenIds(tk, p)
           limit == p.max_tokens
<1>1. \A status : ~Chat!Rejected(status).ok
  BY DEF Chat!Rejected
<1>2. h = [ok |-> TRUE, status |-> 200, prompt_tokens |-> tokens,
           max_tokens |-> limit, stop_token_ids |-> stops,
           generated |-> <<>>, channel |-> <<>>, closed |-> FALSE, expired |-> FALSE,
           all_tokens |-> <<>>, events |-> <<>>, done |-> FALSE]
  BY <1>1 DEF Chat!Post
<1>3. tk.loaded => tokens = PromptOf(tk, p)
  BY DEF PromptOf
<1> HIDE DEF h, tokens, stops, limit
<1>4. /\ h = [f \in ChatFields |-> h[f]]
      /\ h.generated = <<>> /\ h.channel = <<>> /\ h.all_tokens = <<>> /\ h.events = <<>>
      /\ h.done = FALSE /\ h.prompt_tokens = tokens
  BY <1>2 DEF ChatFields
<1>5. Told(tk, p, <<>>) = <<>>
  <2>1. Deltas(tk, <<>>) = <<>>
    BY DEF Deltas
  <2> QED BY <2>1 DEF Told
<1>6. <<>> \o <<>> = <<>> /\ <<>> \in Seq(Chat!Tokens)
  OBVIOUS
<1>7. Handler(tk, p, h)
  BY <1>3, <1>4, <1>5, <1>6 DEF Handler
<1> QED BY <1>7 DEF h

LEMMA TokenGenerated ==
  ASSUME NEW tk, NEW p, NEW h, Handler(tk, p, h), ~h.done, NEW token \in Chat!Tokens
  PROVE  Handler(tk, p, Chat!Generated(h, token))
<1> DEFINE g == Chat!Generated(h, token)
           generated == Append(h.generated, token)
           channel == Append(h.channel, token)
           closed == Chat!Finishes(h, generated)
<1>1. h = [f \in ChatFields |-> h[f]]
  BY DEF Handler
<1>2. g = [h EXCEPT !.generated = generated, !.channel = channel, !.closed = closed]
  <2> HIDE DEF closed
  <2> QED BY <1>1 DEF Chat!Generated, ChatFields, closed
<1>3. generated \in Seq(Chat!Tokens) /\ channel \in Seq(Chat!Tokens)
      /\ generated = h.all_tokens \o channel
  <2> DEFINE s == h.all_tokens
             t == h.channel
  <2>1. /\ h.generated = s \o t /\ s \in Seq(Chat!Tokens) /\ t \in Seq(Chat!Tokens)
        /\ h.generated \in Seq(Chat!Tokens)
    BY DEF Handler
  <2> HIDE DEF s, t
  <2>2. generated \in Seq(Chat!Tokens) /\ Append(t, token) \in Seq(Chat!Tokens)
    BY <2>1
  <2>3. Append(s \o t, token) = s \o Append(t, token)
    <3> DEFINE one == <<token>>
               both == s \o t
    <3>1. one \in Seq(Chat!Tokens) /\ both \in Seq(Chat!Tokens)
      BY <2>1
    <3>2. Append(both, token) = both \o one
      <4> HIDE DEF both
      <4> QED BY <3>1, AppendIsConcat
    <3>3. Append(t, token) = t \o one
      BY <2>1, AppendIsConcat
    <3> HIDE DEF one
    <3>4. (s \o t) \o one = s \o (t \o one)
      BY <2>1, <3>1, ConcatAssociative
    <3> QED BY <3>2, <3>3, <3>4
  <2> QED BY <2>1, <2>2, <2>3 DEF s, t
<1> HIDE DEF g, generated, channel, closed
<1>4. /\ g = [f \in ChatFields |-> g[f]]
      /\ g.generated = generated /\ g.channel = channel /\ g.all_tokens = h.all_tokens
      /\ g.events = h.events /\ g.done = h.done /\ g.prompt_tokens = h.prompt_tokens
  BY <1>1, <1>2 DEF ChatFields
<1>5. Handler(tk, p, g)
  BY <1>3, <1>4 DEF Handler
<1> QED BY <1>5 DEF g

LEMMA RequestExpired ==
  ASSUME NEW tk, NEW p, NEW h, Handler(tk, p, h)
  PROVE  Handler(tk, p, Chat!Expired(h))
<1> DEFINE g == Chat!Expired(h)
<1>1. h = [f \in ChatFields |-> h[f]]
  BY DEF Handler
<1>2. g = [h EXCEPT !.closed = TRUE, !.expired = TRUE]
  BY DEF Chat!Expired
<1> HIDE DEF g
<1>3. /\ g = [f \in ChatFields |-> g[f]]
      /\ g.generated = h.generated /\ g.channel = h.channel /\ g.all_tokens = h.all_tokens
      /\ g.events = h.events /\ g.done = h.done /\ g.prompt_tokens = h.prompt_tokens
  BY <1>1, <1>2 DEF ChatFields
<1>4. Handler(tk, p, g)
  BY <1>3 DEF Handler
<1> QED BY <1>4 DEF g

LEMMA TokenReceived ==
  ASSUME NEW tk, NEW p, NEW h, Handler(tk, p, h), ~h.done, h.channel # <<>>
  PROVE  Handler(tk, p, Chat!Received(tk, p, h))
<1> DEFINE g == Chat!Received(tk, p, h)
           token == Head(h.channel)
           all_tokens == Append(h.all_tokens, token)
           channel == Tail(h.channel)
           events == IF p.stream
                       THEN Append(h.events,
                                   [data |-> "delta", content |-> Chat!DeltaContent(tk, all_tokens)])
                       ELSE h.events
<1>1. h = [f \in ChatFields |-> h[f]]
  BY DEF Handler
<1>2. g = [h EXCEPT !.channel = channel, !.all_tokens = all_tokens, !.events = events]
  BY <1>1 DEF Chat!Received, ChatFields
<1>3. /\ all_tokens \in Seq(Chat!Tokens) /\ channel \in Seq(Chat!Tokens)
      /\ h.generated = all_tokens \o channel /\ token \in Chat!Tokens
      /\ h.all_tokens \in Seq(Chat!Tokens)
  <2> DEFINE s == h.all_tokens
             t == h.channel
  <2>1. /\ h.generated = s \o t /\ s \in Seq(Chat!Tokens) /\ t \in Seq(Chat!Tokens) /\ t # <<>>
    BY DEF Handler
  <2> HIDE DEF s, t
  <2>2. Head(t) \in Chat!Tokens /\ Tail(t) \in Seq(Chat!Tokens)
    BY <2>1
  <2>3. Append(s, Head(t)) \in Seq(Chat!Tokens)
    BY <2>1, <2>2
  <2>4. s \o t = Append(s, Head(t)) \o Tail(t)
    BY <2>1
  <2> QED BY <2>1, <2>2, <2>3, <2>4 DEF s, t
<1>4. events = Told(tk, p, all_tokens)
  <2>1. h.events = Told(tk, p, h.all_tokens)
    BY DEF Handler
  <2>2. Deltas(tk, all_tokens) = Append(Deltas(tk, h.all_tokens), Delta(tk, all_tokens))
    <3>1. /\ h.all_tokens \in Seq(Chat!Tokens) /\ token \in Chat!Tokens
      BY <1>3
    <3> HIDE DEF token
    <3> QED BY <3>1, OneMoreDelta
  <2>3. Delta(tk, all_tokens) = [data |-> "delta", content |-> Chat!DeltaContent(tk, all_tokens)]
    BY DEF Delta
  <2> HIDE DEF all_tokens
  <2> QED BY <2>1, <2>2, <2>3 DEF Told
<1> HIDE DEF g, token, all_tokens, channel, events
<1>5. /\ g = [f \in ChatFields |-> g[f]]
      /\ g.generated = h.generated /\ g.channel = channel /\ g.all_tokens = all_tokens
      /\ g.events = events /\ g.done = h.done /\ g.prompt_tokens = h.prompt_tokens
  BY <1>1, <1>2 DEF ChatFields
<1>6. Handler(tk, p, g)
  BY <1>3, <1>4, <1>5 DEF Handler
<1> QED BY <1>6 DEF g

LEMMA AnswerEnded ==
  ASSUME NEW tk, NEW p, NEW h, Handler(tk, p, h), ~h.done, Chat!AtEnd(h)
  PROVE  Handler(tk, p, Chat!Ended(tk, p, h))
<1> DEFINE g == Chat!Ended(tk, p, h)
           end == EndOf(tk, p, h.all_tokens)
           events == Append(h.events, end)
<1>1. h = [f \in ChatFields |-> h[f]] /\ h.channel = <<>>
  BY DEF Handler, Chat!AtEnd
<1>2. g = [h EXCEPT !.done = TRUE, !.events = events]
  BY <1>1 DEF Chat!Ended, EndOf, PromptOf, ChatFields
<1>3. events = Append(Told(tk, p, h.all_tokens), end)
  BY DEF Handler
<1> HIDE DEF g, end, events
<1>4. /\ g = [f \in ChatFields |-> g[f]]
      /\ g.generated = h.generated /\ g.channel = h.channel /\ g.all_tokens = h.all_tokens
      /\ g.events = events /\ g.done = TRUE /\ g.prompt_tokens = h.prompt_tokens
  BY <1>1, <1>2 DEF ChatFields
<1>5. Handler(tk, p, g)
  BY <1>1, <1>3, <1>4 DEF Handler, end
<1> QED BY <1>5 DEF g

LEMMA FrontAndLast ==
  ASSUME NEW S, NEW s \in Seq(S), NEW e \in S
  PROVE  Front(Append(s, e)) = s /\ Last(Append(s, e)) = e
<1> DEFINE t == Append(s, e)
           n == Len(s)
<1>1. /\ n \in Nat /\ t \in Seq(S) /\ Len(t) = n + 1 /\ t[n + 1] = e
      /\ \A i \in 1..n : t[i] = s[i]
  BY AppendProperties
<1>2. Front(t) = SubSeq(t, 1, n)
  <2>1. (n + 1) - 1 = n
    BY <1>1
  <2> HIDE DEF t, n
  <2> QED BY <1>1, <2>1 DEF Front
<1>3. SubSeq(t, 1, n) = [i \in 1..n |-> t[i]]
  <2> HIDE DEF t, n
  <2> QED BY <1>1
<1>4. s = [i \in 1..n |-> s[i]]
  OBVIOUS
<1> HIDE DEF t
<1>5. Front(t) = s
  BY <1>1, <1>2, <1>3, <1>4
<1>6. Last(t) = e
  BY <1>1 DEF Last
<1> QED BY <1>5, <1>6 DEF t

\* What an ended answer has told.
LEMMA AnswerTold ==
  ASSUME NEW tk, NEW p, NEW h, Handler(tk, p, h), h.done
  PROVE  /\ h.generated \in Seq(Chat!Tokens)
         /\ Front(h.events) = Told(tk, p, h.generated)
         /\ Last(h.events) = EndOf(tk, p, h.generated)
         /\ tk.loaded => h.prompt_tokens = PromptOf(tk, p)
<1> DEFINE told == Told(tk, p, h.generated)
           end == EndOf(tk, p, h.generated)
<1>1. h.generated \in Seq(Chat!Tokens) /\ h.generated = h.all_tokens
  <2>1. /\ h.all_tokens \in Seq(Chat!Tokens) /\ h.channel = <<>>
        /\ h.generated = h.all_tokens \o h.channel
    BY DEF Handler
  <2>2. h.all_tokens \o <<>> = h.all_tokens
    BY <2>1
  <2> QED BY <2>1, <2>2
<1>2. h.events = Append(told, end)
  BY <1>1 DEF Handler
<1>3. \E S : told \in Seq(S) /\ end \in S
  <2> DEFINE n == Len(h.generated)
             tokens == h.generated
             D == {Delta(tk, SubSeq(tokens, 1, i)) : i \in 1..n}
             S == D \cup {end}
  <2>1. Deltas(tk, tokens) \in Seq(D)
    <3>1. n \in Nat
      BY <1>1
    <3>2. Deltas(tk, tokens) = [i \in 1..n |-> Delta(tk, SubSeq(tokens, 1, i))]
      BY DEF Deltas
    <3>3. Deltas(tk, tokens) \in [1..n -> D]
      BY <3>2
    <3> HIDE DEF n, D
    <3> QED BY <3>1, <3>3
  <2>2. \A s \in Seq(D) : s \in Seq(S)
    <3> HIDE DEF D, end
    <3> QED OBVIOUS
  <2>3. told \in Seq(S)
    <3>1. <<>> \in Seq(S)
      OBVIOUS
    <3> HIDE DEF S, D
    <3> QED BY <2>1, <2>2, <3>1 DEF Told
  <2>4. end \in S
    OBVIOUS
  <2> HIDE DEF S, told, end
  <2> QED BY <2>3, <2>4
<1> HIDE DEF told, end
<1>4. PICK S : told \in Seq(S) /\ end \in S
  BY <1>3
<1>5. Front(h.events) = told /\ Last(h.events) = end
  BY <1>2, <1>4, FrontAndLast
<1>6. tk.loaded => h.prompt_tokens = PromptOf(tk, p)
  BY DEF Handler
<1> QED BY <1>1, <1>5, <1>6 DEF told, end

\* The deltas of a stream, together.
LEMMA StreamTold ==
  ASSUME NEW tk, NEW tokens \in Seq(Chat!Tokens)
  PROVE  LET said == Deltas(tk, tokens)
             answer == Chat!AnswerContent(tk, tokens)
         IN /\ Len(said) = Len(tokens)
            /\ tk.loaded => (said # <<>> /\ Chat!Decodes(tokens) => Last(said).content = answer)
            /\ ~tk.loaded => FlattenSeq([i \in DOMAIN said |-> said[i].content]) = answer
<1> DEFINE said == Deltas(tk, tokens)
           answer == Chat!AnswerContent(tk, tokens)
           n == Len(tokens)
<1>1. n \in Nat /\ DOMAIN said = 1..n /\ said = [i \in 1..n |-> Delta(tk, SubSeq(tokens, 1, i))]
  BY DEF Deltas
<1>2. Len(said) = n
  <2> HIDE DEF said, n
  <2> QED BY <1>1
<1>3. ASSUME tk.loaded, said # <<>>, Chat!Decodes(tokens) PROVE Last(said).content = answer
  <2>1. n \in 1..n
    <3>1. n # 0
      <4> HIDE DEF n
      <4>1. n = 0 => said = <<>>
        BY <1>1
      <4> QED BY <1>3, <4>1
    <3> QED BY <1>1, <3>1
  <2>2. Last(said) = said[n]
    BY <1>2 DEF Last
  <2>3. said[n] = Delta(tk, SubSeq(tokens, 1, n))
    <3> HIDE DEF said, n
    <3> QED BY <1>1, <2>1
  <2>4. SubSeq(tokens, 1, n) = tokens
    OBVIOUS
  <2>5. Delta(tk, tokens).content = Chat!DeltaContent(tk, tokens)
    BY DEF Delta
  <2>6. Chat!DeltaContent(tk, tokens) = Chat!Words(Chat!Plain(tk, tokens))
    BY <1>3 DEF Chat!DeltaContent
  <2>7. answer = Chat!Words(Chat!Plain(tk, tokens))
    BY <1>3 DEF Chat!AnswerContent
  <2> HIDE DEF said, answer, n
  <2> QED BY <2>2, <2>3, <2>4, <2>5, <2>6, <2>7
<1>4. ASSUME ~tk.loaded PROVE FlattenSeq([i \in DOMAIN said |-> said[i].content]) = answer
  <2>1. FlattenSeq([i \in 1..n |-> said[i].content]) = answer
    BY <1>4, DeltasOfNames
  <2>2. [i \in DOMAIN said |-> said[i].content] = [i \in 1..n |-> said[i].content]
    <3> HIDE DEF said, n
    <3> QED BY <1>1
  <2> HIDE DEF said, answer, n
  <2> QED BY <2>1, <2>2
<1> QED BY <1>2, <1>3, <1>4

\* What a model generates are tokens.
LEMMA KnownTokens == \A tk : Chat!Vocabulary(tk) \subseteq Chat!Tokens
BY DEF Chat!Vocabulary, Chat!Tokens

\* What became of a request that was accepted.
AnswerOK ==
  call.op = "chat" /\ result # NoResult /\ result.ok => Handler(call.tk, call.payload, result)

\* An answer of any length, read at any pace, is told whole: none of its tokens is lost
\* when the engine drops the channel, and none is told twice.
THEOREM WholeAnswers == Spec => []AnswerIsWhole
<1>1. Init => AnswerOK
  BY DEF Init, AnswerOK
<1>2. ASSUME AnswerOK, [Next]_<<call, result>> PROVE AnswerOK'
  <2> SUFFICES ASSUME call.op = "chat", UNCHANGED call, result'.ok,
                      ChatPost \/ ChatGenerate \/ ChatExpire \/ ChatReceive \/ ChatEnd
               PROVE  Handler(call.tk, call.payload, result')
    <3>1. CASE UNCHANGED <<call, result>>
      BY <1>2, <3>1 DEF AnswerOK
    <3>2. CASE Next
      BY <3>2, StepOfCall DEF AnswerOK
    <3> QED BY <1>2, <3>1, <3>2
  <2>1. Answering => Handler(call.tk, call.payload, result) /\ ~result.done
    BY <1>2 DEF AnswerOK, Answering
  <2>2. CASE ChatPost
    BY <2>2, HandlerPosted DEF ChatPost
  <2>3. CASE ChatGenerate
    BY <2>1, <2>3, TokenGenerated, KnownTokens DEF ChatGenerate
  <2>4. CASE ChatExpire
    BY <2>1, <2>4, RequestExpired DEF ChatExpire
  <2>5. CASE ChatReceive
    BY <2>1, <2>5, TokenReceived DEF ChatReceive
  <2>6. CASE ChatEnd
    BY <2>1, <2>6, AnswerEnded DEF ChatEnd
  <2> QED BY <2>2, <2>3, <2>4, <2>5, <2>6
<1>3. AnswerOK => AnswerIsWhole
  <2> SUFFICES ASSUME AnswerOK, call.op = "chat", result # NoResult, result.ok, result.done
               PROVE  AnswerIsWhole
    BY DEF AnswerIsWhole
  <2> DEFINE tk == call.tk
             p == call.payload
             tokens == result.generated
             answer == Chat!AnswerContent(tk, tokens)
             said == Front(result.events)
             end == Last(result.events)
  <2>1. /\ tokens \in Seq(Chat!Tokens) /\ said = Told(tk, p, tokens) /\ end = EndOf(tk, p, tokens)
        /\ tk.loaded => result.prompt_tokens = PromptOf(tk, p)
    BY AnswerTold DEF AnswerOK
  <2>2. ASSUME ~p.stream
        PROVE  /\ said = <<>> /\ end.content = answer /\ end.completion_tokens = Len(tokens)
               /\ tk.loaded => end.prompt_tokens = Len(result.prompt_tokens)
    BY <2>1, <2>2 DEF Told, EndOf
  <2>3. ASSUME p.stream
        PROVE  /\ end.data = "[DONE]" /\ Len(said) = Len(tokens)
               /\ IF tk.loaded
                    THEN said # <<>> /\ Chat!Decodes(tokens) => Last(said).content = answer
                    ELSE FlattenSeq([i \in DOMAIN said |-> said[i].content]) = answer
    <3>1. end.data = "[DONE]" /\ said = Deltas(tk, tokens)
      BY <2>1, <2>3 DEF Told, EndOf
    <3> HIDE DEF said, tokens, answer, end, tk, p
    <3>2. Deltas(tk, tokens) = said
      BY <3>1
    <3>3. /\ Len(said) = Len(tokens)
          /\ tk.loaded => (said # <<>> /\ Chat!Decodes(tokens) => Last(said).content = answer)
          /\ ~tk.loaded => FlattenSeq([i \in DOMAIN said |-> said[i].content]) = answer
      BY <2>1, <3>2, StreamTold DEF answer
    <3> QED BY <3>1, <3>3
  <2> QED BY <2>2, <2>3 DEF AnswerIsWhole
<1> QED BY <1>1, <1>2, <1>3, PTL DEF Spec

-----------------------------------------------------------------------------
(* The tensors of a model                                                  *)

\* What is asked for one linear layer, norm or embedding.
LEMMA TensorsOfModule ==
  ASSUME NEW part, NEW module, NEW in, NEW out, NEW t
  PROVE  /\ t \in Build!Linear(part, module, in, out) =>
              /\ t.name[2] = module /\ t.name[3] \in {"weight", "bias"}
              /\ t.name[3] = "weight" => t.shape = <<out, in>>
         /\ Build!Tensor(part, module, "weight", <<out, in>>) \in Build!Linear(part, module, in, out)
         /\ Build!Tensor(part, module, "bias", <<out>>) \in Build!Linear(part, module, in, out)
         /\ t \in Build!RmsNorm(part, module, in) => t.name[2] = module /\ t.name[3] = "weight"
         /\ t \in Build!Embedding(part, module, in, out) => t.name[2] = module /\ t.name[3] = "weight"
BY DEF Build!Linear, Build!RmsNorm, Build!Embedding, Build!Tensor

LayerAsked(m, layer, size) ==
  Build!Attention(m, layer) \cup Build!MLP(m, layer, size) \cup Build!Norms(m, layer)
QueryShape(m) == <<(m.heads \div m.world_size) * Build!head_dim, Build!Hidden(m)>>

\* What is asked for a decoder layer.
LEMMA TensorsOfLayer ==
  ASSUME NEW m, NEW layer, NEW size, NEW t
  PROVE  /\ t \in LayerAsked(m, layer, size) =>
              /\ t.name[3] = "bias" => t.name[2] \in Linears
              /\ t.name[2] = "q_proj" /\ t.name[3] = "weight" => t.shape = QueryShape(m)
         /\ \A module \in Linears \ {"lm_head"} :
              \E b \in LayerAsked(m, layer, size) : b.name[3] = "bias" /\ b.name[2] = module
         /\ Build!Tensor(layer, "q_proj", "weight", QueryShape(m)) \in LayerAsked(m, layer, size)
<1> DEFINE q_size == (m.heads \div m.world_size) * Build!head_dim
           kv_size == (m.kv_heads \div m.world_size) * Build!head_dim
           H == Build!Hidden(m)
           Q == Build!Linear(layer, "q_proj", H, q_size)
           K == Build!Linear(layer, "k_proj", H, kv_size)
           V == Build!Linear(layer, "v_proj", H, kv_size)
           O == Build!Linear(layer, "o_proj", q_size, H)
           G == Build!Linear(layer, "gate_proj", H, size)
           U == Build!Linear(layer, "up_proj", H, size)
           D == Build!Linear(layer, "down_proj", size, H)
           N == Build!RmsNorm(layer, "input_layernorm", H)
           M == Build!RmsNorm(layer, "post_attention_layernorm", H)
           asked == LayerAsked(m, layer, size)
           shape == QueryShape(m)
<1>1. asked = (Q \cup K \cup V \cup O) \cup (G \cup U \cup D) \cup (N \cup M)
  <2>1. Build!Attention(m, layer) = Q \cup K \cup V \cup O
    BY DEF Build!Attention
  <2>2. Build!MLP(m, layer, size) = G \cup U \cup D
    BY DEF Build!MLP
  <2>3. Build!Norms(m, layer) = N \cup M
    BY DEF Build!Norms
  <2> QED BY <2>1, <2>2, <2>3 DEF LayerAsked
<1>2. Linears = {"q_proj", "k_proj", "v_proj", "o_proj", "gate_proj", "up_proj", "down_proj", "lm_head"}
  BY DEF Linears, Attentions
<1>3. /\ t \in Q => t.name[2] = "q_proj" /\ t.name[3] \in {"weight", "bias"}
                     /\ (t.name[3] = "weight" => t.shape = <<q_size, H>>)
      /\ t \in K => t.name[2] = "k_proj" /\ t.name[3] \in {"weight", "bias"}
      /\ t \in V => t.name[2] = "v_proj" /\ t.name[3] \in {"weight", "bias"}
      /\ t \in O => t.name[2] = "o_proj" /\ t.name[3] \in {"weight", "bias"}
      /\ t \in G => t.name[2] = "gate_proj" /\ t.name[3] \in {"weight", "bias"}
      /\ t \in U => t.name[2] = "up_proj" /\ t.name[3] \in {"weight", "bias"}
      /\ t \in D => t.name[2] = "down_proj" /\ t.name[3] \in {"weight", "bias"}
      /\ t \in N => t.name[2] = "input_layernorm" /\ t.name[3] = "weight"
      /\ t \in M => t.name[2] = "post_attention_layernorm" /\ t.name[3] = "weight"
  <2> HIDE DEF H, q_size, kv_size
  <2>1. \A module, in, out :
          t \in Build!Linear(layer, module, in, out) =>
            /\ t.name[2] = module /\ t.name[3] \in {"weight", "bias"}
            /\ t.name[3] = "weight" => t.shape = <<out, in>>
    <3> TAKE module, in, out
    <3> QED BY DEF Build!Linear, Build!Tensor
  <2>2. \A module, in : t \in Build!RmsNorm(layer, module, in) =>
                          t.name[2] = module /\ t.name[3] = "weight"
    BY TensorsOfModule
  <2>3. t \in Q => t.name[2] = "q_proj" /\ t.name[3] \in {"weight", "bias"}
                   /\ (t.name[3] = "weight" => t.shape = <<q_size, H>>)
    BY <2>1
  <2>4. /\ t \in K => t.name[2] = "k_proj" /\ t.name[3] \in {"weight", "bias"}
        /\ t \in V => t.name[2] = "v_proj" /\ t.name[3] \in {"weight", "bias"}
        /\ t \in O => t.name[2] = "o_proj" /\ t.name[3] \in {"weight", "bias"}
    BY <2>1
  <2>5. /\ t \in G => t.name[2] = "gate_proj" /\ t.name[3] \in {"weight", "bias"}
        /\ t \in U => t.name[2] = "up_proj" /\ t.name[3] \in {"weight", "bias"}
        /\ t \in D => t.name[2] = "down_proj" /\ t.name[3] \in {"weight", "bias"}
    BY <2>1
  <2>6. /\ t \in N => t.name[2] = "input_layernorm" /\ t.name[3] = "weight"
        /\ t \in M => t.name[2] = "post_attention_layernorm" /\ t.name[3] = "weight"
    BY <2>2
  <2> QED BY <2>3, <2>4, <2>5, <2>6
<1>4. /\ Build!Tensor(layer, "q_proj", "bias", <<q_size>>) \in Q
      /\ Build!Tensor(layer, "k_proj", "bias", <<kv_size>>) \in K
      /\ Build!Tensor(layer, "v_proj", "bias", <<kv_size>>) \in V
      /\ Build!Tensor(layer, "o_proj", "bias", <<H>>) \in O
      /\ Build!Tensor(layer, "gate_proj", "bias", <<size>>) \in G
      /\ Build!Tensor(layer, "up_proj", "bias", <<size>>) \in U
      /\ Build!Tensor(layer, "down_proj", "bias", <<H>>) \in D
      /\ Build!Tensor(layer, "q_proj", "weight", <<q_size, H>>) \in Q
  <2> HIDE DEF H, q_size, kv_size
  <2> QED BY TensorsOfModule
<1>5. \A module, dims : LET b == Build!Tensor(layer, module, "bias", dims)
                         IN b.name[3] = "bias" /\ b.name[2] = module
  BY DEF Build!Tensor
<1>6. shape = <<q_size, H>>
  BY DEF QueryShape
<1> HIDE DEF shape, Q, K, V, O, G, U, D, N, M, asked, H, q_size, kv_size
<1>7. t \in asked => /\ t.name[3] = "bias" => t.name[2] \in Linears
                     /\ t.name[2] = "q_proj" /\ t.name[3] = "weight" => t.shape = shape
  BY <1>1, <1>2, <1>3, <1>6
<1>8. ASSUME NEW module \in Linears \ {"lm_head"}
      PROVE  \E b \in asked : b.name[3] = "bias" /\ b.name[2] = module
  <2>1. \A other, dims : /\ Build!Tensor(layer, other, "bias", dims).name[3] = "bias"
                          /\ Build!Tensor(layer, other, "bias", dims).name[2] = other
    BY <1>5
  <2>2. \E dims : Build!Tensor(layer, module, "bias", dims) \in asked
    BY <1>1, <1>2, <1>4
  <2> QED BY <2>1, <2>2
<1>9. Build!Tensor(layer, "q_proj", "weight", shape) \in asked
  BY <1>1, <1>4, <1>6
<1> QED BY <1>7, <1>8, <1>9 DEF asked, shape

\* A model asks for its ends and its layers.
LEMMA AskedByModel ==
  ASSUME NEW m
  PROVE  \E size : Build!Asked(m) = Build!Ends(m) \cup UNION {LayerAsked(m, layer, size) :
                                                           layer \in Build!OwnLayers(m)}
<1>1. CASE m.arch = "Qwen2"
  <2> DEFINE size == Build!intermediate_size
  <2>1. \A layer : Build!Qwen2DecoderLayer(m, layer) = LayerAsked(m, layer, size)
    BY DEF Build!Qwen2DecoderLayer, Build!Qwen2MLP, LayerAsked
  <2>2. Build!Asked(m) = Build!Qwen2Model(m)
    BY <1>1 DEF Build!Asked
  <2>3. Build!Qwen2Model(m) = Build!Ends(m) \cup UNION {Build!Qwen2DecoderLayer(m, layer) :
                                                          layer \in Build!OwnLayers(m)}
    BY DEF Build!Qwen2Model
  <2> HIDE DEF size
  <2>4. {Build!Qwen2DecoderLayer(m, layer) : layer \in Build!OwnLayers(m)}
          = {LayerAsked(m, layer, size) : layer \in Build!OwnLayers(m)}
    BY <2>1
  <2> QED BY <2>2, <2>3, <2>4
<1>2. CASE m.arch # "Qwen2"
  <2> DEFINE size == Build!intermediate_size \div m.world_size
  <2>1. \A layer : Build!LlamaDecoderLayer(m, layer) = LayerAsked(m, layer, size)
    BY DEF Build!LlamaDecoderLayer, Build!LlamaMLP, LayerAsked
  <2>2. Build!Asked(m) = Build!LlamaModel(m)
    BY <1>2 DEF Build!Asked
  <2>3. Build!LlamaModel(m) = Build!Ends(m) \cup UNION {Build!LlamaDecoderLayer(m, layer) :
                                                          layer \in Build!OwnLayers(m)}
    BY DEF Build!LlamaModel
  <2> HIDE DEF size
  <2>4. {Build!LlamaDecoderLayer(m, layer) : layer \in Build!OwnLayers(m)}
          = {LayerAsked(m, layer, size) : layer \in Build!OwnLayers(m)}
    BY <2>1
  <2> QED BY <2>2, <2>3, <2>4
<1> QED BY <1>1, <1>2

\* The ends ask for a bias with the head only.
LEMMA TensorsOfEnds ==
  ASSUME NEW m, NEW t
  PROVE  /\ t \in Build!Ends(m) => /\ t.name[3] = "bias" => t.name[2] = "lm_head"
                                   /\ t.name[2] # "q_proj"
                                   /\ t.name[2] = "lm_head" => m.rank = m.world_size - 1
         /\ m.rank = m.world_size - 1 =>
              \E b \in Build!Ends(m) : b.name[3] = "bias" /\ b.name[2] = "lm_head"
<1> DEFINE H == Build!Hidden(m)
           E == Build!Embedding(<<>>, "embed_tokens", Build!vocab_size, H)
           N == Build!RmsNorm(<<>>, "norm", H)
           L == Build!Linear(<<>>, "lm_head", H, Build!vocab_size)
           first == m.rank = 0
           last == m.rank = m.world_size - 1
<1>1. Build!Ends(m) = (IF first THEN E ELSE {}) \cup (IF last THEN N \cup L ELSE {})
  BY DEF Build!Ends
<1>2. /\ t \in E => t.name[2] = "embed_tokens" /\ t.name[3] = "weight"
      /\ t \in N => t.name[2] = "norm" /\ t.name[3] = "weight"
      /\ t \in L => t.name[2] = "lm_head"
  <2> HIDE DEF H
  <2> QED BY DEF Build!Embedding, Build!RmsNorm, Build!Linear, Build!Tensor
<1>3. \E b \in L : b.name[3] = "bias" /\ b.name[2] = "lm_head"
  <2> DEFINE b == Build!Tensor(<<>>, "lm_head", "bias", <<Build!vocab_size>>)
  <2>1. b \in L
    BY DEF Build!Linear
  <2>2. b.name[3] = "bias" /\ b.name[2] = "lm_head"
    BY DEF Build!Tensor
  <2> HIDE DEF b, L
  <2> QED BY <2>1, <2>2
<1> HIDE DEF H, E, N, L, first, last
<1>4. t \in Build!Ends(m) => /\ t.name[3] = "bias" => t.name[2] = "lm_head"
                             /\ t.name[2] # "q_proj"
                             /\ t.name[2] = "lm_head" => last
  BY <1>1, <1>2
<1>5. last => \E b \in Build!Ends(m) : b.name[3] = "bias" /\ b.name[2] = "lm_head"
  BY <1>1, <1>3
<1> QED BY <1>4, <1>5 DEF last

\* What a model asks for, all in all.
LEMMA TensorsOfModel ==
  ASSUME NEW m
  PROVE  LET asked == Build!Asked(m)
             own == Build!OwnLayers(m)
         IN /\ Build!Ends(m) \subseteq asked /\ (own = {} => asked = Build!Ends(m))
            /\ \A t \in asked : /\ t.name[3] = "bias" => t.name[2] \in Linears
                                /\ t.name[2] = "q_proj" /\ t.name[3] = "weight" =>
                                     t.shape = QueryShape(m)
            /\ \A layer \in own :
                 /\ \A module \in Linears \ {"lm_head"} :
                      \E b \in asked : b.name[3] = "bias" /\ b.name[2] = module
                 /\ Build!Tensor(layer, "q_proj", "weight", QueryShape(m)) \in asked
<1> DEFINE asked == Build!Asked(m)
           own == Build!OwnLayers(m)
           ends == Build!Ends(m)
<1>1. PICK size : asked = ends \cup UNION {LayerAsked(m, layer, size) : layer \in own}
  BY AskedByModel
<1>2. ASSUME NEW layer, NEW t
      PROVE  /\ t \in LayerAsked(m, layer, size) =>
                  /\ t.name[3] = "bias" => t.name[2] \in Linears
                  /\ t.name[2] = "q_proj" /\ t.name[3] = "weight" => t.shape = QueryShape(m)
             /\ \A module \in Linears \ {"lm_head"} :
                  \E b \in LayerAsked(m, layer, size) : b.name[3] = "bias" /\ b.name[2] = module
             /\ Build!Tensor(layer, "q_proj", "weight", QueryShape(m)) \in LayerAsked(m, layer, size)
  BY TensorsOfLayer
<1>3. \A t \in ends : (t.name[3] = "bias" => t.name[2] \in Linears) /\ t.name[2] # "q_proj"
  <2> SUFFICES ASSUME NEW t \in ends
               PROVE  (t.name[3] = "bias" => t.name[2] \in Linears) /\ t.name[2] # "q_proj"
    OBVIOUS
  <2>1. (t.name[3] = "bias" => t.name[2] = "lm_head") /\ t.name[2] # "q_proj"
    BY TensorsOfEnds
  <2>2. "lm_head" \in Linears
    BY DEF Linears
  <2> QED BY <2>1, <2>2
<1> HIDE DEF asked, own, ends
<1>4. ends \subseteq asked /\ (own = {} => asked = ends)
  BY <1>1
<1>5. \A layer \in own : LayerAsked(m, layer, size) \subseteq asked
  BY <1>1
<1>6. \A t \in asked : /\ t.name[3] = "bias" => t.name[2] \in Linears
                       /\ t.name[2] = "q_proj" /\ t.name[3] = "weight" => t.shape = QueryShape(m)
  <2> SUFFICES ASSUME NEW t \in asked
               PROVE  /\ t.name[3] = "bias" => t.name[2] \in Linears
                      /\ t.name[2] = "q_proj" /\ t.name[3] = "weight" => t.shape = QueryShape(m)
    OBVIOUS
  <2>1. CASE t \in ends
    BY <1>3, <2>1
  <2>2. CASE \E layer \in own : t \in LayerAsked(m, layer, size)
    BY <1>2, <2>2
  <2> QED BY <1>1, <2>1, <2>2
<1>7. \A layer \in own :
        /\ \A module \in Linears \ {"lm_head"} :
             \E b \in asked : b.name[3] = "bias" /\ b.name[2] = module
        /\ Build!Tensor(layer, "q_proj", "weight", QueryShape(m)) \in asked
  <2> SUFFICES ASSUME NEW layer \in own
               PROVE  /\ \A module \in Linears \ {"lm_head"} :
                           \E b \in asked : b.name[3] = "bias" /\ b.name[2] = module
                      /\ Build!Tensor(layer, "q_proj", "weight", QueryShape(m)) \in asked
    OBVIOUS
  <2> QED BY <1>2, <1>5
<1> QED BY <1>4, <1>6, <1>7 DEF asked, own, ends

\* A model on one rank: exactly what its checkpoint needs.
LEMMA OneRankBuilds ==
  ASSUME call \in BuildCalls, call.world_size = 1
  PROVE  Build!Builds(call, MCCheckpoint) <=> Linears \subseteq call.biased /\ ~call.tied
<1> DEFINE asked == Build!Asked(call)
<1>1. call.rank = 0 /\ [call EXCEPT !.world_size = 1, !.rank = 0] = call
  <2>1. call.rank \in 0..MaxWorld - 1 /\ call.rank < call.world_size /\ MaxWorld \in Nat
    BY ModelCodeAssumption DEF BuildCalls
  <2>2. call.rank = 0
    BY <2>1
  <2>3. call = [op |-> call.op, arch |-> call.arch, layers |-> call.layers, heads |-> call.heads,
                kv_heads |-> call.kv_heads, world_size |-> call.world_size, rank |-> call.rank,
                biased |-> call.biased, tied |-> call.tied]
    BY DEF BuildCalls
  <2> QED BY <2>2, <2>3
<1>2. MCCheckpoint = {t \in asked : /\ t.name[3] = "bias" => t.name[2] \in call.biased
                                    /\ call.tied => t.name[2] # "lm_head"}
  BY <1>1 DEF MCCheckpoint
<1>3. \A t \in asked : t.name[3] = "bias" => t.name[2] \in Linears
  BY TensorsOfModel
<1>4. \A module \in Linears : \E b \in asked : b.name[3] = "bias" /\ b.name[2] = module
  <2>1. PICK layer : layer \in Build!OwnLayers(call)
    <3> DEFINE stage == Build!Stage(call.rank, call.world_size, call.layers)
               n == call.layers
    <3>1. n \in Nat \ {0}
      BY ModelCodeAssumption DEF BuildCalls
    <3>2. stage.start_layer = 0 /\ stage.end_layer = n
      <4>1. Build!LayersPerGpu(1, n) = n
        BY <3>1 DEF Build!LayersPerGpu
      <4> HIDE DEF n
      <4>2. stage = [start_layer |-> 0 * n, end_layer |-> IF 0 * n + n <= n THEN 0 * n + n ELSE n]
        BY <1>1, <4>1 DEF Build!Stage, n
      <4>3. 0 * n = 0 /\ 0 + n = n
        BY <3>1
      <4> HIDE DEF stage
      <4> QED BY <3>1, <4>2, <4>3
    <3>3. <<0>> \in Build!OwnLayers(call)
      <4>1. 0 \in 0..n - 1
        BY <3>1
      <4>2. Build!OwnLayers(call) = {<<i>> : i \in stage.start_layer..stage.end_layer - 1}
        BY DEF Build!OwnLayers
      <4> HIDE DEF stage, n
      <4> QED BY <3>2, <4>1, <4>2
    <3> QED BY <3>3
  <2>2. \A module \in Linears \ {"lm_head"} :
          \E b \in asked : b.name[3] = "bias" /\ b.name[2] = module
    BY <2>1, TensorsOfModel
  <2>3. \E b \in asked : b.name[3] = "bias" /\ b.name[2] = "lm_head"
    <3>1. call.rank = call.world_size - 1
      BY <1>1
    <3>2. \E b \in Build!Ends(call) : b.name[3] = "bias" /\ b.name[2] = "lm_head"
      BY <3>1, TensorsOfEnds
    <3>3. Build!Ends(call) \subseteq asked
      BY TensorsOfModel
    <3> QED BY <3>2, <3>3
  <2> QED BY <2>2, <2>3
<1>5. "lm_head" \in Linears
  BY DEF Linears
<1>6. Build!Builds(call, MCCheckpoint) <=> asked \subseteq MCCheckpoint
  BY DEF Build!Builds
<1> HIDE DEF asked
<1> QED BY <1>2, <1>3, <1>4, <1>5, <1>6

\* One of several ranks: nothing but the ends.
LEMMA RankBuilds ==
  ASSUME call \in BuildCalls, call.world_size # 1
  PROVE  LET own == Stage(call.rank, call.world_size, call.layers)
         IN Build!Builds(call, MCCheckpoint) <=>
              /\ own.start_layer >= own.end_layer
              /\ call.rank = call.world_size - 1 => "lm_head" \in call.biased /\ ~call.tied
<1> DEFINE stage == Build!Stage(call.rank, call.world_size, call.layers)
           own == Build!OwnLayers(call)
           asked == Build!Asked(call)
           whole == [call EXCEPT !.world_size = 1, !.rank = 0]
           full == Build!Asked(whole)
<1>1. /\ call.world_size \in Nat \ {0, 1} /\ call.rank \in Nat /\ call.heads \in Nat \ {0}
      /\ call.layers \in Nat
  BY ModelCodeAssumption DEF BuildCalls
<1>2. /\ whole.world_size = 1 /\ whole.rank = 0 /\ whole.heads = call.heads
      /\ whole.arch = call.arch /\ whole.layers = call.layers
  BY DEF BuildCalls
<1>3. Stage(call.rank, call.world_size, call.layers) = stage
  BY DEF Stage, Build!Stage, LayersPerGpu, Build!LayersPerGpu
<1>4. Build!Builds(call, MCCheckpoint) <=> asked \subseteq MCCheckpoint
  BY DEF Build!Builds
<1>5. MCCheckpoint = {t \in full : /\ t.name[3] = "bias" => t.name[2] \in call.biased
                                   /\ call.tied => t.name[2] # "lm_head"}
  BY DEF MCCheckpoint
<1>6. stage.start_layer \in Int /\ stage.end_layer \in Int
  <2> DEFINE per == Build!LayersPerGpu(call.world_size, call.layers)
             start == call.rank * per
  <2>1. per \in Int
    <3>1. call.layers + call.world_size - 1 \in Int
      BY <1>1
    <3> QED BY <1>1, <3>1, Division DEF Build!LayersPerGpu
  <2>2. start \in Int
    <3> HIDE DEF per
    <3> QED BY <1>1, <2>1
  <2>3. stage = [start_layer |-> start,
                 end_layer |-> IF start + per <= call.layers THEN start + per ELSE call.layers]
    BY DEF Build!Stage
  <2> HIDE DEF stage, start, per
  <2> QED BY <1>1, <2>1, <2>2, <2>3
<1>7. CASE stage.start_layer < stage.end_layer
  <2> DEFINE layer == <<stage.start_layer>>
             t == Build!Tensor(layer, "q_proj", "weight", QueryShape(call))
  <2>1. layer \in own
    <3>1. stage.start_layer \in stage.start_layer..stage.end_layer - 1
      <4> HIDE DEF stage
      <4> QED BY <1>6, <1>7
    <3> QED BY <3>1 DEF Build!OwnLayers
  <2>2. t \in asked
    <3> HIDE DEF layer
    <3> QED BY <2>1, TensorsOfModel
  <2>3. t \notin full
    <3>1. t.name[2] = "q_proj" /\ t.name[3] = "weight" /\ t.shape = QueryShape(call)
      BY DEF Build!Tensor
    <3>2. \A u \in full : u.name[2] = "q_proj" /\ u.name[3] = "weight" => u.shape = QueryShape(whole)
      <4> HIDE DEF whole
      <4> QED BY TensorsOfModel
    <3>3. QueryShape(call) # QueryShape(whole)
      <4> DEFINE a == call.heads \div call.world_size
                 b == call.heads \div 1
                 ha == Build!Hidden(call)
                 hb == Build!Hidden(whole)
      <4>1. b = call.heads /\ a \in Int /\ a < b
        <5> DEFINE h == call.heads
                   w == call.world_size
        <5>1. h \in Nat \ {0} /\ w \in Nat \ {0, 1}
          BY <1>1
        <5> HIDE DEF h, w
        <5>2. h \div 1 = h
          BY <5>1
        <5>3. /\ h \div w \in Int /\ h % w \in 0..w - 1
              /\ h = w * (h \div w) + (h % w)
          BY <5>1, Division
        <5>4. h \div w < h
          <6> DEFINE q == h \div w
          <6>1. q \in Int /\ w * q <= h
            BY <5>1, <5>3
          <6> HIDE DEF q
          <6>2. SUFFICES ASSUME h <= q PROVE FALSE
            BY <5>1, <6>1 DEF q
          <6>3. 2 * q <= w * q
            BY <5>1, <6>1, <6>2
          <6> QED BY <5>1, <6>1, <6>2, <6>3
        <5> QED BY <5>2, <5>3, <5>4 DEF h, w
      <4>2. a * Build!head_dim # b * Build!head_dim
        <5> HIDE DEF a, b
        <5>1. b \in Int
          BY <1>1, <4>1
        <5> QED BY <4>1, <5>1 DEF Build!head_dim
      <4>3. /\ QueryShape(call) = <<a * Build!head_dim, ha>>
            /\ QueryShape(whole) = <<b * Build!head_dim, hb>>
        <5> HIDE DEF whole
        <5> QED BY <1>2 DEF QueryShape
      <4> HIDE DEF a, b, ha, hb, whole
      <4> QED BY <4>2, <4>3
    <3> HIDE DEF t, full, whole
    <3> QED BY <3>1, <3>2, <3>3
  <2> HIDE DEF t, asked, full
  <2>4. ~(asked \subseteq MCCheckpoint)
    BY <1>5, <2>2, <2>3
  <2>5. ~(stage.start_layer >= stage.end_layer)
    <3> HIDE DEF stage
    <3> QED BY <1>6, <1>7
  <2> QED BY <1>3, <1>4, <2>4, <2>5
<1>8. CASE ~(stage.start_layer < stage.end_layer)
  <2> DEFINE last == call.rank = call.world_size - 1
             ends == Build!Ends(call)
  <2>1. own = {} /\ stage.start_layer >= stage.end_layer
    <3>1. stage.start_layer..stage.end_layer - 1 = {} /\ stage.start_layer >= stage.end_layer
      <4> HIDE DEF stage
      <4> QED BY <1>6, <1>8
    <3> QED BY <3>1 DEF Build!OwnLayers
  <2>2. asked = ends
    BY <2>1, TensorsOfModel
  <2>3. ends \subseteq full
    <3>1. Build!Ends(whole) \subseteq full
      <4> HIDE DEF whole
      <4> QED BY TensorsOfModel
    <3>2. Build!Hidden(whole) = Build!Hidden(call)
      <4> HIDE DEF whole
      <4> QED BY <1>2 DEF Build!Hidden
    <3>3. ends \subseteq Build!Ends(whole)
      <4> HIDE DEF whole
      <4> QED BY <1>2, <3>2 DEF Build!Ends
    <3> HIDE DEF ends, full
    <3> QED BY <3>1, <3>3
  <2>4. /\ \A t \in ends : /\ t.name[3] = "bias" => t.name[2] = "lm_head"
                           /\ t.name[2] = "lm_head" => last
        /\ last => \E b \in ends : b.name[3] = "bias" /\ b.name[2] = "lm_head"
    BY TensorsOfEnds
  <2> HIDE DEF ends, asked, full, last
  <2>5. asked \subseteq MCCheckpoint <=> (last => "lm_head" \in call.biased /\ ~call.tied)
    BY <1>5, <2>2, <2>3, <2>4
  <2> QED BY <1>3, <1>4, <2>1, <2>5 DEF last
<1> QED BY <1>7, <1>8

\* Of models of any number of layers and heads, on any number of ranks.
THEOREM BiasesNeeded == Spec => []OnlyBiasedCheckpointsBuild
<1> DEFINE BuildOK == /\ call.op = "build" /\ result # NoResult =>
                           result.ok <=> Build!Builds(call, MCCheckpoint)
                      /\ call.op = "layer" /\ result # NoResult /\ result.ok => call.shape = <<0>>
<1>1. Init => BuildOK
  BY DEF Init
<1>2. BuildOK /\ [Next]_<<call, result>> => BuildOK'
  <2> SUFFICES ASSUME BuildOK, [Next]_<<call, result>> PROVE BuildOK'
    OBVIOUS
  <2>1. CASE UNCHANGED <<call, result>>
    BY <2>1 DEF MCCheckpoint
  <2>2. CASE Next
    <3>1. UNCHANGED call /\ MCCheckpoint' = MCCheckpoint
      BY <2>2, StepOfCall DEF MCCheckpoint
    <3>2. ASSUME call.op = "build" PROVE result'.ok <=> Build!Builds(call, MCCheckpoint)
      <4> DEFINE builds == Build!Builds(call, MCCheckpoint)
      <4>1. result' = [ok |-> builds]
        BY <2>2, <3>2, StepOfCall DEF BuildModel
      <4>2. builds \in BOOLEAN
        BY DEF Build!Builds
      <4> HIDE DEF builds
      <4>3. result'.ok = builds
        BY <4>1
      <4> QED BY <4>2, <4>3 DEF builds
    <3>3. ASSUME call.op = "layer", result'.ok PROVE call.shape = <<0>>
      <4> DEFINE checkpoint == {Build!Tensor(<<>>, "q_proj", kind, call.shape) : kind \in call.kinds}
                 gptq == Build!GptqLoads(checkpoint, "q_proj")
                 awq == Build!AwqLoads(checkpoint, "q_proj")
      <4>1. result' = [ok |-> IF call.loader = "gptq" THEN gptq ELSE awq]
        BY <2>2, <3>3, StepOfCall DEF LoadQuantizedLayer
      <4>2. gptq \/ awq
        <5> HIDE DEF gptq, awq
        <5> QED BY <3>3, <4>1
      <4>3. \E kind : Build!Tensor(<<>>, "q_proj", kind, <<0>>) \in checkpoint
        <5> HIDE DEF checkpoint
        <5> QED BY <4>2 DEF Build!GptqLoads, Build!AwqLoads, Build!Got
      <4>4. \A kind, other : Build!Tensor(<<>>, "q_proj", kind, <<0>>)
                               = Build!Tensor(<<>>, "q_proj", other, call.shape) => call.shape = <<0>>
        BY DEF Build!Tensor
      <4> QED BY <4>3, <4>4
    <3> QED BY <3>1, <3>2, <3>3
  <2> QED BY <2>1, <2>2
<1>3. CallOK /\ BuildOK => OnlyBiasedCheckpointsBuild
  <2> SUFFICES ASSUME CallOK, BuildOK PROVE OnlyBiasedCheckpointsBuild
    OBVIOUS
  <2>1. ASSUME call.op = "build", result # NoResult
        PROVE  LET own == Stage(call.rank, call.world_size, call.layers)
                   Offers(modules) == modules \subseteq call.biased /\ ~call.tied
               IN result.ok <=>
                    IF call.world_size = 1 THEN Offers(Linears)
                    ELSE /\ own.start_layer >= own.end_layer
                         /\ call.rank = call.world_size - 1 => Offers({"lm_head"})
    <3>1. call \in BuildCalls /\ (result.ok <=> Build!Builds(call, MCCheckpoint))
      BY <2>1 DEF CallOK
    <3>2. CASE call.world_size = 1
      BY <3>1, <3>2, OneRankBuilds
    <3>3. CASE call.world_size # 1
      BY <3>1, <3>3, RankBuilds
    <3> QED BY <3>2, <3>3
  <2>2. call.op = "layer" /\ result # NoResult /\ result.ok => call.shape = <<0>>
    OBVIOUS
  <2> QED BY <2>1, <2>2 DEF OnlyBiasedCheckpointsBuild
<1> QED BY <1>1, <1>2, <1>3, CallsStart, CallsKept, PTL DEF Spec

-----------------------------------------------------------------------------
(* The attention layers                                                    *)

\* From base on, the i-th value of f is what the i-th function makes of the one before.
Iterable(n, S, base, g) == n \in Nat /\ base \in S /\ g \in [1..n -> [S -> S]]
Iterates(f, n, S, base, g) ==
  f \in [0..n -> S] /\ f[0] = base /\ \A i \in 1..n : f[i] = g[i][f[i - 1]]

\* Such a function exists.
LEMMA Iterated ==
  ASSUME NEW n, NEW S, NEW base, NEW g, Iterable(n, S, base, g)
  PROVE  \E f : Iterates(f, n, S, base, g)
<1> USE DEF Iterable
<1> DEFINE Upto(k, f) == f \in [0..k -> S] /\ f[0] = base /\ \A i \in 1..k : f[i] = g[i][f[i - 1]]
           wrong == {k \in 0..n : ~\E f : Upto(k, f)}
<1>1. Upto(0, [i \in 0..0 |-> base])
  OBVIOUS
<1>2. ASSUME NEW k \in 1..n, NEW f, Upto(k - 1, f) PROVE \E h : Upto(k, h)
  <2> DEFINE h == [i \in 0..k |-> IF i = k THEN g[k][f[k - 1]] ELSE f[i]]
  <2>1. k - 1 \in 0..k - 1 /\ k \in Nat /\ \A i \in 0..k : i # k => i \in 0..k - 1
    OBVIOUS
  <2>2. g[k][f[k - 1]] \in S
    BY <1>2, <2>1
  <2>3. h \in [0..k -> S]
    BY <1>2, <2>1, <2>2
  <2>4. h[0] = base
    BY <1>2, <2>1
  <2>5. ASSUME NEW i \in 1..k PROVE h[i] = g[i][h[i - 1]]
    <3>1. i - 1 \in 0..k - 1 /\ i - 1 # k /\ i \in 0..k /\ i - 1 \in 0..k
      BY <2>1
    <3>2. h[i - 1] = f[i - 1]
      BY <3>1
    <3>3. CASE i = k
      BY <3>1, <3>2, <3>3
    <3>4. CASE i # k
      <4>1. i \in 1..k - 1
        BY <2>1, <3>4
      <4> QED BY <1>2, <3>1, <3>2, <3>4, <4>1
    <3> QED BY <3>3, <3>4
  <2> QED BY <2>3, <2>4, <2>5
<1>3. ASSUME wrong # {} PROVE FALSE
  <2>1. wrong \in SUBSET Int /\ IsFiniteSet(wrong)
    <3>1. IsFiniteSet(0..n)
      BY FS_Interval
    <3>2. wrong \in SUBSET (0..n)
      OBVIOUS
    <3> HIDE DEF wrong
    <3>3. IsFiniteSet(wrong)
      BY <3>1, <3>2, FS_Subset
    <3> QED BY <3>2, <3>3
  <2>2. PICK k \in wrong : \A j \in wrong : k <= j
    <3> HIDE DEF wrong
    <3> QED BY <1>3, <2>1, LeastAndGreatest
  <2>3. k \in 0..n /\ ~\E f : Upto(k, f)
    BY <2>2
  <2> HIDE DEF Upto
  <2>4. k # 0
    BY <1>1, <2>3
  <2>5. k \in 1..n /\ k - 1 \in 0..n /\ ~(k <= k - 1)
    BY <2>3, <2>4
  <2>6. \E f : Upto(k - 1, f)
    BY <2>2, <2>5
  <2> QED BY <1>2, <2>3, <2>5, <2>6
<1>4. \E f : Upto(n, f)
  <2>1. n \in 0..n /\ n \notin wrong
    <3>1. n \in 0..n
      OBVIOUS
    <3> HIDE DEF wrong
    <3> QED BY <1>3, <3>1
  <2> HIDE DEF Upto
  <2> QED BY <2>1
<1> QED BY <1>4 DEF Iterates

\* The number of elements of a shape.
LEMMA ElementsOf ==
  /\ Att!Elements(<<>>) = 1
  /\ \A a, b \in Int : Att!Elements(<<a, b>>) = a * b
  /\ \A a, b, c, d \in Int : Att!Elements(<<a, b, c, d>>) = a * b * c * d
<1>1. Att!Elements(<<>>) = 1
  <2> DEFINE Recursive(f) == f = [i \in 0..0 |-> IF i = 0 THEN 1 ELSE f[i - 1] * <<>>[i]]
             n == CHOOSE f : Recursive(f)
  <2>1. Recursive([i \in 0..0 |-> 1])
    OBVIOUS
  <2>2. Recursive(n)
    <3> HIDE DEF Recursive
    <3> QED BY <2>1
  <2>3. n[0] = 1
    <3> HIDE DEF n
    <3> QED BY <2>2
  <2>4. Att!Elements(<<>>) = n[0]
    BY DEF Att!Elements
  <2> HIDE DEF n
  <2> QED BY <2>3, <2>4
<1>2. ASSUME NEW a \in Int, NEW b \in Int PROVE Att!Elements(<<a, b>>) = a * b
  <2> DEFINE s == <<a, b>>
             Recursive(f) == f = [i \in 0..2 |-> IF i = 0 THEN 1 ELSE f[i - 1] * s[i]]
             n == CHOOSE f : Recursive(f)
             ab == a * b
             w == [i \in 0..2 |-> IF i = 0 THEN 1 ELSE IF i = 1 THEN a ELSE ab]
  <2>1. Recursive(w)
    <3>1. s[1] = a /\ s[2] = b /\ 1 * a = a
      OBVIOUS
    <3>2. \A i \in 0..2 : w[i] = IF i = 0 THEN 1 ELSE w[i - 1] * s[i]
      <4>1. w[0] = 1 /\ w[1] = a /\ w[2] = a * b
        OBVIOUS
      <4> HIDE DEF w, s
      <4>2. \A i \in 0..2 : i = 0 \/ i = 1 \/ i = 2
        OBVIOUS
      <4>3. w[1] = w[1 - 1] * s[1] /\ w[2] = w[2 - 1] * s[2]
        BY <3>1, <4>1
      <4> QED BY <4>1, <4>2, <4>3
    <3>3. w = [i \in 0..2 |-> w[i]]
      OBVIOUS
    <3> HIDE DEF w, s
    <3> QED BY <3>2, <3>3
  <2>2. Recursive(n)
    <3> HIDE DEF Recursive
    <3> QED BY <2>1
  <2>3. n[2] = a * b
    <3> HIDE DEF n
    <3>1. n[0] = 1 /\ n[1] = n[0] * s[1] /\ n[2] = n[1] * s[2]
      <4> HIDE DEF s
      <4> QED BY <2>2
    <3> QED BY <3>1
  <2>4. Att!Elements(s) = n[2]
    <3>1. Len(s) = 2
      OBVIOUS
    <3> HIDE DEF s
    <3> QED BY <3>1 DEF Att!Elements
  <2> HIDE DEF n
  <2> QED BY <2>3, <2>4
<1>3. ASSUME NEW a \in Int, NEW b \in Int, NEW c \in Int, NEW d \in Int
      PROVE  Att!Elements(<<a, b, c, d>>) = a * b * c * d
  <2> DEFINE s == <<a, b, c, d>>
             Recursive(f) == f = [i \in 0..4 |-> IF i = 0 THEN 1 ELSE f[i - 1] * s[i]]
             n == CHOOSE f : Recursive(f)
             ab == a * b
             abc == ab * c
             abcd == abc * d
             w == [i \in 0..4 |-> IF i = 0 THEN 1 ELSE IF i = 1 THEN a ELSE IF i = 2 THEN ab
                                  ELSE IF i = 3 THEN abc ELSE abcd]
  <2>1. Recursive(w)
    <3>1. s[1] = a /\ s[2] = b /\ s[3] = c /\ s[4] = d /\ 1 * a = a
      OBVIOUS
    <3>2. \A i \in 0..4 : w[i] = IF i = 0 THEN 1 ELSE w[i - 1] * s[i]
      <4>1. w[0] = 1 /\ w[1] = a /\ w[2] = ab /\ w[3] = abc /\ w[4] = abcd
        <5> HIDE DEF ab, abc, abcd
        <5> QED OBVIOUS
      <4> HIDE DEF w, s
      <4>2. \A i \in 0..4 : i = 0 \/ i = 1 \/ i = 2 \/ i = 3 \/ i = 4
        OBVIOUS
      <4>3. /\ w[1] = w[1 - 1] * s[1] /\ w[2] = w[2 - 1] * s[2]
            /\ w[3] = w[3 - 1] * s[3] /\ w[4] = w[4 - 1] * s[4]
        BY <3>1, <4>1
      <4> QED BY <4>1, <4>2, <4>3
    <3>3. w = [i \in 0..4 |-> w[i]]
      OBVIOUS
    <3> HIDE DEF w, s
    <3> QED BY <3>2, <3>3
  <2>2. Recursive(n)
    <3> HIDE DEF Recursive
    <3> QED BY <2>1
  <2>3. n[4] = a * b * c * d
    <3> HIDE DEF n
    <3>1. /\ n[0] = 1 /\ n[1] = n[0] * s[1] /\ n[2] = n[1] * s[2] /\ n[3] = n[2] * s[3]
          /\ n[4] = n[3] * s[4]
      <4> HIDE DEF s
      <4> QED BY <2>2
    <3>2. n[1] = a
      BY <3>1
    <3>3. n[2] = ab
      BY <3>1, <3>2
    <3>4. n[3] = abc
      BY <3>1, <3>3
    <3> QED BY <3>1, <3>4
  <2>4. Att!Elements(s) = n[4]
    <3>1. Len(s) = 4
      OBVIOUS
    <3> HIDE DEF s
    <3> QED BY <3>1 DEF Att!Elements
  <2> HIDE DEF n
  <2> QED BY <2>3, <2>4
<1> QED BY <1>1, <1>2, <1>3

\* s is the shape (a, b, c, d).
Shape(s, a, b, c, d) == s = <<a, b, c, d>>

\* A dimension is replaced, two are exchanged, the first two are cut off.
LEMMA FourDimensions ==
  ASSUME NEW s, NEW a, NEW b, NEW c, NEW d, Shape(s, a, b, c, d)
  PROVE  /\ Len(s) = 4 /\ s[1] = a /\ s[2] = b /\ s[3] = c /\ s[4] = d
         /\ \A x : Shape([s EXCEPT ![2] = x], a, x, c, d)
         /\ \A x : Shape([s EXCEPT ![4] = x], a, b, c, x)
         /\ Shape(Att!Transpose(s, 3, 4), a, b, d, c)
         /\ SubSeq(s, 1, 2) = <<a, b>>
<1>1. Len(s) = 4 /\ s[1] = a /\ s[2] = b /\ s[3] = c /\ s[4] = d
  BY DEF Shape
<1>2. \A x : Shape([s EXCEPT ![2] = x], a, x, c, d)
  BY DEF Shape
<1>3. \A x : Shape([s EXCEPT ![4] = x], a, b, c, x)
  BY DEF Shape
<1>4. Shape(Att!Transpose(s, 3, 4), a, b, d, c)
  BY DEF Att!Transpose, Shape
<1>5. SubSeq(s, 1, 2) = <<a, b>>
  <2> DEFINE part == SubSeq(s, 1, 2)
             two == <<a, b>>
  <2>1. part = [i \in 1..2 |-> s[i]]
    <3>1. s \in Seq({a, b, c, d})
      BY DEF Shape
    <3> QED BY <1>1, <3>1
  <2>2. two = [i \in 1..2 |-> two[i]] /\ two[1] = a /\ two[2] = b
    OBVIOUS
  <2>3. \A i \in 1..2 : s[i] = two[i]
    <3>1. \A i \in 1..2 : i = 1 \/ i = 2
      OBVIOUS
    <3> HIDE DEF two
    <3> QED BY <1>1, <2>2, <3>1
  <2> HIDE DEF part, two
  <2>4. part = two
    BY <2>1, <2>2, <2>3
  <2> QED BY <2>4 DEF part, two
<1> QED BY <1>1, <1>2, <1>3, <1>4, <1>5

\* A product of two shapes.
LEMMA ProductOf ==
  ASSUME NEW s, NEW t, NEW a, NEW b, NEW c, NEW d, NEW e, NEW f,
         Shape(s, a, b, c, d), Shape(t, a, b, e, f)
  PROVE  IF d = e THEN Shape(Att!Matmul(s, t), a, b, c, f) ELSE Att!Matmul(s, t) = <<>>
<1>1. Len(s) = 4 /\ s[4] = d /\ SubSeq(s, 1, 2) = <<a, b>>
  BY ONLY Shape(s, a, b, c, d), FourDimensions
<1>5. Shape([s EXCEPT ![4] = f], a, b, c, f)
  BY ONLY Shape(s, a, b, c, d), FourDimensions
<1>2. Len(t) = 4 /\ t[3] = e /\ t[4] = f /\ SubSeq(t, 1, 2) = <<a, b>>
  BY ONLY Shape(t, a, b, e, f), FourDimensions
<1>3. Att!Matmul(s, t) =
        IF /\ Len(s) >= 2 /\ Len(t) = Len(s)
           /\ Att!Elements(SubSeq(s, 1, Len(s) - 2)) = Att!Elements(SubSeq(t, 1, Len(s) - 2))
           /\ s[Len(s)] = t[Len(s) - 1]
          THEN [s EXCEPT ![Len(s)] = t[Len(s)]] ELSE <<>>
  BY DEF Att!Matmul, Att!Mismatch
<1>4. 4 - 2 = 2 /\ 4 - 1 = 3 /\ 4 >= 2
  OBVIOUS
<1> QED BY <1>1, <1>2, <1>3, <1>4, <1>5

\* The elements of a shape.
LEMMA ElementsOfFour ==
  ASSUME NEW s, NEW a \in Int, NEW b \in Int, NEW c \in Int, NEW d \in Int, Shape(s, a, b, c, d)
  PROVE  Att!Elements(s) = a * b * c * d
BY ElementsOf DEF Shape

\* The two products give a row per token and head only if there are as many of the former
\* as of the latter.
LEMMA HeadsByTokens ==
  ASSUME NEW m, NEW s \in Nat \ {0}, m.n_heads \in Nat \ {0}, Att!Expanded(m) = m.n_heads
  PROVE  Att!Elements(Att!Output(m, s, s)) = s * m.n_heads * Att!head_dim <=> s = m.n_heads
<1> DEFINE h == m.n_heads
           q == <<1, s, h, 2>>
           scores == Att!Matmul(q, Att!Transpose(q, 3, 4))
           weighed == Att!Narrow(scores, 4, h - s, s)
           values == Att!Narrow(q, 2, s - s, s)
           output == Att!Output(m, s, s)
<1>1. h \in Nat \ {0} /\ s \in Int /\ h \in Int /\ 1 \in Int /\ 2 \in Int
  OBVIOUS
<1>2. Shape(q, 1, s, h, 2) /\ q[3] = h /\ q[2] = s
  BY DEF Shape
<1>3. output = Att!Matmul(weighed, values)
  <2>1. output =
          Att!Matmul(Att!Narrow(Att!Matmul(q, Att!Transpose(q, 3, 4)), 4, q[3] - s, s),
                     Att!Narrow(q, 2, q[2] - s, s))
    BY DEF Att!Output, Att!head_dim
  <2> HIDE DEF q, h
  <2> QED BY <1>2, <2>1
<1> HIDE DEF output, values, weighed, scores, q, h
<1>4. Shape(scores, 1, s, h, h)
  <2>1. Shape(Att!Transpose(q, 3, 4), 1, s, 2, h)
    BY <1>2, FourDimensions
  <2> QED BY <1>2, <2>1, ProductOf DEF scores
<1>5. Shape(values, 1, s, h, 2)
  <2>1. Len(q) = 4 /\ q[2] = s /\ Shape([q EXCEPT ![2] = s], 1, s, h, 2)
    BY <1>2, FourDimensions
  <2>2. s - s = 0 /\ 0 + s = s /\ s <= s /\ 0 >= 0 /\ 4 >= 2
    BY <1>1
  <2> QED BY <2>1, <2>2 DEF Att!Narrow, values
<1>6. IF s <= h THEN Shape(weighed, 1, s, h, s) ELSE weighed = <<>>
  <2>1. Len(scores) = 4 /\ scores[4] = h /\ Shape([scores EXCEPT ![4] = s], 1, s, h, s)
    BY <1>4, FourDimensions
  <2>2. (h - s >= 0 <=> s <= h) /\ (h - s) + s = h /\ h <= h /\ 4 >= 4
    BY <1>1
  <2>3. weighed = IF Len(scores) >= 4 /\ h - s >= 0 /\ (h - s) + s <= scores[4]
                    THEN [scores EXCEPT ![4] = s] ELSE <<>>
    BY DEF Att!Narrow, Att!Mismatch, weighed
  <2> QED BY <2>1, <2>2, <2>3
<1>7. s * h * 2 \in Int /\ s * h * 2 >= 2 /\ 1 * s * h * 2 = s * h * 2
  <2> DEFINE p == s * h
  <2>1. p \in Nat \ {0} /\ 1 * s = s
    BY <1>1
  <2> HIDE DEF p
  <2> QED BY <2>1 DEF p
<1>8. IF s = h THEN Shape(output, 1, s, h, 2) ELSE output = <<>>
  <2>1. CASE s <= h
    <3>1. Shape(weighed, 1, s, h, s)
      BY <1>6, <2>1
    <3> QED BY <1>3, <1>5, <3>1, ProductOf
  <2>2. CASE ~(s <= h)
    <3>1. weighed = <<>> /\ s # h
      BY <1>1, <1>6, <2>2
    <3>2. Att!Matmul(<<>>, values) = <<>>
      <4>1. Len(<<>>) = 0 /\ ~(0 >= 2)
        OBVIOUS
      <4> QED BY <4>1 DEF Att!Matmul, Att!Mismatch
    <3> QED BY <1>3, <3>1, <3>2
  <2> QED BY <2>1, <2>2
<1>9. CASE s = h
  <2>1. Att!Elements(output) = 1 * s * h * 2
    BY <1>1, <1>8, <1>9, ElementsOfFour
  <2> QED BY <1>7, <1>9, <2>1 DEF Att!head_dim, h, output
<1>10. CASE s # h
  <2>1. Att!Elements(<<>>) = 1
    BY ElementsOf
  <2>2. output = <<>>
    BY <1>8, <1>10
  <2>3. s * h * 2 # 1
    <3> DEFINE p == s * h * 2
    <3>1. p \in Int /\ p >= 2
      BY <1>7
    <3> HIDE DEF p
    <3>2. p # 1
      BY <3>1
    <3> QED BY <3>2 DEF p
  <2> QED BY <1>10, <2>1, <2>2, <2>3 DEF Att!head_dim, h, output
<1> QED BY <1>9, <1>10 DEF h

CacheEntry == [layer : Nat, pos : Nat]

\* What a layer appends for s tokens at position 0.
Written(layer, s) == [i \in 1..s |-> [layer |-> layer, pos |-> i - 1]]

\* A model whose heads share their KV heads evenly.
ModelOK(m) ==
  /\ m.n_heads \in Nat \ {0} /\ m.n_kv_heads \in Nat \ {0} /\ m.num_layers \in Nat \ {0}
  /\ m.n_heads % m.n_kv_heads = 0

\* A layer in F32 appends its entries, and goes on with n_heads tokens that have nothing
\* cached before them if they are but one; in another dtype it fails at once.
LEMMA LayerComputed ==
  ASSUME NEW m, ModelOK(m), NEW layer \in Nat, NEW s \in Nat \ {0}, NEW cache \in Seq(CacheEntry)
  PROVE  Att!AttentionForward(m, layer, s, 0, cache) =
           IF m.dtype = "F32"
             THEN [ok |-> s = m.n_heads /\ ~(s = 1 /\ cache # <<>>),
                   cache |-> cache \o Written(layer, s)]
             ELSE [ok |-> FALSE, cache |-> cache]
<1> DEFINE h == m.n_heads
           appended == cache \o Written(layer, s)
           context == Att!ContextLen(s, appended)
           fits == Att!Elements(Att!Output(m, s, context)) = s * h * Att!head_dim
           ok == (Att!UsesCache(s, appended) => m.dtype = "F16") /\ fits
           okay == s = h /\ ~(s = 1 /\ cache # <<>>)
<1>1. Att!AppendKV(cache, layer, Att!Positions(0, s, cache)) = appended
  <2>1. Att!Positions(0, s, cache) = [i \in 1..s |-> i - 1]
    BY DEF Att!Positions
  <2> QED BY <2>1 DEF Att!AppendKV, Written
<1>2. Att!AttentionForward(m, layer, s, 0, cache) =
        IF m.dtype # "F32" THEN [ok |-> FALSE, cache |-> cache]
                           ELSE [ok |-> ok, cache |-> appended]
  <2> HIDE DEF appended
  <2> QED BY <1>1 DEF Att!AttentionForward
<1>3. Len(appended) = Len(cache) + s /\ Len(cache) \in Nat /\ (cache # <<>> <=> Len(cache) # 0)
  <2>1. Written(layer, s) \in Seq(CacheEntry) /\ Len(Written(layer, s)) = s
    BY DEF Written, CacheEntry
  <2> QED BY <2>1
<1>4. Att!Expanded(m) = h
  <2>1. h \in Nat \ {0} /\ m.n_kv_heads \in Nat \ {0} /\ h % m.n_kv_heads = 0
    BY DEF ModelOK
  <2>2. h = m.n_kv_heads * (h \div m.n_kv_heads) + (h % m.n_kv_heads) /\ h \div m.n_kv_heads \in Int
    <3> DEFINE b == m.n_kv_heads
    <3> HIDE DEF h, b
    <3>1. h \in Int /\ b \in Nat \ {0}
      BY <2>1 DEF b
    <3>2. h = b * (h \div b) + (h % b) /\ h \div b \in Int
      BY <3>1, Division
    <3> QED BY <3>2 DEF b
  <2> DEFINE p == m.n_kv_heads * (h \div m.n_kv_heads)
             d == h \div m.n_kv_heads
  <2>3. p \in Int /\ h = p + 0
    <3>1. p = m.n_kv_heads * d /\ d \in Int /\ m.n_kv_heads \in Int
      BY <2>1, <2>2
    <3>2. h = p + (h % m.n_kv_heads)
      BY <2>2
    <3> HIDE DEF d
    <3>3. p \in Int
      BY <3>1
    <3> HIDE DEF p
    <3> QED BY <2>1, <3>2, <3>3
  <2> HIDE DEF p, h
  <2>4. h = p
    BY <2>3
  <2> QED BY <2>4 DEF Att!Expanded, p, h
<1>5. Att!UsesCache(s, appended) <=> s = 1 /\ cache # <<>>
  <2> HIDE DEF appended
  <2> QED BY <1>3 DEF Att!UsesCache
<1>6. m.dtype = "F32" => ok = okay
  <2>1. ~Att!UsesCache(s, appended) => context = s
    BY DEF Att!ContextLen
  <2>2. Att!Elements(Att!Output(m, s, s)) = s * m.n_heads * Att!head_dim <=> s = m.n_heads
    BY <1>4, HeadsByTokens DEF ModelOK
  <2>3. ~Att!UsesCache(s, appended) => (fits <=> s = h)
    <3> HIDE DEF context, appended
    <3> QED BY <2>1, <2>2
  <2> HIDE DEF fits, h, appended, context
  <2>4. "F32" # "F16"
    OBVIOUS
  <2>5. CASE Att!UsesCache(s, appended) /\ m.dtype = "F32"
    <3>1. ~ok /\ ~okay
      BY <1>5, <2>4, <2>5
    <3> QED BY <3>1
  <2>6. CASE ~Att!UsesCache(s, appended)
    <3>1. ok <=> okay
      BY <1>5, <2>3, <2>6
    <3> QED BY <3>1
  <2> QED BY <2>5, <2>6
<1> HIDE DEF ok
<1> QED BY <1>2, <1>6

\* The cache holds q inputs' worth of one layer after another, each from position 0 on.
InOrder(m, cache, q) ==
  /\ cache \in Seq(CacheEntry)
  /\ Len(cache) = q * m.n_heads
  /\ \A k \in 1..q * m.n_heads :
       cache[k] = [layer |-> (((k - 1) \div m.n_heads) % m.num_layers) + 1,
                   pos |-> (k - 1) % m.n_heads]

\* The next layer keeps the order.
LEMMA LayerAppended ==
  ASSUME NEW m, ModelOK(m), NEW q \in Nat, NEW cache, InOrder(m, cache, q),
         NEW layer \in Nat, q % m.num_layers = layer - 1
  PROVE  InOrder(m, cache \o Written(layer, m.n_heads), q + 1)
<1> DEFINE h == m.n_heads
           L == m.num_layers
           t == Written(layer, h)
           u == cache \o t
           n == q * h
           EntryAt(k) == [layer |-> (((k - 1) \div h) % L) + 1, pos |-> (k - 1) % h]
<1>1. h \in Nat \ {0} /\ L \in Nat \ {0}
  BY DEF ModelOK
<1>2. n \in Nat /\ (q + 1) * h = n + h
  <2> HIDE DEF h
  <2> QED BY <1>1, QuotientRemainder, Multiples
<1>3. t \in Seq(CacheEntry) /\ Len(t) = h /\ \A i \in 1..h : t[i] = [layer |-> layer, pos |-> i - 1]
  <2>1. \A i \in 1..h : [layer |-> layer, pos |-> i - 1] \in CacheEntry
    <3> HIDE DEF h
    <3>1. \A i \in 1..h : i - 1 \in Nat
      BY <1>1
    <3> QED BY <3>1 DEF CacheEntry
  <2> HIDE DEF h
  <2> QED BY <1>1, <2>1 DEF Written
<1>4. cache \in Seq(CacheEntry) /\ Len(cache) = n /\ \A k \in 1..n : cache[k] = EntryAt(k)
  BY DEF InOrder
<1> HIDE DEF t
<1>5. u \in Seq(CacheEntry) /\ Len(u) = n + h
  <2> HIDE DEF h, n
  <2> QED BY <1>3, <1>4, ConcatProperties
<1>6. ASSUME NEW k \in 1..n + h PROVE u[k] = EntryAt(k)
  <2>1. CASE k <= n
    <3>1. k \in 1..n /\ k \in 1..Len(cache)
      BY <1>2, <1>4, <2>1
    <3>2. u[k] = cache[k]
      <4> HIDE DEF n
      <4> QED BY <1>3, <1>4, <3>1
    <3> HIDE DEF u, n, EntryAt
    <3> QED BY <1>4, <3>1, <3>2
  <2>2. CASE k > n
    <3> DEFINE j == k - n - 1
    <3>1. j \in 0..h - 1 /\ k - 1 = n + j /\ k - n \in 1..h /\ (k - n) - 1 = j /\ k \in 1..Len(cache) + Len(t)
      <4> HIDE DEF n
      <4> QED BY <1>1, <1>2, <1>3, <1>4, <2>2
    <3>2. (k - 1) \div h = q /\ (k - 1) % h = j
      <4> HIDE DEF h, j
      <4>1. (q * h + j) \div h = q /\ (q * h + j) % h = j
        BY <1>1, <3>1, QuotientRemainder
      <4> QED BY <3>1, <4>1
    <3>3. u[k] = t[k - n]
      <4>1. /\ \A i \in 1..Len(cache) + Len(t) :
                 u[i] = IF i <= Len(cache) THEN cache[i] ELSE t[i - Len(cache)]
        BY <1>3, <1>4, ConcatProperties
      <4>2. ~(k <= Len(cache)) /\ k - Len(cache) = k - n
        <5> HIDE DEF n
        <5> QED BY <1>2, <1>4, <2>2
      <4> HIDE DEF u, n
      <4> QED BY <3>1, <4>1, <4>2
    <3>4. t[k - n] = [layer |-> layer, pos |-> j]
      <4> HIDE DEF n, j
      <4> QED BY <1>3, <3>1
    <3>5. (q % L) + 1 = layer
      <4>1. q % L = layer - 1
        OBVIOUS
      <4> QED BY <4>1
    <3> HIDE DEF j, n, u
    <3> QED BY <3>2, <3>3, <3>4, <3>5
  <2> HIDE DEF u, EntryAt, n
  <2> QED BY <1>2, <2>1, <2>2
<1> HIDE DEF u
<1> QED BY <1>2, <1>5, <1>6 DEF InOrder, u, t

\* The layers, one after the other, go on to the end with n_heads tokens in F32, but one
\* token behind another fails, be it the cache's or that of the layer before.
LEMMA LayersRun ==
  ASSUME NEW m, ModelOK(m), NEW s \in Nat \ {0}, NEW cache, NEW q \in Nat,
         InOrder(m, cache, q * m.num_layers)
  PROVE  LET out == Att!ModelForward(m, s, 0, cache)
         IN /\ out \in [ok : BOOLEAN, cache : Seq(CacheEntry)]
            /\ out.ok <=> /\ m.dtype = "F32" /\ s = m.n_heads
                          /\ ~(s = 1 /\ (q # 0 \/ m.num_layers # 1))
            /\ out.ok => InOrder(m, out.cache, (q + 1) * m.num_layers)
            /\ m.dtype # "F32" => out.cache = cache
<1> DEFINE L == m.num_layers
           h == m.n_heads
           S == [ok : BOOLEAN, cache : Seq(CacheEntry)]
           base == [ok |-> TRUE, cache |-> cache]
           Forward(i, x) == IF x.ok THEN Att!AttentionForward(m, i, s, 0, x.cache) ELSE x
           g == [i \in 1..L |-> [x \in S |-> Forward(i, x)]]
           Recursive(f) == f = [layer \in 0..L |-> IF layer = 0 THEN base ELSE Forward(layer, f[layer - 1])]
           run == CHOOSE f : Recursive(f)
           sound(l) == m.dtype = "F32" /\ s = h /\ ~(s = 1 /\ (q # 0 \/ l >= 2))
           Good(l) == /\ run[l] \in S
                      /\ run[l].ok <=> l = 0 \/ sound(l)
                      /\ run[l].ok => InOrder(m, run[l].cache, q * L + l)
                      /\ m.dtype # "F32" => run[l].cache = cache
           wrong == {l \in 0..L : ~Good(l)}
<1>1. L \in Nat \ {0} /\ h \in Nat \ {0} /\ cache \in Seq(CacheEntry)
  BY DEF ModelOK, InOrder
<1>2. ASSUME NEW i \in 1..L, NEW x \in S
      PROVE  /\ Forward(i, x) \in S
             /\ x.ok /\ m.dtype = "F32" =>
                  Forward(i, x) = [ok |-> s = h /\ ~(s = 1 /\ x.cache # <<>>),
                                   cache |-> x.cache \o Written(i, s)]
             /\ x.ok /\ m.dtype # "F32" => Forward(i, x) = [ok |-> FALSE, cache |-> x.cache]
  <2> DEFINE c == x.cache
             okay == s = h /\ ~(s = 1 /\ c # <<>>)
             w == Written(i, s)
  <2>1. c \in Seq(CacheEntry) /\ i \in Nat /\ x.ok \in BOOLEAN
    BY <1>1
  <2>2. Att!AttentionForward(m, i, s, 0, c) =
          IF m.dtype = "F32" THEN [ok |-> okay, cache |-> c \o w] ELSE [ok |-> FALSE, cache |-> c]
    <3> HIDE DEF c
    <3> QED BY <2>1, LayerComputed
  <2>3. w \in Seq(CacheEntry)
    <3>1. \A j \in 1..s : j - 1 \in Nat /\ [layer |-> i, pos |-> j - 1] \in CacheEntry
      BY <2>1 DEF CacheEntry
    <3> QED BY <3>1 DEF Written
  <2>4. okay \in BOOLEAN /\ c \o w \in Seq(CacheEntry)
    <3>1. okay \in BOOLEAN
      OBVIOUS
    <3> HIDE DEF c, w, okay
    <3> QED BY <2>1, <2>3, <3>1, ConcatProperties
  <2> HIDE DEF okay, w
  <2>5. [ok |-> okay, cache |-> c \o w] \in S /\ [ok |-> FALSE, cache |-> c] \in S
    <3> HIDE DEF c
    <3> QED BY <2>1, <2>4
  <2>6. CASE x.ok
    <3>1. Forward(i, x) = Att!AttentionForward(m, i, s, 0, c)
      BY <2>6
    <3> HIDE DEF S, Forward
    <3> QED BY <2>2, <2>5, <2>6, <3>1 DEF okay, w
  <2>7. CASE ~x.ok
    BY <2>7
  <2> QED BY <2>6, <2>7
<1>3. Recursive(run)
  <2>1. base \in S
    BY <1>1
  <2>2. g \in [1..L -> [S -> S]]
    <3> HIDE DEF S, Forward
    <3> QED BY <1>2
  <2> HIDE DEF base, S
  <2>3. PICK f : Iterates(f, L, S, base, g)
    <3> HIDE DEF g, L
    <3>1. Iterable(L, S, base, g)
      BY <1>1, <2>1, <2>2 DEF Iterable
    <3> QED BY <3>1, Iterated
  <2>4. \A i \in 1..L : f[i] = Forward(i, f[i - 1])
    <3>1. \A i \in 1..L : i - 1 \in 0..L
      BY <1>1
    <3> HIDE DEF Forward, L
    <3> QED BY <2>3, <3>1 DEF Iterates
  <2>5. f = [layer \in 0..L |-> IF layer = 0 THEN base ELSE Forward(layer, f[layer - 1])]
    <3>1. \A i \in 0..L : i = 0 \/ i \in 1..L
      BY <1>1
    <3>2. f = [i \in 0..L |-> f[i]]
      BY <2>3 DEF Iterates
    <3> HIDE DEF Forward, L
    <3>3. \A i \in 0..L : f[i] = IF i = 0 THEN base ELSE Forward(i, f[i - 1])
      <4>1. 0 \notin 1..L
        BY <1>1
      <4> QED BY <2>3, <2>4, <3>1, <4>1 DEF Iterates
    <3> QED BY <3>2, <3>3
  <2>6. Recursive(f)
    BY <2>5
  <2> HIDE DEF Recursive
  <2> QED BY <2>6
<1>4. run[0] = base /\ \A l \in 1..L : run[l] = Forward(l, run[l - 1])
  <2>1. 0 \in 0..L /\ \A l \in 1..L : l \in 0..L /\ l # 0
    BY <1>1
  <2> HIDE DEF run, Forward, base, L
  <2> QED BY <1>3, <2>1
<1> HIDE DEF run
<1>5. Good(0)
  <2> DEFINE first == run[0]
  <2>1. first = base /\ base \in S /\ base.ok /\ base.cache = cache
    BY <1>1, <1>4
  <2>2. InOrder(m, cache, q * L + 0)
    <3> DEFINE n == q * L
    <3>1. n \in Nat /\ n = n + 0
      <4>1. n \in Nat
        <5> HIDE DEF L
        <5> QED BY <1>1, QuotientRemainder
      <4> HIDE DEF n
      <4> QED BY <4>1
    <3>2. InOrder(m, cache, n)
      OBVIOUS
    <3> HIDE DEF n
    <3>3. InOrder(m, cache, n + 0)
      BY <3>1, <3>2
    <3> QED BY <3>3 DEF n
  <2> HIDE DEF base, S, L
  <2> QED BY <2>1, <2>2
<1>6. ASSUME NEW l \in 1..L, Good(l - 1) PROVE Good(l)
  <2> DEFINE x == run[l - 1]
             y == run[l]
             c == x.cache
             n == q * L + (l - 1)
  <2>1. y = Forward(l, x) /\ x \in S /\ l \in Nat \ {0} /\ l # 0
    <3> HIDE DEF Forward, S
    <3> QED BY <1>1, <1>4, <1>6
  <2>2. /\ n \in Nat /\ n % L = l - 1 /\ q * L + l = n + 1
        /\ n = 0 <=> q = 0 /\ l = 1
    <3> DEFINE p == q * L
    <3>1. l - 1 \in 0..L - 1
      BY <1>1
    <3>2. p \in Nat /\ n \in Nat /\ n % L = l - 1
      <4> HIDE DEF L
      <4> QED BY <1>1, <3>1, QuotientRemainder
    <3>3. p = 0 <=> q = 0
      <4>1. q = 0 => p = 0
        BY <1>1
      <4>2. q # 0 => p # 0
        <5>1. q # 0 => 1 <= q
          OBVIOUS
        <5>2. q # 0 => 1 * L <= p
          <6> HIDE DEF L
          <6> QED BY <1>1, <5>1, Multiples
        <5>3. 1 * L = L
          BY <1>1
        <5> HIDE DEF p, L
        <5> QED BY <1>1, <3>2, <5>2, <5>3
      <4> QED BY <4>1, <4>2
    <3>4. p + (l - 1) + 1 = p + l
      <4> HIDE DEF p
      <4> QED BY <2>1, <3>2
    <3>5. p + (l - 1) = 0 <=> p = 0 /\ l = 1
      <4> HIDE DEF p
      <4> QED BY <2>1, <3>2
    <3> QED BY <3>2, <3>3, <3>4, <3>5
  <2>3. x.ok => InOrder(m, c, n) /\ c \in Seq(CacheEntry) /\ (c = <<>> <=> n = 0)
    <3>1. x.ok => InOrder(m, c, n)
      <4> HIDE DEF S, L, Forward
      <4> QED BY <1>6
    <3>2. x.ok => c \in Seq(CacheEntry) /\ Len(c) = n * h
      BY <3>1 DEF InOrder
    <3>3. n * h = 0 <=> n = 0
      <4>1. n = 0 => n * h = 0
        BY <1>1
      <4>2. n # 0 => n * h # 0
        <5> HIDE DEF n, h
        <5>1. n # 0 => 1 <= n
          BY <2>2
        <5>2. n # 0 => 1 * h <= n * h
          BY <1>1, <2>2, <5>1, Multiples
        <5> DEFINE nh == n * h
        <5>3. 1 * h = h /\ nh \in Nat
          BY <1>1, <2>2, QuotientRemainder
        <5> HIDE DEF nh
        <5> QED BY <1>1, <5>2, <5>3 DEF nh
      <4> QED BY <4>1, <4>2
    <3>4. c \in Seq(CacheEntry) => (c = <<>> <=> Len(c) = 0)
      OBVIOUS
    <3> HIDE DEF c, n, h
    <3> QED BY <3>1, <3>2, <3>3, <3>4
  <2>4. CASE ~x.ok
    <3>1. y = x
      BY <2>1, <2>4
    <3>2. l - 1 # 0 /\ ~sound(l - 1)
      <4> HIDE DEF S, L, Forward
      <4> QED BY <1>6, <2>4
    <3>3. ~sound(l)
      BY <2>1, <3>2
    <3>4. m.dtype # "F32" => c = cache
      <4> HIDE DEF S, L, Forward
      <4> QED BY <1>6
    <3> HIDE DEF S, L, Forward, x
    <3>5. y \in S /\ ~y.ok /\ (m.dtype # "F32" => y.cache = cache)
      BY <2>1, <2>4, <3>1, <3>4 DEF x
    <3> QED BY <2>1, <3>3, <3>5
  <2>5. CASE x.ok /\ m.dtype = "F32"
    <3>1. y = [ok |-> s = h /\ ~(s = 1 /\ c # <<>>), cache |-> c \o Written(l, s)] /\ y \in S
      <4> HIDE DEF S, Forward, L, h
      <4> QED BY <1>2, <2>1, <2>5
    <3>2. y.ok <=> s = h /\ ~(s = 1 /\ c # <<>>)
      <4> DEFINE okay == s = h /\ ~(s = 1 /\ c # <<>>)
                 after == c \o Written(l, s)
      <4>1. y = [ok |-> okay, cache |-> after]
        BY <3>1
      <4> HIDE DEF okay, after, y
      <4>2. y.ok = okay
        BY <4>1
      <4> QED BY <4>2 DEF okay
    <3>3. y.ok <=> sound(l)
      <4>1. c = <<>> <=> n = 0
        <5> HIDE DEF n, c
        <5> QED BY <2>3, <2>5
      <4>2. c # <<>> <=> (q # 0 \/ l >= 2)
        <5> HIDE DEF n, c
        <5> QED BY <2>1, <2>2, <4>1
      <4> HIDE DEF y, c
      <4> QED BY <2>5, <3>2, <4>2
    <3>4. y.ok => InOrder(m, y.cache, q * L + l)
      <4>1. y.cache = c \o Written(l, s)
        BY <3>1
      <4>2. InOrder(m, c, n) /\ l \in Nat
        <5> HIDE DEF n, c
        <5> QED BY <2>1, <2>3, <2>5
      <4>3. InOrder(m, c \o Written(l, h), n + 1)
        <5> HIDE DEF n, c
        <5> QED BY <2>2, <4>2, LayerAppended
      <4> HIDE DEF y, n, c
      <4> QED BY <2>2, <3>2, <4>1, <4>3
    <3> HIDE DEF S, L, y
    <3>5. y \in S /\ (y.ok <=> l = 0 \/ sound(l)) /\ (m.dtype # "F32" => y.cache = cache)
      BY <2>1, <2>5, <3>1, <3>3
    <3> QED BY <3>4, <3>5 DEF y
  <2>6. CASE x.ok /\ m.dtype # "F32"
    <3>1. y = [ok |-> FALSE, cache |-> c] /\ y \in S
      <4> HIDE DEF S, Forward, L, h
      <4> QED BY <1>2, <2>1, <2>6
    <3>2. c = cache
      <4> HIDE DEF S, Forward, L, h
      <4> QED BY <1>6, <2>6
    <3>3. ~y.ok /\ y.cache = cache /\ ~sound(l)
      BY <2>6, <3>1, <3>2
    <3> HIDE DEF S, L, y
    <3> QED BY <2>1, <3>1, <3>3 DEF y
  <2> QED BY <2>4, <2>5, <2>6
<1>7. Good(L)
  <2>1. wrong \in SUBSET Int /\ IsFiniteSet(wrong)
    <3>1. IsFiniteSet(0..L) /\ 0..L \in SUBSET Int
      <4> HIDE DEF L
      <4> QED BY <1>1, FS_Interval
    <3>2. wrong \in SUBSET (0..L)
      OBVIOUS
    <3> HIDE DEF wrong, L
    <3>3. IsFiniteSet(wrong)
      BY <3>1, <3>2, FS_Subset
    <3> QED BY <3>1, <3>2, <3>3
  <2>2. ASSUME wrong # {} PROVE FALSE
    <3>1. PICK k \in wrong : \A j \in wrong : k <= j
      <4> HIDE DEF wrong
      <4> QED BY <2>1, <2>2, LeastAndGreatest
    <3>2. k \in 0..L /\ ~Good(k)
      BY <3>1
    <3> HIDE DEF Good
    <3>3. k # 0
      BY <1>5, <3>2
    <3> HIDE DEF L
    <3>4. k \in 1..L /\ k - 1 \in 0..L /\ ~(k <= k - 1)
      BY <1>1, <3>2, <3>3
    <3>5. Good(k - 1)
      BY <3>1, <3>4
    <3> QED BY <1>6, <3>2, <3>4, <3>5
  <2>3. L \in 0..L
    BY <1>1
  <2> HIDE DEF Good, L
  <2> QED BY <2>2, <2>3
<1>8. Att!ModelForward(m, s, 0, cache) = run[L]
  <2> DEFINE first == [ok |-> TRUE, cache |-> cache]
  <2> HIDE DEF first
  <2> QED BY DEF Att!ModelForward, run
<1>9. sound(L) <=> m.dtype = "F32" /\ s = h /\ ~(s = 1 /\ (q # 0 \/ L # 1))
  <2>1. L >= 2 <=> L # 1
    <3> HIDE DEF L
    <3> QED BY <1>1
  <2> QED BY <2>1
<1>10. (q + 1) * L = q * L + L
  <2> HIDE DEF L
  <2> QED BY <1>1, Multiples
<1> DEFINE out == run[L]
<1>11. /\ out \in S /\ (out.ok <=> sound(L)) /\ (out.ok => InOrder(m, out.cache, (q + 1) * L))
       /\ m.dtype # "F32" => out.cache = cache
  <2>1. L # 0
    BY <1>1
  <2> HIDE DEF S, L
  <2> QED BY <1>7, <1>10, <2>1
<1> HIDE DEF out
<1> QED BY <1>8, <1>9, <1>11 DEF out

\* Whatever the start of an input and the family of the model, it is the layers from position 0.
LEMMA ForwardServed ==
  \A m, s, start, cache : Att!ServedForward(m, s, start, cache) = Att!ModelForward(m, s, 0, cache)
BY DEF Att!ServedForward, Att!Forward, Att!Index, Att!Qwen2Forward, Att!Qwen2AttentionForward,
       Att!ModelForward

\* What the inputs served so far have made of the cache.
LayersOK ==
  call.op = "serve" /\ result # NoResult =>
    /\ result \in [ok : BOOLEAN, cache : Seq(CacheEntry), served : 1..MaxInputs]
    /\ result.ok <=> /\ call.dtype = "F32"
                     /\ \A i \in 1..result.served : call.inputs[i] = call.n_heads
                     /\ call.n_heads = 1 => result.served = 1 /\ call.num_layers = 1
    /\ result.ok => InOrder(call, result.cache, result.served * call.num_layers)
    /\ call.dtype # "F32" => result.cache = <<>>

LEMMA InputServed ==
  ASSUME CallOK, LayersOK, call.op = "serve", Serve PROVE LayersOK'
<1> DEFINE now == IF result = NoResult THEN [ok |-> TRUE, cache |-> <<>>, served |-> 0] ELSE result
           n == now.served
           L == call.num_layers
           h == call.n_heads
           s == call.inputs[n + 1]
           start == SumFunctionOnSet(call.inputs, 1..n)
           out == Att!ServedForward(call, s, start, now.cache)
           Whole(k) == /\ call.dtype = "F32"
                       /\ \A i \in 1..k : call.inputs[i] = h
                       /\ h = 1 => k = 1 /\ L = 1
<1>1. /\ now.ok /\ n < Len(call.inputs) /\ UNCHANGED call
      /\ result' = [ok |-> out.ok, cache |-> out.cache, served |-> n + 1]
  BY DEF Serve
<1>2. /\ ModelOK(call) /\ call.inputs \in [1..MaxInputs -> 1..MaxHeads] /\ MaxInputs \in Nat
      /\ MaxHeads \in Nat /\ call.dtype \in {"F16", "F32"}
  <2>1. MaxInputs \in Nat /\ MaxHeads \in Nat /\ MaxLayers \in Nat
    BY ModelCodeAssumption
  <2>2. call \in ServeCalls
    BY DEF CallOK
  <2>3. call.inputs \in [1..MaxInputs -> 1..MaxHeads] /\ call.dtype \in {"F16", "F32"}
    BY ONLY <2>2 DEF ServeCalls
  <2>4. ModelOK(call)
    BY ONLY <2>1, <2>2 DEF ServeCalls, ModelOK
  <2> QED BY <2>1, <2>3, <2>4
<1>3. Len(call.inputs) = MaxInputs
  BY <1>2
<1>4. /\ n \in Nat /\ n + 1 \in 1..MaxInputs /\ s \in Nat \ {0}
      /\ \A k \in 1..n + 1 : k = n + 1 \/ k \in 1..n
  <2>1. n \in Nat
    BY DEF LayersOK
  <2> HIDE DEF n
  <2>2. n + 1 \in 1..MaxInputs
    BY <1>1, <1>2, <1>3, <2>1
  <2>3. call.inputs[n + 1] \in 1..MaxHeads
    BY <1>2, <2>2
  <2> QED BY <1>2, <2>1, <2>2, <2>3
<1>5. InOrder(call, now.cache, n * L) /\ (call.dtype # "F32" => now.cache = <<>>)
  <2>1. CASE result = NoResult
    <3>1. now = [ok |-> TRUE, cache |-> <<>>, served |-> 0]
      BY <2>1
    <3> HIDE DEF now
    <3>2. now.cache = <<>> /\ n = 0
      BY <3>1
    <3>3. InOrder(call, <<>>, 0)
      BY <1>2 DEF InOrder, ModelOK
    <3>4. 0 * L = 0
      BY <1>2 DEF ModelOK
    <3> HIDE DEF n, L
    <3> QED BY <3>2, <3>3, <3>4
  <2>2. CASE result # NoResult
    <3>1. now = result
      BY <2>2
    <3> HIDE DEF now
    <3> QED BY <1>1, <2>2, <3>1 DEF LayersOK
  <2> QED BY <2>1, <2>2
<1>6. /\ n # 0 => call.dtype = "F32" /\ (h = 1 => n = 1 /\ L = 1)
      /\ \A i \in 1..n : call.inputs[i] = h
  <2>1. CASE result # NoResult
    <3>1. now = result
      BY <2>1
    <3> HIDE DEF now
    <3> QED BY <1>1, <2>1, <3>1 DEF LayersOK
  <2>2. CASE result = NoResult
    <3>1. n = 0
      BY <2>2
    <3> HIDE DEF n
    <3> QED BY <3>1
  <2> QED BY <2>1, <2>2
<1>7. /\ out \in [ok : BOOLEAN, cache : Seq(CacheEntry)]
      /\ out.ok <=> call.dtype = "F32" /\ s = h /\ ~(s = 1 /\ (n # 0 \/ L # 1))
      /\ out.ok => InOrder(call, out.cache, (n + 1) * L)
      /\ call.dtype # "F32" => out.cache = now.cache
  <2> DEFINE c == now.cache
             model == Att!ModelForward(call, s, 0, c)
  <2>1. out = model
    BY ForwardServed
  <2>2. InOrder(call, c, n * L)
    BY <1>5
  <2> HIDE DEF c, n, s
  <2>3. /\ model \in [ok : BOOLEAN, cache : Seq(CacheEntry)]
        /\ model.ok <=> call.dtype = "F32" /\ s = h /\ ~(s = 1 /\ (n # 0 \/ L # 1))
        /\ model.ok => InOrder(call, model.cache, (n + 1) * L)
        /\ call.dtype # "F32" => model.cache = c
    BY <1>2, <1>4, <2>2, LayersRun
  <2> HIDE DEF model, out
  <2> QED BY <2>1, <2>3 DEF c
<1> HIDE DEF now
<1>8. out.ok <=> Whole(n + 1)
  <2> HIDE DEF out
  <2>1. Whole(n + 1) <=> call.dtype = "F32" /\ s = h /\ (h = 1 => n = 0 /\ L = 1)
    <3>1. (\A i \in 1..n + 1 : call.inputs[i] = h) <=> s = h
      <4>1. n + 1 \in 1..n + 1
        <5> HIDE DEF n
        <5> QED BY <1>4
      <4> HIDE DEF n
      <4> QED BY <1>4, <1>6, <4>1
    <3>2. n + 1 = 1 <=> n = 0
      <4> HIDE DEF n
      <4> QED BY <1>4
    <3> HIDE DEF n, s
    <3> QED BY <3>1, <3>2
  <2> HIDE DEF Whole, n, s
  <2> QED BY <1>7, <2>1
<1>9. /\ result'.ok = out.ok /\ result'.cache = out.cache /\ result'.served = n + 1
      /\ result' \in [ok : BOOLEAN, cache : Seq(CacheEntry), served : 1..MaxInputs]
  <2> HIDE DEF out, n
  <2> QED BY <1>1, <1>4, <1>7
<1>10. call.dtype # "F32" => result'.cache = <<>>
  <2> HIDE DEF out, n, s
  <2> QED BY <1>5, <1>7, <1>9
<1> HIDE DEF out, s, n
<1>11. result'.ok <=> Whole(result'.served)
  BY <1>8, <1>9
<1>12. result'.ok => InOrder(call, result'.cache, result'.served * L)
  BY <1>7, <1>9
<1> QED BY <1>1, <1>9, <1>10, <1>11, <1>12 DEF LayersOK

LEMMA LayersKept == Spec => [](CallOK /\ LayersOK)
<1>1. Init => CallOK /\ LayersOK
  BY CallsStart DEF Init, LayersOK
<1>2. ASSUME CallOK, LayersOK, [Next]_<<call, result>>
      PROVE  CallOK' /\ LayersOK'
  <2>1. CallOK' /\ UNCHANGED call
    BY <1>2, CallsKept
  <2>2. CASE UNCHANGED result
    BY <1>2, <2>1, <2>2 DEF LayersOK
  <2>3. CASE Next /\ call.op # "serve"
    BY <2>1, <2>3 DEF LayersOK
  <2>4. CASE Next /\ call.op = "serve"
    <3>1. Serve
      BY <2>4, StepOfCall
    <3> QED BY <1>2, <2>1, <2>4, <3>1, InputServed
  <2> QED BY <1>2, <2>2, <2>3, <2>4
<1> QED BY <1>1, <1>2, PTL DEF Spec

\* The models compute with inputs of exactly n_heads tokens in F32, with no token behind
\* a context, and in F16 fail before anything is cached: with any number of heads, layers
\* and inputs.
THEOREM HeadsManyTokens == Spec => []HeadSizedInputsOnly
<1>1. CallOK /\ LayersOK => HeadSizedInputsOnly
  BY DEF LayersOK, HeadSizedInputsOnly
<1> QED BY <1>1, LayersKept, PTL

\* The cache holds input after input and layer after layer, each from position 0 on.
THEOREM EveryInputFromZero == Spec => []PositionsRestart
<1>1. ASSUME CallOK, LayersOK, call.op = "serve", result.ok
      PROVE  /\ Len(result.cache) = result.served * call.num_layers * call.n_heads
             /\ \A k \in DOMAIN result.cache :
                  result.cache[k] = [layer |-> (((k - 1) \div call.n_heads) % call.num_layers) + 1,
                                     pos |-> (k - 1) % call.n_heads]
  <2>1. result # NoResult
    BY <1>1 DEF NoResult
  <2>2. InOrder(call, result.cache, result.served * call.num_layers)
    BY <1>1, <2>1 DEF LayersOK
  <2> DEFINE n == result.served * call.num_layers
             cache == result.cache
  <2> HIDE DEF n
  <2>3. cache \in Seq(CacheEntry) /\ Len(cache) = n * call.n_heads /\ DOMAIN cache = 1..Len(cache)
    BY <2>2 DEF InOrder, n
  <2> HIDE DEF cache
  <2> QED BY <2>2, <2>3 DEF InOrder, n, cache
<1>2. CallOK /\ LayersOK => PositionsRestart
  BY <1>1 DEF PositionsRestart
<1> QED BY <1>2, LayersKept, PTL

-----------------------------------------------------------------------------
(* Speculative decoding                                                    *)

\* What holds at first and is kept by every step holds at every step.
LEMMA StepByStep ==
  ASSUME NEW n \in Nat, NEW Good, Good \subseteq Int, 0 \in Good,
         \A i \in 1..n : i - 1 \in Good => i \in Good
  PROVE  \A i \in 0..n : i \in Good
<1> SUFFICES ASSUME (0..n) \ Good # {} PROVE FALSE
  OBVIOUS
<1> DEFINE wrong == (0..n) \ Good
<1>1. wrong \in SUBSET Int /\ IsFiniteSet(wrong)
  <2>1. IsFiniteSet(0..n) /\ wrong \in SUBSET (0..n)
    BY FS_Interval
  <2> HIDE DEF wrong
  <2>2. IsFiniteSet(wrong)
    BY <2>1, FS_Subset
  <2> QED BY <2>1, <2>2
<1>2. PICK k \in wrong : \A j \in wrong : k <= j
  <2> HIDE DEF wrong
  <2>1. wrong # {}
    BY DEF wrong
  <2> QED BY <1>1, <2>1, LeastAndGreatest
<1>3. k \in 1..n /\ k - 1 \in 0..n /\ ~(k <= k - 1)
  BY <1>2
<1>4. k - 1 \in Good
  BY <1>2, <1>3
<1> QED BY <1>2, <1>3, <1>4

\* A decoder whose two models know the tokens of V.
ModelOf(V) == [next : [V -> V], quantized : BOOLEAN]

\* Only a GGUF model has logits to look into for a draft, and only for the first.
LEMMA OnlyFirstDraft ==
  ASSUME NEW m, m.quantized \in BOOLEAN, NEW tokens, NEW i \in Nat \ {0}, TokenAt(m, tokens, i) # {}
  PROVE  i = 1 /\ TokenAt(m, tokens, i) = {m.next[Last(tokens)]}
<1> DEFINE shape == <<1, Len(tokens)>>
           logits == Logits(m, shape)
           last == m.next[Last(tokens)]
<1>1. TokenAt(m, tokens, i) = IF Len(logits) = 2 /\ i <= logits[1] THEN {last} ELSE {}
  BY DEF TokenAt
<1>2. CASE m.quantized
  <2>1. logits = <<shape[1], VocabSize>>
    BY <1>2 DEF Logits
  <2>2. logits[1] = 1 /\ Len(logits) = 2
    BY <2>1
  <2> HIDE DEF logits, last
  <2>3. ~(i <= logits[1]) => TokenAt(m, tokens, i) = {}
    BY <1>1
  <2>4. i = 1
    BY <2>2, <2>3
  <2> QED BY <1>1, <2>2, <2>4 DEF last
<1>3. CASE ~m.quantized
  <2>1. logits = Append(shape, VocabSize)
    BY <1>3 DEF Logits
  <2>2. Len(logits) = 3
    BY <2>1
  <2> HIDE DEF logits, last
  <2> QED BY <1>1, <2>2
<1> QED BY <1>2, <1>3

\* A token that is found is returned alone.
LEMMA TokenAlone ==
  ASSUME NEW token, token # {}
  PROVE  OkToken(token).ok /\ Len(OkToken(token).tokens) = 1
BY DEF OkToken, Ok

\* A step that is verified returns one token, whatever was drafted.
LEMMA OneVerified ==
  ASSUME NEW V, NEW d, d.target \in ModelOf(V), NEW input, NEW drafts \in Seq(V),
         VerifyDrafts(d, input, drafts).ok
  PROVE  Len(VerifyDrafts(d, input, drafts).tokens) = 1
<1>1. CASE drafts = <<>>
  <2> DEFINE token == Token(d.target, <<1, Len(input)>>, input)
  <2>1. VerifyDrafts(d, input, drafts) = OkToken(token)
    BY <1>1 DEF VerifyDrafts
  <2> HIDE DEF token
  <2>2. token # {}
    BY <2>1 DEF OkToken, Error
  <2> QED BY <2>1, <2>2, TokenAlone
<1>2. CASE drafts # <<>>
  <2> DEFINE n == Len(drafts)
             S == {Error} \cup {Ok(t) : t \in Seq(V)}
             base == Ok(<<>>)
             top(i) == TokenAt(d.target, drafts, i)
             Looked(acc, i) == IF ~acc.ok \/ acc.tokens # SubSeq(drafts, 1, i - 1) THEN acc
                               ELSE IF top(i) = {} THEN Error
                               ELSE Ok(acc.tokens \o OkToken(top(i)).tokens)
             g == [i \in 1..n |-> [acc \in S |-> Looked(acc, i)]]
             Recursive(f) == f = [i \in 0..n |-> IF i = 0 THEN base ELSE Looked(f[i - 1], i)]
             run == CHOOSE f : Recursive(f)
  <2>1. n \in Nat \ {0} /\ Last(drafts) \in V
    <3>1. n \in Nat \ {0} /\ drafts[n] \in V
      BY <1>2
    <3> QED BY <3>1 DEF Last
  <2>2. VerifyDrafts(d, input, drafts) = run[n]
    BY <1>2 DEF VerifyDrafts
  <2>3. base \in S
    <3>1. <<>> \in Seq(V)
      OBVIOUS
    <3> QED BY <3>1
  <2>4. ASSUME NEW i \in 1..n
        PROVE  top(i) = {} \/ (i = 1 /\ \E v \in V : OkToken(top(i)).tokens = <<v>>)
    <3>1. d.target.quantized \in BOOLEAN /\ d.target.next[Last(drafts)] \in V
      BY <2>1 DEF ModelOf
    <3>2. top(i) = {} \/ (i = 1 /\ top(i) = {d.target.next[Last(drafts)]})
      <4>1. i \in Nat \ {0}
        BY <2>1
      <4> QED BY <3>1, <4>1, OnlyFirstDraft
    <3> HIDE DEF top
    <3>3. \A v : OkToken({v}).tokens = <<v>>
      BY DEF OkToken, Ok
    <3> QED BY <3>1, <3>2, <3>3
  <2> HIDE DEF top
  <2>5. ASSUME NEW i \in 1..n, NEW acc \in S PROVE Looked(acc, i) \in S
    <3>1. CASE ~acc.ok \/ acc.tokens # SubSeq(drafts, 1, i - 1) \/ top(i) = {}
      BY <3>1
    <3>2. CASE ~(~acc.ok \/ acc.tokens # SubSeq(drafts, 1, i - 1) \/ top(i) = {})
      <4>1. acc # Error
        BY <3>2 DEF Error
      <4>2. PICK t \in Seq(V) : acc = Ok(t)
        BY <4>1
      <4>3. PICK v \in V : OkToken(top(i)).tokens = <<v>>
        BY <2>4, <3>2
      <4>4. acc.tokens = t
        BY <4>2 DEF Ok
      <4>5. t \o <<v>> \in Seq(V)
        OBVIOUS
      <4>6. Looked(acc, i) = Ok(t \o <<v>>)
        BY <3>2, <4>3, <4>4
      <4> HIDE DEF Looked
      <4> QED BY <4>5, <4>6
    <3> QED BY <3>1, <3>2
  <2>6. Recursive(run)
    <3> HIDE DEF S, base, Looked
    <3>1. g \in [1..n -> [S -> S]]
      BY <2>5
    <3>2. PICK f : Iterates(f, n, S, base, g)
      <4> HIDE DEF g, n
      <4>1. Iterable(n, S, base, g)
        BY <2>1, <2>3, <3>1 DEF Iterable
      <4> QED BY <4>1, Iterated
    <3>3. \A i \in 1..n : f[i] = Looked(f[i - 1], i)
      <4>1. \A i \in 1..n : i - 1 \in 0..n
        BY <2>1
      <4>2. \A i \in 1..n : f[i - 1] \in S /\ f[i] = g[i][f[i - 1]]
        BY <3>2, <4>1 DEF Iterates
      <4> QED BY <4>2
    <3>4. f \in [0..n -> S] /\ f[0] = base
      BY <3>2 DEF Iterates
    <3>5. Recursive(f)
      <4> HIDE DEF n
      <4>1. \A i \in 0..n : i # 0 => i \in 1..n
        BY <2>1
      <4> QED BY <3>3, <3>4, <4>1
    <3> HIDE DEF Recursive
    <3> QED BY <3>5
  <2>7. run[0] = base /\ \A i \in 1..n : run[i] = Looked(run[i - 1], i)
    <3> HIDE DEF base, Looked, n, run
    <3>1. 0 \in 0..n /\ \A i \in 1..n : i \in 0..n /\ i # 0
      BY <2>1
    <3> QED BY <2>6, <3>1
  <2> DEFINE One(acc) == acc.ok => Len(acc.tokens) = 1
             Good == {i \in Int : IF i = 0 THEN run[i] = base ELSE One(run[i])}
  <2> HIDE DEF run
  <2>8. ASSUME NEW i \in 1..n, i - 1 \in Good PROVE i \in Good
    <3>1. run[i] = Looked(run[i - 1], i) /\ i \in Int /\ i # 0
      BY <2>1, <2>7
    <3>2. CASE i = 1
      <4>1. run[i - 1] = base
        <5>1. i - 1 = 0
          BY <3>2
        <5> QED BY <2>7, <5>1
      <4>2. base.ok /\ base.tokens = <<>>
        BY DEF Ok
      <4>3. SubSeq(drafts, 1, i - 1) = <<>>
        BY <3>2
      <4> HIDE DEF base
      <4>4. CASE top(i) = {}
        BY <3>1, <4>1, <4>2, <4>3, <4>4 DEF Error
      <4>5. CASE top(i) # {}
        <5>1. PICK v \in V : OkToken(top(i)).tokens = <<v>>
          BY <2>4, <4>5
        <5>2. Looked(base, i) = Ok(<<>> \o <<v>>)
          BY <4>2, <4>3, <4>5, <5>1
        <5> HIDE DEF Looked
        <5>3. Len(Ok(<<>> \o <<v>>).tokens) = 1
          BY DEF Ok
        <5> QED BY <3>1, <4>1, <5>2, <5>3
      <4> QED BY <4>4, <4>5
    <3>3. CASE i # 1
      <4>1. One(run[i - 1])
        <5>1. i - 1 # 0
          BY <3>1, <3>3
        <5> HIDE DEF One
        <5> QED BY <2>8, <5>1
      <4>2. top(i) = {}
        BY <2>4, <3>3
      <4>3. run[i] = run[i - 1] \/ run[i] = Error
        BY <3>1, <4>2
      <4> HIDE DEF Looked
      <4> QED BY <3>1, <4>1, <4>3 DEF Error
    <3> QED BY <3>2, <3>3
  <2>9. n \in Good
    <3>1. 0 \in Good /\ Good \subseteq Int
      BY <2>7
    <3> HIDE DEF Good, n
    <3>2. \A i \in 0..n : i \in Good
      BY <2>1, <2>8, <3>1, StepByStep
    <3> QED BY <2>1, <3>2
  <2> QED BY <2>1, <2>2, <2>9
<1> QED BY <1>1, <1>2

\* A table built from texts over V, and a context to continue.
TableOf(V, corpus, order) == corpus \in Seq(Seq(V)) /\ order \in Nat \ {0}

\* A window is a beginning and the token that follows.
Beginning(corpus, order, p) == SubSeq(corpus[p[1]], p[2], p[2] + order - 2)
Following(corpus, order, p) == corpus[p[1]][p[2] + order - 1]

HasParts(V, corpus, order, p) ==
  /\ p[1] \in 1..Len(corpus) /\ p[2] \in 1..Len(corpus[p[1]]) /\ p = <<p[1], p[2]>>
  /\ Beginning(corpus, order, p) \in Seq(V)
  /\ Following(corpus, order, p) \in V
  /\ SubSeq(corpus[p[1]], p[2], p[2] + order - 1)
       = Append(Beginning(corpus, order, p), Following(corpus, order, p))

LEMMA WindowParts ==
  ASSUME NEW V, NEW corpus, NEW order, TableOf(V, corpus, order), NEW p \in Windows(corpus, order)
  PROVE  HasParts(V, corpus, order, p)
<1>0. PICK s \in DOMAIN corpus : \E i \in 1..Len(corpus[s]) - order + 1 : p = <<s, i>>
  BY DEF Windows
<1>1. PICK i \in 1..Len(corpus[s]) - order + 1 : p = <<s, i>>
  BY <1>0
<1>2. corpus[s] \in Seq(V) /\ s \in 1..Len(corpus) /\ order \in Nat \ {0}
  BY <1>1 DEF TableOf
<1> DEFINE w == corpus[s]
           last == i + order - 1
<1>3. i \in 1..Len(w) /\ last \in i..Len(w) /\ last - 1 = i + order - 2 /\ Len(w) \in Nat
  BY <1>1, <1>2
<1>4. p[1] = s /\ p[2] = i
  BY <1>1
<1> HIDE DEF w
<1>5. SubSeq(w, i, last) = SubSeq(w, i, last - 1) \o <<w[last]>>
  <2> HIDE DEF last
  <2> QED BY <1>2, <1>3, SubSeqRecursiveSecond DEF w
<1>6. w[last] \in V /\ SubSeq(w, i, last - 1) \in Seq(V)
  <2>1. \A j \in i..last - 1 : w[j] \in V
    <3>1. w \in Seq(V)
      BY <1>2 DEF w
    <3> HIDE DEF last
    <3> QED BY <1>3, <3>1, ElementOfSeq
  <2>2. w[last] \in V
    BY <1>2, <1>3 DEF w
  <2>3. i \in Int /\ last - 1 \in Int
    BY <1>3
  <2> HIDE DEF last
  <2> QED BY <2>1, <2>2, <2>3, SubSeqProperties
<1>7. Append(SubSeq(w, i, last - 1), w[last]) = SubSeq(w, i, last - 1) \o <<w[last]>>
  <2> HIDE DEF last
  <2> QED BY <1>6, AppendIsConcat
<1>8. Beginning(corpus, order, p) = SubSeq(w, i, last - 1) /\ Following(corpus, order, p) = w[last]
  BY <1>3, <1>4 DEF Beginning, Following, w
<1> QED BY <1>1, <1>2, <1>3, <1>4, <1>5, <1>6, <1>7, <1>8 DEF w, HasParts

\* Of some windows one is inserted last.
LEMMA LastInserted ==
  ASSUME NEW V, NEW corpus, NEW order, TableOf(V, corpus, order),
         NEW W \in SUBSET Windows(corpus, order), W # {}
  PROVE  \E p \in W : \A q \in W : ~InsertedBefore(p, q)
<1> DEFINE In(p) == /\ p[1] \in 1..Len(corpus) /\ p[2] \in 1..Len(corpus[p[1]])
                    /\ p = <<p[1], p[2]>>
           texts == {s \in 1..Len(corpus) : \E p \in W : p[1] = s}
<1>1. \A p \in W : In(p)
  <2>1. \A p \in W : HasParts(V, corpus, order, p)
    BY WindowParts
  <2> QED BY <2>1 DEF HasParts
<1>2. PICK a \in texts : \A s \in texts : s <= a
  <2>1. texts \in SUBSET Int /\ IsFiniteSet(texts) /\ texts # {}
    <3>1. IsFiniteSet(1..Len(corpus)) /\ texts \in SUBSET (1..Len(corpus))
      BY FS_Interval DEF TableOf
    <3>2. texts # {}
      BY <1>1
    <3> HIDE DEF texts
    <3>3. IsFiniteSet(texts)
      BY <3>1, FS_Subset
    <3> QED BY <3>1, <3>2, <3>3
  <2> HIDE DEF texts
  <2> QED BY <2>1, LeastAndGreatest
<1> DEFINE places == {i \in 1..Len(corpus[a]) : \E p \in W : p[1] = a /\ p[2] = i}
<1>3. PICK b \in places : \A i \in places : i <= b
  <2>1. places \in SUBSET Int /\ IsFiniteSet(places) /\ places # {}
    <3>1. a \in 1..Len(corpus) /\ \E p \in W : p[1] = a
      BY <1>2
    <3>2. Len(corpus[a]) \in Nat
      BY <3>1 DEF TableOf
    <3>3. places # {}
      BY <1>1, <3>1
    <3>4. IsFiniteSet(1..Len(corpus[a])) /\ places \in SUBSET (1..Len(corpus[a]))
      <4>1. 1 \in Int /\ Len(corpus[a]) \in Int
        BY <3>2
      <4> QED BY <4>1, FS_Interval
    <3> HIDE DEF places
    <3>5. IsFiniteSet(places)
      BY <3>4, FS_Subset
    <3> QED BY <3>3, <3>4, <3>5
  <2> HIDE DEF places
  <2> QED BY <2>1, LeastAndGreatest
<1>4. PICK p \in W : p[1] = a /\ p[2] = b
  BY <1>3
<1>5. ASSUME NEW q \in W, InsertedBefore(p, q) PROVE FALSE
  <2>1. In(q) /\ q[1] \in texts
    BY <1>1
  <2>2. a \in Int /\ b \in Int /\ q[1] \in Int /\ q[2] \in Int /\ q[1] <= a
    <3>1. a \in Int /\ b \in Int /\ q[1] \in Int
      BY <1>2, <1>3, <2>1
    <3>2. q[2] \in Int
      BY <2>1
    <3>3. q[1] <= a
      BY <1>2, <2>1
    <3> QED BY <3>1, <3>2, <3>3
  <2>3. q[1] = a /\ b < q[2]
    BY <1>4, <1>5, <2>2 DEF InsertedBefore
  <2>4. q[2] \in places
    BY <2>1, <2>3
  <2> HIDE DEF places
  <2> QED BY <1>3, <2>2, <2>3, <2>4
<1> QED BY <1>4, <1>5

\* The table continues just the beginnings of the corpus's windows, each as one of them.
LEMMA TableFollows ==
  ASSUME NEW V, NEW corpus, NEW order, TableOf(V, corpus, order)
  PROVE  LET table == NgramTable(corpus, order)
         IN /\ \A prefix \in DOMAIN table :
                 /\ prefix \in Seq(V) /\ table[prefix] \in V
                 /\ SeenIn(corpus, order, Append(prefix, table[prefix]))
            /\ \A prefix \in Seq(V), t \in V :
                 SeenIn(corpus, order, Append(prefix, t)) => prefix \in DOMAIN table
<1> DEFINE table == NgramTable(corpus, order)
           windows == Windows(corpus, order)
           Alike(prefix) == {p \in windows : Beginning(corpus, order, p) = prefix}
           Newest(prefix) == CHOOSE p \in windows :
                               /\ Beginning(corpus, order, p) = prefix
                               /\ \A q \in windows : Beginning(corpus, order, q) = prefix
                                                       => ~InsertedBefore(p, q)
<1>1. table = [prefix \in {Beginning(corpus, order, p) : p \in windows} |->
                 Following(corpus, order, Newest(prefix))]
  BY DEF NgramTable, Beginning, Following
<1> HIDE DEF table, windows
<1>2. ASSUME NEW prefix \in DOMAIN table
      PROVE  /\ Newest(prefix) \in windows
             /\ Beginning(corpus, order, Newest(prefix)) = prefix
             /\ table[prefix] = Following(corpus, order, Newest(prefix))
  <2>1. Alike(prefix) # {}
    BY <1>1
  <2>2. Alike(prefix) \in SUBSET Windows(corpus, order)
    BY DEF windows
  <2>3. PICK p \in Alike(prefix) : \A q \in Alike(prefix) : ~InsertedBefore(p, q)
    <3> HIDE DEF Alike
    <3> QED BY <2>1, <2>2, LastInserted
  <2>4. /\ Newest(prefix) \in windows
        /\ Beginning(corpus, order, Newest(prefix)) = prefix
    BY <2>3
  <2>5. prefix \in {Beginning(corpus, order, p2) : p2 \in windows}
    BY <1>1
  <2> HIDE DEF Newest
  <2> QED BY <1>1, <2>4, <2>5
<1> HIDE DEF Newest
<1>3. ASSUME NEW prefix \in DOMAIN table
      PROVE  /\ prefix \in Seq(V) /\ table[prefix] \in V
             /\ SeenIn(corpus, order, Append(prefix, table[prefix]))
  <2> DEFINE p == Newest(prefix)
  <2>1. p \in Windows(corpus, order)
    BY <1>2 DEF windows
  <2>2. Beginning(corpus, order, p) = prefix /\ table[prefix] = Following(corpus, order, p)
    BY <1>2
  <2> HIDE DEF p
  <2>3. /\ prefix \in Seq(V) /\ table[prefix] \in V
        /\ SubSeq(corpus[p[1]], p[2], p[2] + order - 1) = Append(prefix, table[prefix])
    <3>1. HasParts(V, corpus, order, p)
      BY <2>1, WindowParts
    <3> QED BY <2>2, <3>1 DEF HasParts
  <2> QED BY <2>1, <2>3 DEF SeenIn
<1>4. ASSUME NEW prefix \in Seq(V), NEW t \in V, SeenIn(corpus, order, Append(prefix, t))
      PROVE  prefix \in DOMAIN table
  <2>1. PICK p \in Windows(corpus, order) :
          SubSeq(corpus[p[1]], p[2], p[2] + order - 1) = Append(prefix, t)
    BY <1>4 DEF SeenIn
  <2> DEFINE b == Beginning(corpus, order, p)
             f == Following(corpus, order, p)
  <2>2. b \in Seq(V) /\ f \in V /\ Append(b, f) = Append(prefix, t)
    <3>1. HasParts(V, corpus, order, p)
      BY <2>1, WindowParts
    <3> QED BY <2>1, <3>1 DEF HasParts
  <2>3. b = prefix
    <3> HIDE DEF b, f
    <3> QED BY <2>2, AppendInjective
  <2> QED BY <1>1, <2>1, <2>3 DEF windows
<1> QED BY <1>3, <1>4 DEF table

\* What the drafts so far are: each continues the text before it as the corpus does.
Continued(corpus, order, context, drafts) ==
  LET text == context \o drafts
  IN /\ drafts # <<>> => Len(context) >= order
     /\ \A k \in Len(context)..Len(text) - 1 :
          SeenIn(corpus, order, Append(SubSeq(text, k - order + 2, k), text[k + 1]))

\* No window of the corpus continues a text.
NothingToSay(V, corpus, order, text) ==
  Len(text) >= order =>
    \A t \in V : ~SeenIn(corpus, order, Append(SubSeq(text, Len(text) - order + 2, Len(text)), t))

DraftedOK(V, corpus, order, context, k, drafts) ==
  /\ drafts \in Seq(V) /\ Len(drafts) <= k
  /\ Continued(corpus, order, context, drafts)
  /\ Len(drafts) < k => NothingToSay(V, corpus, order, context \o drafts)

\* The end of a text of at least order tokens is a beginning to look up.
LEMMA TailOfContext ==
  ASSUME NEW V, NEW text \in Seq(V), NEW order \in Nat \ {0}, Len(text) >= order
  PROVE  /\ ContextTail(text, order) = SubSeq(text, Len(text) - order + 2, Len(text))
         /\ ContextTail(text, order) \in Seq(V)
<1> DEFINE n == Len(text)
           m == n - order + 2
<1>1. n \in Int /\ m \in Int /\ m >= 1
  OBVIOUS
<1>2. \A i \in m..n : text[i] \in V
  <2>1. \A i \in m..n : i \in 1..n
    BY <1>1
  <2> HIDE DEF m
  <2> QED BY <2>1, ElementOfSeq
<1>3. SubSeq(text, m, n) \in Seq(V)
  <2> HIDE DEF m, n
  <2> QED BY <1>1, <1>2, SubSeqProperties
<1> QED BY <1>3 DEF ContextTail

\* A token more leaves what a text says before it.
LEMMA TextGrows ==
  ASSUME NEW V, NEW text \in Seq(V), NEW v \in V
  PROVE  /\ \A i \in 1..Len(text) : Append(text, v)[i] = text[i]
         /\ \A m \in Int, k \in Int : m >= 1 /\ k <= Len(text) =>
              SubSeq(Append(text, v), m, k) = SubSeq(text, m, k)
<1>1. \A i \in 1..Len(text) : Append(text, v)[i] = text[i]
  BY AppendProperties
<1>2. ASSUME NEW m \in Int, NEW k \in Int, m >= 1, k <= Len(text)
      PROVE  SubSeq(Append(text, v), m, k) = SubSeq(text, m, k)
  <2> DEFINE longer == Append(text, v)
  <2>1. \A i \in m..k : i \in 1..Len(text)
    BY <1>2
  <2>2. (\A i \in m..k : longer[i] \in V) /\ \A i \in m..k : text[i] \in V
    BY <1>1, <2>1, ElementOfSeq
  <2>3. \A i \in m..k : longer[i] = text[i]
    BY <1>1, <2>1
  <2> HIDE DEF longer
  <2>4. SubSeq(longer, m, k) \in Seq(V) /\ SubSeq(text, m, k) \in Seq(V)
    BY <2>2, SubSeqProperties
  <2>5. /\ Len(SubSeq(longer, m, k)) = IF m <= k THEN k - m + 1 ELSE 0
        /\ Len(SubSeq(text, m, k)) = IF m <= k THEN k - m + 1 ELSE 0
    BY <2>2, SubSeqProperties
  <2>6. \A i \in 1..k - m + 1 : SubSeq(longer, m, k)[i] = longer[m + i - 1]
    BY <2>2, SubSeqProperties
  <2>7. \A i \in 1..k - m + 1 : SubSeq(text, m, k)[i] = text[m + i - 1]
    BY <2>2, SubSeqProperties
  <2>8. \A i \in 1..k - m + 1 : m + i - 1 \in m..k
    OBVIOUS
  <2>9. \A i \in 1..Len(SubSeq(longer, m, k)) : i \in 1..k - m + 1
    BY <2>5
  <2>10. \A i \in 1..Len(SubSeq(longer, m, k)) : SubSeq(longer, m, k)[i] = SubSeq(text, m, k)[i]
    BY <2>3, <2>6, <2>7, <2>8, <2>9
  <2>11. Len(SubSeq(longer, m, k)) = Len(SubSeq(text, m, k))
    BY <2>5
  <2> QED BY <2>4, <2>10, <2>11, SeqEqual DEF longer
<1> QED BY <1>1, <1>2

\* A turn of the drafting keeps it so.
LEMMA DraftExtended ==
  ASSUME NEW V, NEW corpus, NEW order, TableOf(V, corpus, order), NEW context \in Seq(V),
         NEW k \in Nat \ {0}, NEW drafts, DraftedOK(V, corpus, order, context, k - 1, drafts)
  PROVE  LET table == NgramTable(corpus, order)
             ctx == context \o drafts
             prefix == ContextTail(ctx, order)
         IN DraftedOK(V, corpus, order, context, k,
              IF Len(ctx) >= order /\ prefix \in DOMAIN table
                THEN Append(drafts, table[prefix]) ELSE drafts)
<1> DEFINE table == NgramTable(corpus, order)
           ctx == context \o drafts
           prefix == ContextTail(ctx, order)
<1>1. /\ drafts \in Seq(V) /\ Len(drafts) <= k - 1
      /\ Continued(corpus, order, context, drafts)
      /\ Len(drafts) < k - 1 => NothingToSay(V, corpus, order, ctx)
  BY DEF DraftedOK
<1>2. ctx \in Seq(V) /\ Len(ctx) = Len(context) + Len(drafts) /\ Len(drafts) \in Nat
      /\ Len(context) \in Nat /\ order \in Nat \ {0}
  BY <1>1, ConcatProperties DEF TableOf
<1>3. Len(ctx) >= order => prefix = SubSeq(ctx, Len(ctx) - order + 2, Len(ctx)) /\ prefix \in Seq(V)
  <2> HIDE DEF ctx
  <2> QED BY <1>2, TailOfContext
<1>4. CASE ~(Len(ctx) >= order /\ prefix \in DOMAIN table)
  <2>1. NothingToSay(V, corpus, order, ctx)
    <3> SUFFICES ASSUME Len(ctx) >= order, NEW t \in V,
                        SeenIn(corpus, order, Append(SubSeq(ctx, Len(ctx) - order + 2, Len(ctx)), t))
                 PROVE  FALSE
      BY DEF NothingToSay
    <3>1. SeenIn(corpus, order, Append(prefix, t)) /\ prefix \in Seq(V)
      BY <1>3
    <3> HIDE DEF prefix
    <3>2. prefix \in DOMAIN table
      BY <3>1, TableFollows
    <3> QED BY <1>4, <3>2
  <2>2. Len(drafts) <= k
    BY <1>1, <1>2
  <2>3. DraftedOK(V, corpus, order, context, k, drafts)
    BY <1>1, <2>1, <2>2 DEF DraftedOK
  <2> QED BY <1>4, <2>3
<1>5. CASE Len(ctx) >= order /\ prefix \in DOMAIN table
  <2> DEFINE v == table[prefix]
             longer == Append(drafts, v)
             text == Append(ctx, v)
  <2>1. prefix \in Seq(V) /\ v \in V /\ SeenIn(corpus, order, Append(prefix, v))
    <3> HIDE DEF prefix
    <3> QED BY <1>5, TableFollows
  <2>2. ~(Len(drafts) < k - 1)
    <3>1. ~NothingToSay(V, corpus, order, ctx)
      BY <1>3, <1>5, <2>1 DEF NothingToSay
    <3> QED BY <1>1, <3>1
  <2> HIDE DEF v
  <2>3. longer \in Seq(V) /\ Len(longer) = Len(drafts) + 1 /\ longer # <<>>
    BY <1>1, <2>1, AppendProperties
  <2>4. Len(longer) = k
    BY <1>1, <1>2, <2>2, <2>3
  <2>5. context \o longer = text
    BY <1>1, <2>1
  <2>6. Len(text) = Len(ctx) + 1 /\ text[Len(ctx) + 1] = v
    <3> HIDE DEF ctx
    <3> QED BY <1>2, <2>1, AppendProperties
  <2>7. Len(context) >= order
    <3>1. CASE drafts = <<>>
      <4>1. Len(ctx) = Len(context)
        BY <1>2, <3>1
      <4> QED BY <1>5, <4>1
    <3>2. CASE drafts # <<>>
      BY <1>1, <3>2 DEF Continued
    <3> QED BY <3>1, <3>2
  <2>8. ASSUME NEW j \in Len(context)..Len(text) - 1
        PROVE  SeenIn(corpus, order, Append(SubSeq(text, j - order + 2, j), text[j + 1]))
    <3>1. j \in Int /\ j - order + 2 \in Int /\ j - order + 2 >= 1 /\ j <= Len(ctx)
      BY <1>2, <2>6, <2>7
    <3>2. SubSeq(text, j - order + 2, j) = SubSeq(ctx, j - order + 2, j)
      <4> HIDE DEF ctx
      <4> QED BY <1>2, <2>1, <3>1, TextGrows
    <3>3. CASE j = Len(ctx)
      <4>1. SubSeq(ctx, j - order + 2, j) = prefix /\ text[j + 1] = v
        BY <1>3, <1>5, <2>6, <3>3
      <4> HIDE DEF prefix, text, ctx
      <4> QED BY <2>1, <3>2, <4>1
    <3>4. CASE j # Len(ctx)
      <4>1. j \in Len(context)..Len(ctx) - 1 /\ j + 1 \in 1..Len(ctx)
        BY <1>2, <2>6, <3>1, <3>4
      <4>2. text[j + 1] = ctx[j + 1]
        <5> HIDE DEF ctx
        <5> QED BY <1>2, <2>1, <4>1, TextGrows
      <4>3. SeenIn(corpus, order, Append(SubSeq(ctx, j - order + 2, j), ctx[j + 1]))
        BY <1>1, <4>1 DEF Continued
      <4> HIDE DEF ctx, text
      <4> QED BY <3>2, <4>2, <4>3
    <3> QED BY <3>3, <3>4
  <2>9. Continued(corpus, order, context, longer)
    <3> HIDE DEF longer, text
    <3> QED BY <2>5, <2>7, <2>8 DEF Continued
  <2>10. DraftedOK(V, corpus, order, context, k, longer)
    <3> HIDE DEF longer
    <3> QED BY <2>3, <2>4, <2>9 DEF DraftedOK
  <2> QED BY <1>5, <2>10 DEF v
<1> QED BY <1>4, <1>5

\* Drafts of any number from a corpus of any texts, looked up by any number of tokens
\* (build_ngram_table, generate_drafts): each continues the text before it as the
\* corpus does somewhere, and there are fewer than lookahead only where it has no
\* continuation.
THEOREM DraftsContinue ==
  ASSUME NEW V, NEW d, TableOf(V, d.corpus, d.order), d.lookahead \in Nat, NEW context \in Seq(V)
  PROVE  DraftedOK(V, d.corpus, d.order, context, d.lookahead, NgramDrafts(d, context))
<1> DEFINE corpus == d.corpus
           order == d.order
           n == d.lookahead
           table == NgramTable(corpus, order)
           Extended(drafts) == LET ctx == context \o drafts
                                   prefix == ContextTail(ctx, order)
                               IN IF Len(ctx) >= order /\ prefix \in DOMAIN table
                                    THEN Append(drafts, table[prefix]) ELSE drafts
           base == <<>>
           S == Seq(V)
           g == [i \in 1..n |-> [drafts \in S |-> Extended(drafts)]]
           Recursive(f) == f = [k \in 0..n |-> IF k = 0 THEN base ELSE Extended(f[k - 1])]
           run == CHOOSE f : Recursive(f)
           Drafted(k, drafts) == DraftedOK(V, corpus, order, context, k, drafts)
<1>1. NgramDrafts(d, context) = run[n]
  BY DEF NgramDrafts
<1>2. TableOf(V, corpus, order) /\ n \in Nat /\ base \in S
  OBVIOUS
<1>3. ASSUME NEW drafts \in S PROVE Extended(drafts) \in S
  <2> DEFINE ctx == context \o drafts
             prefix == ContextTail(ctx, order)
  <2>1. CASE Len(ctx) >= order /\ prefix \in DOMAIN table
    <3>1. table[prefix] \in V
      <4> HIDE DEF prefix, corpus, order
      <4> QED BY <1>2, <2>1, TableFollows
    <3>2. Append(drafts, table[prefix]) \in S
      <4> HIDE DEF prefix, table
      <4> QED BY <3>1, AppendProperties
    <3> HIDE DEF table, prefix, ctx, S
    <3> QED BY <2>1, <3>2 DEF ctx, prefix
  <2>2. CASE ~(Len(ctx) >= order /\ prefix \in DOMAIN table)
    <3> HIDE DEF table, S
    <3> QED BY <2>2
  <2> QED BY <2>1, <2>2
<1> HIDE DEF S
<1>4. Recursive(run)
  <2> HIDE DEF base, Extended, n
  <2>1. g \in [1..n -> [S -> S]]
    BY <1>3
  <2>2. PICK f : Iterates(f, n, S, base, g)
    <3> HIDE DEF g
    <3>1. Iterable(n, S, base, g)
      BY <1>2, <2>1 DEF Iterable
    <3> QED BY <3>1, Iterated
  <2>3. \A i \in 1..n : f[i] = Extended(f[i - 1])
    <3>1. \A i \in 1..n : i - 1 \in 0..n
      BY <1>2
    <3>2. \A i \in 1..n : f[i - 1] \in S /\ f[i] = g[i][f[i - 1]]
      BY <2>2, <3>1 DEF Iterates
    <3> QED BY <3>2
  <2>4. f \in [0..n -> S] /\ f[0] = base
    BY <2>2 DEF Iterates
  <2>5. Recursive(f)
    <3>1. \A i \in 0..n : i # 0 => i \in 1..n
      BY <1>2
    <3> QED BY <2>3, <2>4, <3>1
  <2> HIDE DEF Recursive
  <2> QED BY <2>5
<1>5. run[0] = base /\ \A i \in 1..n : run[i] = Extended(run[i - 1])
  <2> HIDE DEF base, Extended, n, run
  <2>1. 0 \in 0..n /\ \A i \in 1..n : i \in 0..n /\ i # 0
    BY <1>2
  <2> QED BY <1>4, <2>1
<1>6. Drafted(0, base)
  <2>1. context \o <<>> = context
    BY ConcatEmptySeq
  <2>2. Continued(corpus, order, context, base)
    <3>1. Len(context) \in Nat
      OBVIOUS
    <3>2. \A k \in Nat : \A j \in k..k - 1 : FALSE
      OBVIOUS
    <3>3. \A j \in Len(context)..Len(context) - 1 : FALSE
      BY <3>1, <3>2
    <3> DEFINE text == context \o base
    <3>4. text = context
      BY <2>1
    <3> HIDE DEF text, corpus, order
    <3>5. \A j \in Len(context)..Len(text) - 1 :
            SeenIn(corpus, order, Append(SubSeq(text, j - order + 2, j), text[j + 1]))
      BY <3>3, <3>4
    <3> QED BY <3>5 DEF Continued, text
  <2>3. base \in Seq(V) /\ Len(base) <= 0 /\ ~(Len(base) < 0)
    BY <1>2 DEF S
  <2> HIDE DEF corpus, order, base
  <2>4. Len(base) < 0 => NothingToSay(V, corpus, order, context \o base)
    BY ONLY <2>3
  <2> QED BY ONLY <2>2, <2>3, <2>4 DEF DraftedOK, Drafted
<1> DEFINE Good == {i \in Int : Drafted(i, run[i])}
<1>7. ASSUME NEW i \in 1..n, i - 1 \in Good PROVE i \in Good
  <2>1. i \in Nat \ {0} /\ Drafted(i - 1, run[i - 1]) /\ run[i] = Extended(run[i - 1])
    <3> HIDE DEF n, run, Extended, Drafted
    <3>1. i \in Nat \ {0}
      BY <1>2
    <3> QED BY <1>5, <1>7, <3>1
  <2> HIDE DEF run, corpus, order
  <2>2. Drafted(i, Extended(run[i - 1]))
    BY <1>2, <2>1, DraftExtended
  <2> HIDE DEF Extended, Drafted
  <2> QED BY <2>1, <2>2
<1>8. n \in Good
  <2> HIDE DEF run, Drafted
  <2>1. 0 \in Good /\ Good \subseteq Int
    BY <1>5, <1>6
  <2> HIDE DEF Good, n
  <2>2. \A i \in 0..n : i \in Good
    BY <1>2, <1>7, <2>1, StepByStep
  <2> QED BY <1>2, <2>2
<1> HIDE DEF run
<1> QED BY <1>1, <1>8

\* What is drafted are tokens.
DecoderOK(V, d) ==
  /\ d.target \in ModelOf(V) /\ d.draft \in ModelOf(V)
  /\ TableOf(V, d.corpus, d.order) /\ d.lookahead \in Nat
  /\ d.strategy \in {"DraftModel", "Ngram", "Parallel"}

LEMMA DraftsAreTokens ==
  ASSUME NEW V, NEW d, DecoderOK(V, d), NEW context \in Seq(V), context # <<>>,
         NEW input \in Seq(V), input # <<>>, GenerateDrafts(d, input, context).ok
  PROVE  GenerateDrafts(d, input, context).tokens \in Seq(V)
<1>1. CASE d.strategy = "Ngram"
  <2>1. GenerateDrafts(d, input, context) = Ok(NgramDrafts(d, context))
    BY <1>1 DEF GenerateDrafts
  <2>2. DraftedOK(V, d.corpus, d.order, context, d.lookahead, NgramDrafts(d, context))
    BY DraftsContinue DEF DecoderOK
  <2>3. NgramDrafts(d, context) \in Seq(V)
    BY <2>2 DEF DraftedOK
  <2> QED BY <2>1, <2>3 DEF Ok
<1>2. CASE d.strategy = "DraftModel"
  <2> DEFINE token == Token(d.draft, <<1, Len(input)>>, input)
             next == d.draft.next[Last(input)]
  <2>1. GenerateDrafts(d, input, context) \in {Error, OkToken(token)}
    BY <1>2 DEF GenerateDrafts, ModelDrafts
  <2>2. token = {} \/ token = {next}
    BY DEF Token
  <2>3. next \in V
    <3>1. Last(input) \in V
      BY DEF Last
    <3> QED BY <3>1 DEF DecoderOK, ModelOf
  <2> HIDE DEF token, next
  <2>4. GenerateDrafts(d, input, context) = OkToken(token) /\ token = {next}
    BY <2>1, <2>2 DEF Error, OkToken
  <2>5. OkToken({next}).tokens = <<next>>
    BY DEF OkToken, Ok
  <2>6. GenerateDrafts(d, input, context).tokens = <<next>>
    BY <2>4, <2>5
  <2>7. \A v \in V : <<v>> \in Seq(V)
    OBVIOUS
  <2> QED BY <2>3, <2>6, <2>7
<1>3. CASE d.strategy = "Parallel"
  <2> DEFINE n == d.lookahead
             repeated == [k \in 1..n |-> Last(context)]
             first(i) == CHOOSE t \in TokenAt(d.target, repeated, i) : TRUE
             tokens == [i \in 1..n |-> first(i)]
             failed == \E i \in 1..n : TokenAt(d.target, repeated, i) = {}
  <2>1. GenerateDrafts(d, input, context) = IF failed THEN Error ELSE Ok(tokens)
    BY <1>3 DEF GenerateDrafts, ParallelDrafts
  <2>2. ~failed
    <3> HIDE DEF failed, tokens
    <3> QED BY <2>1 DEF Error
  <2>3. n \in Nat /\ Last(context) \in V
    BY DEF DecoderOK, Last
  <2>4. ASSUME NEW i \in 1..n PROVE first(i) \in V
    <3> DEFINE next == d.target.next[Last(repeated)]
    <3>1. TokenAt(d.target, repeated, i) \in {{}, {next}}
      BY DEF TokenAt
    <3>2. next \in V
      <4>1. Len(repeated) = n /\ n \in 1..n
        BY <2>3
      <4>2. Last(repeated) = Last(context)
        BY <4>1 DEF Last
      <4> QED BY <2>3, <4>2 DEF DecoderOK, ModelOf
    <3>3. TokenAt(d.target, repeated, i) # {}
      BY <2>2
    <3> HIDE DEF next, repeated
    <3> QED BY <3>1, <3>2, <3>3
  <2>5. tokens \in Seq(V)
    <3> HIDE DEF first, n
    <3> QED BY <2>3, <2>4
  <2>6. Ok(tokens).tokens = tokens
    <3> HIDE DEF tokens
    <3> QED BY DEF Ok
  <2> HIDE DEF tokens, failed
  <2> QED BY <2>1, <2>2, <2>5, <2>6
<1> QED BY <1>1, <1>2, <1>3 DEF DecoderOK

\* A step of any decoder (step): whatever the strategy, the lookahead and the models, if
\* it succeeds it returns one token, and without drafts the target's own.
THEOREM StepIsOneToken ==
  ASSUME NEW V, NEW d, DecoderOK(V, d), NEW context \in Seq(V), context # <<>>,
         NEW input \in Seq(V), input # <<>>, SpeculativeStep(d, input, context).ok
  PROVE  /\ Len(SpeculativeStep(d, input, context).tokens) = 1
         /\ d.strategy = "Ngram" /\ NgramDrafts(d, context) = <<>> =>
              SpeculativeStep(d, input, context).tokens = <<d.target.next[Last(input)]>>
<1> DEFINE drafts == GenerateDrafts(d, input, context)
<1>1. drafts.ok /\ SpeculativeStep(d, input, context) = VerifyDrafts(d, input, drafts.tokens)
  BY DEF SpeculativeStep, Error
<1>2. drafts.tokens \in Seq(V)
  BY <1>1, DraftsAreTokens
<1>3. Len(SpeculativeStep(d, input, context).tokens) = 1
  <2>1. d.target \in ModelOf(V)
    BY DEF DecoderOK
  <2> HIDE DEF drafts
  <2> QED BY <1>1, <1>2, <2>1, OneVerified
<1>4. ASSUME d.strategy = "Ngram", NgramDrafts(d, context) = <<>>
      PROVE  SpeculativeStep(d, input, context).tokens = <<d.target.next[Last(input)]>>
  <2> DEFINE token == Token(d.target, <<1, Len(input)>>, input)
             next == d.target.next[Last(input)]
  <2>1. drafts = Ok(<<>>)
    BY <1>4 DEF GenerateDrafts
  <2>2. drafts.tokens = <<>>
    <3> HIDE DEF drafts
    <3> QED BY <2>1 DEF Ok
  <2>3. SpeculativeStep(d, input, context) = OkToken(token)
    BY <1>1, <2>2 DEF VerifyDrafts
  <2>4. token = {} \/ token = {next}
    BY DEF Token
  <2> HIDE DEF token, next
  <2>5. token = {next}
    BY <2>3, <2>4 DEF OkToken, Error
  <2>6. OkToken({next}).tokens = <<next>>
    BY DEF OkToken, Ok
  <2> QED BY <2>3, <2>5, <2>6 DEF next
<1> QED BY <1>3, <1>4

\* What a speculative call returns is that of its step.
LEMMA CallDecodes ==
  ASSUME NEW c \in SpeculativeCalls
  PROVE  /\ DecoderOK({1, 2}, c) /\ c.context \in Seq({1, 2}) /\ c.context # <<>>
         /\ c.inputs \in 1..2 /\ c.inputs <= Len(c.context)
<1>1. /\ c.corpus \in {<<>>, <<<<1, 2, 2>>, <<2, 1>>>>} /\ c.context \in {<<1, 1>>, <<2, 1, 2>>}
      /\ c.order \in 1..3 /\ c.lookahead \in 1..3 /\ c.inputs \in 1..2
      /\ c.target \in Models /\ c.draft \in Models
      /\ c.strategy \in {"DraftModel", "Ngram", "Parallel"}
  BY DEF SpeculativeCalls
<1>2. c.corpus \in Seq(Seq({1, 2}))
  <2>1. <<1, 2, 2>> \in Seq({1, 2}) /\ <<2, 1>> \in Seq({1, 2})
    OBVIOUS
  <2>2. \A S, a, b : a \in S /\ b \in S => <<a, b>> \in Seq(S) /\ <<>> \in Seq(S)
    OBVIOUS
  <2>3. <<<<1, 2, 2>>, <<2, 1>>>> \in Seq(Seq({1, 2})) /\ <<>> \in Seq(Seq({1, 2}))
    BY <2>1, <2>2
  <2> QED BY <1>1, <2>3
<1>3. DecoderOK({1, 2}, c)
  <2>1. c.order \in Nat \ {0} /\ c.lookahead \in Nat
    BY <1>1
  <2> QED BY <1>1, <1>2, <2>1 DEF DecoderOK, TableOf, ModelOf, Models
<1>4. c.context \in Seq({1, 2}) /\ c.context # <<>> /\ c.inputs <= Len(c.context)
  <2>1. /\ <<1, 1>> \in Seq({1, 2}) /\ Len(<<1, 1>>) = 2
        /\ <<2, 1, 2>> \in Seq({1, 2}) /\ Len(<<2, 1, 2>>) = 3
    OBVIOUS
  <2> DEFINE a == <<1, 1>>
             b == <<2, 1, 2>>
  <2>2. c.context = a \/ c.context = b
    BY <1>1
  <2>3. a \in Seq({1, 2}) /\ b \in Seq({1, 2}) /\ Len(a) = 2 /\ Len(b) = 3
    BY <2>1
  <2> HIDE DEF a, b
  <2>4. c.context \in Seq({1, 2}) /\ Len(c.context) \in {2, 3}
    BY <2>2, <2>3
  <2>5. Len(<<>>) = 0 /\ 0 \notin {2, 3}
    OBVIOUS
  <2>6. c.context # <<>>
    BY <2>4, <2>5
  <2>7. \A i \in 1..2, l \in {2, 3} : i <= l
    OBVIOUS
  <2> QED BY <1>1, <2>4, <2>6, <2>7
<1> QED BY <1>1, <1>3, <1>4

\* Its input is the end of its context.
LEMMA InputEnds ==
  ASSUME NEW V, call.context \in Seq(V), call.inputs \in 1..2, call.inputs <= Len(call.context)
  PROVE  Input \in Seq(V) /\ Input # <<>> /\ Last(Input) = Last(call.context)
<1> DEFINE n == Len(call.context)
           k == call.inputs
           m == n - k + 1
<1>1. n \in Nat /\ k \in 1..2 /\ m \in 1..n /\ n - m + 1 = k /\ m + k - 1 = n
  OBVIOUS
<1>2. \A i \in m..n : call.context[i] \in V
  <2>1. \A i \in m..n : i \in 1..n
    BY <1>1
  <2> HIDE DEF m
  <2> QED BY <2>1, ElementOfSeq
<1>3. Input = SubSeq(call.context, m, n)
  BY DEF Input
<1>4. m \in Int /\ n \in Int /\ m <= n
  BY <1>1
<1>5. Input \in Seq(V) /\ Len(Input) = n - m + 1
      /\ \A i \in 1..n - m + 1 : Input[i] = call.context[m + i - 1]
  <2> HIDE DEF m, n
  <2> QED BY <1>2, <1>3, <1>4, SubSeqProperties
<1>6. Len(Input) = k /\ Input[k] = call.context[n]
  <2> HIDE DEF m, n, k
  <2>1. k \in 1..n - m + 1
    BY <1>1
  <2> QED BY <1>1, <1>5, <2>1
<1>7. Input # <<>> /\ Last(Input) = Input[k] /\ Last(call.context) = call.context[n]
  <2> HIDE DEF m, n, k
  <2>1. k # 0
    BY <1>1
  <2> QED BY <1>6, <2>1 DEF Last, n
<1> QED BY <1>5, <1>6, <1>7

\* A step returns what the decoder does.
SpeculatedOK ==
  call.op = "speculate" /\ result.ok => result = SpeculativeStep(call, Input, call.context)

\* A step of the speculative decoder that succeeds returns one token, in every call
\* of the model (SpeculativeDecoder::step).
THEOREM OneTokenAStep == Spec => []OneTokenPerStep
<1>1. CallOK /\ SpeculatedOK => OneTokenPerStep
  <2> SUFFICES ASSUME CallOK, SpeculatedOK, call.op = "speculate", result.ok PROVE OneTokenPerStep
    BY DEF OneTokenPerStep
  <2>1. call \in SpeculativeCalls /\ result = SpeculativeStep(call, Input, call.context)
    BY DEF CallOK, SpeculatedOK
  <2>2. /\ DecoderOK({1, 2}, call) /\ call.context \in Seq({1, 2}) /\ call.context # <<>>
        /\ call.inputs \in 1..2 /\ call.inputs <= Len(call.context)
    BY <2>1, CallDecodes
  <2>3. Input \in Seq({1, 2}) /\ Input # <<>> /\ Last(Input) = Last(call.context)
    BY <2>2, InputEnds
  <2>4. SpeculativeStep(call, Input, call.context).ok
    BY <2>1
  <2>5. /\ Len(result.tokens) = 1
        /\ call.strategy = "Ngram" /\ NgramDrafts(call, call.context) = <<>> =>
             result.tokens = <<call.target.next[Last(Input)]>>
    BY <2>1, <2>2, <2>3, <2>4, StepIsOneToken
  <2> QED BY <2>3, <2>5 DEF OneTokenPerStep
<1>2. Init => SpeculatedOK
  BY DEF Init, SpeculatedOK, NoResult
<1>3. SpeculatedOK /\ [Next]_<<call, result>> => SpeculatedOK'
  <2> SUFFICES ASSUME SpeculatedOK, [Next]_<<call, result>> PROVE SpeculatedOK'
    OBVIOUS
  <2>1. CASE UNCHANGED <<call, result>>
    BY <2>1 DEF SpeculatedOK, Input
  <2>2. CASE Next
    <3>1. UNCHANGED call /\ (call.op = "speculate" => Speculate)
      BY <2>2, StepOfCall
    <3>2. Input' = Input
      BY <3>1 DEF Input
    <3> QED BY <3>1, <3>2 DEF SpeculatedOK, Speculate
  <2> QED BY <2>1, <2>2
<1> QED BY <1>1, <1>2, <1>3, CallsStart, CallsKept, PTL DEF Spec

\* The drafts of every n-gram call of the model follow its corpus (generate_drafts).
THEOREM CorpusFollowed == Spec => []DraftsFollowCorpus
<1>1. CallOK => DraftsFollowCorpus
  <2> SUFFICES ASSUME CallOK, call.op = "speculate", call.strategy = "Ngram"
               PROVE  DraftsFollowCorpus
    BY DEF DraftsFollowCorpus
  <2> DEFINE drafts == NgramDrafts(call, call.context)
             text == call.context \o drafts
  <2>1. /\ DecoderOK({1, 2}, call) /\ call.context \in Seq({1, 2})
    BY CallDecodes DEF CallOK
  <2>2. DraftedOK({1, 2}, call.corpus, call.order, call.context, call.lookahead, drafts)
    BY <2>1, DraftsContinue DEF DecoderOK
  <2> HIDE DEF drafts
  <2>3. \A k \in Len(call.context)..Len(text) - 1 :
          SeenIn(call.corpus, call.order, Append(SubSeq(text, k - call.order + 2, k), text[k + 1]))
    BY <2>2 DEF DraftedOK, Continued
  <2>4. Len(drafts) < call.lookahead /\ Len(text) >= call.order =>
          \A t \in {1, 2} :
            ~SeenIn(call.corpus, call.order,
                    Append(SubSeq(text, Len(text) - call.order + 2, Len(text)), t))
    BY <2>2 DEF DraftedOK, NothingToSay
  <2> QED BY <2>3, <2>4 DEF DraftsFollowCorpus, drafts
<1> QED BY <1>1, CallsStart, CallsKept, PTL DEF Spec

-----------------------------------------------------------------------------
(* Stop strings                                                            *)

\* s is what t ends with.
EndsWith(t, s) ==
  Len(s) <= Len(t) /\ \A i \in 1..Len(s) : s[i] = t[Len(t) - Len(s) + i]

LEMMA SuffixOf ==
  ASSUME NEW S, NEW s \in Seq(S), NEW t \in Seq(S)
  PROVE  /\ IsSuffix(s, t) <=> EndsWith(t, s)
         /\ Chat!IsSuffix(s, t) <=> EndsWith(t, s)
<1> DEFINE m == Len(s)
           n == Len(t)
           a == [i \in 1..m |-> s[(m - i) + 1]]
           b == [i \in 1..n |-> t[(n - i) + 1]]
<1>1. m \in Nat /\ n \in Nat
  OBVIOUS
<1>2. Reverse(s) = a /\ Reverse(t) = b /\ Chat!Reverse(s) = a /\ Chat!Reverse(t) = b
  BY DEF Reverse, Chat!Reverse
<1>3. a \in Seq(S) /\ b \in Seq(S) /\ Len(a) = m /\ Len(b) = n
  <2>1. \A i \in 1..m : s[(m - i) + 1] \in S
    <3>1. \A i \in 1..m : (m - i) + 1 \in 1..m
      BY <1>1
    <3> QED BY <3>1, ElementOfSeq
  <2>2. \A i \in 1..n : t[(n - i) + 1] \in S
    <3>1. \A i \in 1..n : (n - i) + 1 \in 1..n
      BY <1>1
    <3> QED BY <3>1, ElementOfSeq
  <2> HIDE DEF m, n
  <2>3. a \in [1..m -> S] /\ b \in [1..n -> S]
    BY <2>1, <2>2
  <2> HIDE DEF a, b
  <2> QED BY <1>1, <2>3
<1> DEFINE prefix == m <= n /\ SubSeq(a, 1, m) = SubSeq(b, 1, m)
<1>4. (IsSuffix(s, t) <=> prefix) /\ (Chat!IsSuffix(s, t) <=> prefix)
  <2> HIDE DEF a, b
  <2> QED BY <1>2, <1>3 DEF IsSuffix, IsPrefix, Chat!IsSuffix, Chat!IsPrefix
<1>5. ASSUME m <= n PROVE (SubSeq(a, 1, m) = SubSeq(b, 1, m)) <=> \A i \in 1..m : a[i] = b[i]
  <2> HIDE DEF a, b, m, n
  <2>1. SubSeq(a, 1, m) = [i \in 1..m |-> a[i]]
    BY <1>1, <1>3
  <2>2. SubSeq(b, 1, m) = [i \in 1..m |-> b[i]]
    BY <1>1, <1>3, <1>5
  <2> QED BY <2>1, <2>2
<1>6. ASSUME m <= n
      PROVE  (\A i \in 1..m : a[i] = b[i]) <=> \A i \in 1..m : s[i] = t[(n - m) + i]
  <2>1. \A i \in 1..m : a[i] = s[(m - i) + 1]
    OBVIOUS
  <2>2. \A i \in 1..m : i \in 1..n
    BY <1>1, <1>6
  <2>3. \A i \in 1..m : b[i] = t[(n - i) + 1]
    BY <2>2
  <2> HIDE DEF a, b, m, n
  <2>4. \A i \in 1..m : /\ (m - i) + 1 \in 1..m /\ (m - ((m - i) + 1)) + 1 = i
                        /\ (n - ((m - i) + 1)) + 1 = (n - m) + i
                        /\ (n - m) + ((m - i) + 1) = (n - i) + 1
    BY <1>1, <1>6
  <2>5. ASSUME \A i \in 1..m : a[i] = b[i], NEW i \in 1..m PROVE s[i] = t[(n - m) + i]
    <3> DEFINE j == (m - i) + 1
    <3>1. j \in 1..m /\ (m - j) + 1 = i /\ (n - j) + 1 = (n - m) + i
      BY <2>4
    <3> HIDE DEF j
    <3> QED BY <2>1, <2>3, <2>5, <3>1
  <2>6. ASSUME \A i \in 1..m : s[i] = t[(n - m) + i], NEW i \in 1..m PROVE a[i] = b[i]
    <3> DEFINE j == (m - i) + 1
    <3>1. j \in 1..m /\ (n - m) + j = (n - i) + 1
      BY <2>4
    <3>2. a[i] = s[j] /\ b[i] = t[(n - i) + 1]
      BY <2>1, <2>3
    <3> HIDE DEF j
    <3> QED BY <2>6, <3>1, <3>2
  <2> QED BY <2>5, <2>6
<1>7. prefix <=> EndsWith(t, s)
  <2> HIDE DEF a, b
  <2> QED BY <1>5, <1>6 DEF EndsWith
<1> HIDE DEF prefix
<1> QED BY <1>4, <1>7

\* Where the elements of two sequences are in the two together.
LEMMA ConcatAt ==
  ASSUME NEW S, NEW s \in Seq(S), NEW t \in Seq(S)
  PROVE  /\ s \o t \in Seq(S) /\ Len(s) \in Nat /\ Len(s \o t) = Len(s) + Len(t)
         /\ \A i \in 1..Len(s) : (s \o t)[i] = s[i]
         /\ \A i \in 1..Len(t) : (s \o t)[Len(s) + i] = t[i]
OBVIOUS

\* What a sequence ends with is behind something.
LEMMA SplitAtEnd ==
  ASSUME NEW S, NEW t \in Seq(S), NEW s \in Seq(S), EndsWith(t, s)
  PROVE  \E a \in Seq(S) : t = a \o s /\ Len(a) = Len(t) - Len(s)
<1> DEFINE n == Len(t)
           m == Len(s)
           k == n - m
           a == SubSeq(t, 1, k)
<1>1. n \in Nat /\ m \in Nat /\ k \in 0..n /\ n = k + m /\ \A i \in 1..m : s[i] = t[k + i]
  BY DEF EndsWith
<1>2. a \in Seq(S) /\ Len(a) = k /\ \A i \in 1..k : a[i] = t[i]
  <2>1. \A i \in 1..k : i \in 1..Len(t)
    BY <1>1
  <2>2. \A i \in 1..k : t[i] \in S
    BY <2>1, ElementOfSeq
  <2> HIDE DEF k, n
  <2>3. k \in Int /\ 1 \in Int /\ k - 1 + 1 = k /\ (1 <= k \/ k = 0)
    BY <1>1
  <2>4. /\ a \in Seq(S) /\ Len(a) = IF 1 <= k THEN k - 1 + 1 ELSE 0
        /\ \A i \in 1..k - 1 + 1 : a[i] = t[1 + i - 1]
    BY <2>2, <2>3, SubSeqProperties
  <2> HIDE DEF a
  <2>5. \A i \in 1..k : 1 + i - 1 = i
    BY <2>3
  <2> QED BY <2>3, <2>4, <2>5
<1> HIDE DEF a, k
<1>3. /\ a \o s \in Seq(S) /\ Len(a \o s) = k + m
      /\ \A i \in 1..k : (a \o s)[i] = a[i]
      /\ \A i \in 1..m : (a \o s)[k + i] = s[i]
  <2>1. a \in Seq(S) /\ s \in Seq(S)
    BY <1>2
  <2>2. /\ a \o s \in Seq(S) /\ Len(a \o s) = Len(a) + Len(s)
        /\ \A i \in 1..Len(a) : (a \o s)[i] = a[i]
        /\ \A i \in 1..Len(s) : (a \o s)[Len(a) + i] = s[i]
    BY ONLY <2>1, ConcatAt
  <2> QED BY <1>2, <2>2
<1> DEFINE u == a \o s
<1>4. u \in Seq(S) /\ Len(u) = Len(t)
  BY <1>1, <1>3
<1>5. \A i \in 1..Len(t) : t[i] = u[i]
  <2>1. \A i \in 1..Len(t) : i \in 1..k \/ (i - k \in 1..m /\ k + (i - k) = i)
    BY <1>1
  <2>2. /\ \A i \in 1..k : u[i] = t[i]
        /\ \A i \in 1..m : u[k + i] = t[k + i]
    BY <1>1, <1>2, <1>3
  <2> HIDE DEF u
  <2>3. ASSUME NEW i \in 1..Len(t) PROVE t[i] = u[i]
    <3>1. CASE i \in 1..k
      BY <2>2, <3>1
    <3>2. CASE i - k \in 1..m /\ k + (i - k) = i
      <4>1. u[k + (i - k)] = t[k + (i - k)]
        BY <2>2, <3>2
      <4> QED BY <3>2, <4>1
    <3> QED BY <2>1, <3>1, <3>2
  <2> QED BY <2>3
<1>6. t = u
  <2> HIDE DEF u
  <2> QED BY <1>4, <1>5, SeqEqual
<1> QED BY <1>1, <1>2, <1>6 DEF k

LEMMA EndOfConcat ==
  ASSUME NEW S, NEW a \in Seq(S), NEW s \in Seq(S)
  PROVE  EndsWith(a \o s, s)
<1>1. /\ Len(a) \in Nat /\ Len(s) \in Nat /\ Len(a \o s) = Len(a) + Len(s)
      /\ \A i \in 1..Len(s) : (a \o s)[Len(a) + i] = s[i]
  BY ConcatAt
<1> DEFINE t == a \o s
<1>2. Len(t) - Len(s) = Len(a) /\ Len(s) <= Len(t) /\ \A i \in 1..Len(s) : t[Len(a) + i] = s[i]
  BY <1>1
<1> HIDE DEF t
<1> QED BY <1>2 DEF EndsWith, t

-----------------------------------------------------------------------------
(* Flattened sequences                                                     *)

\* FlattenSeq puts one sequence behind the other.
LEMMA FlattenSteps ==
  ASSUME NEW S, NEW parts \in Seq(Seq(S))
  PROVE  \E f : /\ f[0] = <<>> /\ \A i \in 0..Len(parts) : f[i] \in Seq(S)
                /\ \A i \in 1..Len(parts) : f[i] = f[i - 1] \o parts[i]
                /\ Chat!FlattenSeq(parts) = f[Len(parts)]
<1> DEFINE n == Len(parts)
           T == Seq(S)
           base == <<>>
           step == [i \in 1..n |-> [x \in T |-> x \o parts[i]]]
<1>1. n \in Nat /\ \A i \in 1..n : parts[i] \in Seq(S)
  BY ElementOfSeq
<1>2. PICK f : Iterates(f, n, T, base, step)
  <2>1. \A i \in 1..n, x \in T : x \o parts[i] \in T
    <3> HIDE DEF n
    <3> QED BY <1>1, ConcatProperties
  <2>2. step \in [1..n -> [T -> T]]
    <3> HIDE DEF n, T
    <3> QED BY <2>1
  <2>3. base \in T
    OBVIOUS
  <2> HIDE DEF n, T, base, step
  <2>4. Iterable(n, T, base, step)
    BY <1>1, <2>2, <2>3 DEF Iterable
  <2> QED BY <2>4, Iterated
<1>3. /\ f[0] = <<>> /\ \A i \in 0..n : f[i] \in Seq(S)
      /\ \A i \in 1..n : f[i] = f[i - 1] \o parts[i]
  <2>1. \A i \in 1..n : i - 1 \in 0..n
    BY <1>1
  <2> HIDE DEF n, T
  <2>2. \A i \in 1..n : f[i - 1] \in T /\ f[i] = step[i][f[i - 1]]
    BY <1>2, <2>1 DEF Iterates
  <2>3. f[0] = base /\ \A i \in 0..n : f[i] \in T
    BY <1>2 DEF Iterates
  <2> QED BY <2>2, <2>3 DEF T
<1>4. Chat!FlattenSeq(parts) = f[n]
  <2>1. CASE n = 0
    <3>1. parts = <<>>
      BY <2>1
    <3>2. Chat!FlattenSeq(<<>>) = <<>>
      BY DEF Chat!FlattenSeq
    <3> QED BY <1>3, <2>1, <3>1, <3>2
  <2>2. CASE n # 0
    <3> DEFINE F == [i \in 1..n |-> f[i]]
    <3>1. Chat!FlattenSeq(parts) = FlattenSeq(parts)
      BY DEF Chat!FlattenSeq, FlattenSeq
    <3>2. F[1] = parts[1]
      <4>1. 1 \in 1..n /\ 1 - 1 = 0
        BY <1>1, <2>2
      <4>2. f[1] = <<>> \o parts[1] /\ parts[1] \in Seq(S)
        BY <1>1, <1>3, <4>1
      <4>3. <<>> \o parts[1] = parts[1]
        BY <4>2, ConcatEmptySeq
      <4> QED BY <4>1, <4>2, <4>3
    <3>3. \A i \in 2..n : F[i] = F[i - 1] \o parts[i]
      <4>1. \A i \in 2..n : i \in 1..n /\ i - 1 \in 1..n
        BY <1>1
      <4> HIDE DEF n
      <4> QED BY <1>3, <4>1
    <3>4. DOMAIN F = 1..n /\ F = [i \in 1..n |-> F[i]]
      OBVIOUS
    <3>5. n \in Nat \ {0}
      BY <1>1, <2>2
    <3>6. F[n] = f[n]
      BY <3>5
    <3> HIDE DEF F
    <3>7. FlattenSeq(parts) = F[Len(parts)]
      BY <3>2, <3>3, <3>4, <3>5, Flattened
    <3> QED BY <3>1, <3>6, <3>7
  <2> QED BY <2>1, <2>2
<1> QED BY <1>3, <1>4

\* Of two lists of sequences, one behind the other.
LEMMA FlattenConcat ==
  ASSUME NEW S, NEW P \in Seq(Seq(S)), NEW Q \in Seq(Seq(S))
  PROVE  /\ Chat!FlattenSeq(P) \in Seq(S)
         /\ Chat!FlattenSeq(P \o Q) = Chat!FlattenSeq(P) \o Chat!FlattenSeq(Q)
<1> DEFINE R == P \o Q
           n == Len(P)
           m == Len(Q)
<1>1. /\ R \in Seq(Seq(S)) /\ n \in Nat /\ m \in Nat /\ Len(R) = n + m
      /\ \A i \in 1..n : R[i] = P[i]
      /\ \A i \in 1..m : R[n + i] = Q[i] /\ Q[i] \in Seq(S)
  <2>1. \A i \in 1..Len(Q) : Q[i] \in Seq(S)
    BY ElementOfSeq
  <2>2. Len(Q) \in Nat
    OBVIOUS
  <2> QED BY <2>1, <2>2, ConcatAt
<1> HIDE DEF R
<1>2. PICK p : /\ p[0] = <<>> /\ \A i \in 0..n : p[i] \in Seq(S)
               /\ \A i \in 1..n : p[i] = p[i - 1] \o P[i]
               /\ Chat!FlattenSeq(P) = p[n]
  BY FlattenSteps
<1>3. PICK q : /\ q[0] = <<>> /\ \A i \in 0..m : q[i] \in Seq(S)
               /\ \A i \in 1..m : q[i] = q[i - 1] \o Q[i]
               /\ Chat!FlattenSeq(Q) = q[m]
  BY FlattenSteps
<1>4. PICK f : /\ f[0] = <<>> /\ \A i \in 0..n + m : f[i] \in Seq(S)
               /\ \A i \in 1..n + m : f[i] = f[i - 1] \o R[i]
               /\ Chat!FlattenSeq(R) = f[n + m]
  <2>1. R \in Seq(Seq(S))
    BY <1>1
  <2>2. PICK f : /\ f[0] = <<>> /\ \A i \in 0..Len(R) : f[i] \in Seq(S)
                 /\ \A i \in 1..Len(R) : f[i] = f[i - 1] \o R[i]
                 /\ Chat!FlattenSeq(R) = f[Len(R)]
    BY ONLY <2>1, FlattenSteps
  <2>3. Len(R) = n + m
    BY <1>1
  <2> HIDE DEF n, m
  <2> QED BY <2>2, <2>3
<1> HIDE DEF n, m
<1>5. \A i \in 0..n : f[i] = p[i]
  <2> DEFINE Good == {i \in Int : f[i] = p[i]}
  <2>1. 0 \in Good /\ Good \subseteq Int
    BY <1>2, <1>4
  <2>2. ASSUME NEW i \in 1..n, i - 1 \in Good PROVE i \in Good
    <3>1. i \in 1..n + m /\ i \in Int
      BY <1>1
    <3>2. f[i] = f[i - 1] \o P[i] /\ p[i] = p[i - 1] \o P[i] /\ f[i - 1] = p[i - 1]
      BY <1>1, <1>2, <1>4, <2>2, <3>1
    <3> QED BY <3>1, <3>2
  <2> HIDE DEF Good
  <2>3. \A i \in 0..n : i \in Good
    BY <1>1, <2>1, <2>2, StepByStep
  <2> QED BY <2>3 DEF Good
<1>6. \A i \in 0..m : f[n + i] = p[n] \o q[i]
  <2> DEFINE Good == {i \in Int : f[n + i] = p[n] \o q[i]}
  <2>1. p[n] \in Seq(S) /\ f[n] = p[n] /\ n + 0 = n
    BY <1>1, <1>2, <1>5
  <2>2. 0 \in Good /\ Good \subseteq Int
    <3>1. p[n] \o <<>> = p[n]
      BY <2>1, ConcatEmptySeq
    <3>2. f[n + 0] = p[n] \o q[0]
      BY <1>3, <2>1, <3>1, Zenon
    <3>3. 0 \in Int
      OBVIOUS
    <3> QED BY <3>2, <3>3, Zenon
  <2>3. ASSUME NEW i \in 1..m, i - 1 \in Good PROVE i \in Good
    <3>1. n + i \in 1..n + m /\ (n + i) - 1 = n + (i - 1) /\ i \in Int /\ i - 1 \in 0..m
      BY <1>1
    <3>2. f[n + i] = f[n + (i - 1)] \o Q[i] /\ f[n + (i - 1)] = p[n] \o q[i - 1]
      <4>1. f[n + i] = f[(n + i) - 1] \o R[n + i]
        BY <1>4, <3>1
      <4>2. R[n + i] = Q[i]
        BY <1>1
      <4>3. f[n + (i - 1)] = p[n] \o q[i - 1]
        BY <2>3
      <4> QED BY <3>1, <4>1, <4>2, <4>3
    <3>3. q[i] = q[i - 1] \o Q[i] /\ q[i - 1] \in Seq(S) /\ Q[i] \in Seq(S)
      BY <1>1, <1>3, <3>1
    <3> DEFINE x == p[n]
               y == q[i - 1]
               z == Q[i]
    <3>4. x \in Seq(S) /\ y \in Seq(S) /\ z \in Seq(S)
      BY <2>1, <3>3
    <3>5. f[n + i] = (x \o y) \o z /\ q[i] = y \o z
      BY <3>2, <3>3
    <3> HIDE DEF x, y, z
    <3>6. (x \o y) \o z = x \o (y \o z)
      BY ONLY <3>4, ConcatAssociative
    <3>7. f[n + i] = x \o q[i]
      <4> DEFINE w == q[i]
                 v == f[n + i]
      <4>1. v = (x \o y) \o z /\ w = y \o z
        BY <3>5
      <4> HIDE DEF w, v
      <4>2. v = x \o w
        BY ONLY <4>1, <3>6, Zenon
      <4> QED BY <4>2 DEF w, v
    <3> QED BY <3>1, <3>7 DEF x
  <2> HIDE DEF Good
  <2>4. \A i \in 0..m : i \in Good
    BY <1>1, <2>2, <2>3, StepByStep
  <2> QED BY <2>4 DEF Good
<1>7. f[n + m] = p[n] \o q[m] /\ p[n] \in Seq(S)
  <2>1. n \in 0..n /\ m \in 0..m
    BY <1>1
  <2> QED BY <1>2, <1>6, <2>1, Zenon
<1> QED BY <1>2, <1>3, <1>4, <1>7 DEF R

LEMMA FlattenOne ==
  ASSUME NEW S, NEW x \in Seq(S)
  PROVE  Chat!FlattenSeq(<<x>>) = x /\ Chat!FlattenSeq(<<>>) = <<>>
<1>1. Chat!FlattenSeq(<<>>) = <<>>
  BY DEF Chat!FlattenSeq
<1> DEFINE one == <<x>>
<1>2. one \in Seq(Seq(S)) /\ Len(one) = 1 /\ one[1] = x
  OBVIOUS
<1> HIDE DEF one
<1>3. PICK f : /\ f[0] = <<>> /\ \A i \in 1..1 : f[i] = f[i - 1] \o one[i]
               /\ Chat!FlattenSeq(one) = f[1]
  <2>1. PICK f : /\ f[0] = <<>> /\ \A i \in 1..Len(one) : f[i] = f[i - 1] \o one[i]
                 /\ Chat!FlattenSeq(one) = f[Len(one)]
    BY <1>2, FlattenSteps
  <2> QED BY <1>2, <2>1
<1>4. f[1] = <<>> \o x
  <2>1. 1 \in 1..1 /\ 1 - 1 = 0
    OBVIOUS
  <2>2. f[1] = f[1 - 1] \o one[1]
    BY <1>3, <2>1
  <2> QED BY <1>2, <1>3, <2>1, <2>2
<1>5. <<>> \o x = x
  BY ConcatEmptySeq
<1> QED BY <1>1, <1>3, <1>4, <1>5 DEF one


\* Of lists that are parts of one list.
LEMMA FlattenJoined ==
  ASSUME NEW S, NEW P \in Seq(Seq(S)), NEW Q \in Seq(Seq(S)), NEW R, DOMAIN R = 1..Len(P) + Len(Q),
         R = [i \in DOMAIN R |-> R[i]],
         \A i \in 1..Len(P) : R[i] = P[i], \A i \in 1..Len(Q) : R[Len(P) + i] = Q[i]
  PROVE  Chat!FlattenSeq(R) = Chat!FlattenSeq(P) \o Chat!FlattenSeq(Q)
<1> DEFINE n == Len(P)
           m == Len(Q)
           C == P \o Q
<1>1. /\ C \in Seq(Seq(S)) /\ n \in Nat /\ m \in Nat /\ Len(C) = n + m
      /\ \A i \in 1..n : C[i] = P[i]
      /\ \A i \in 1..m : C[n + i] = Q[i]
  <2>1. Len(Q) \in Nat
    OBVIOUS
  <2> QED BY <2>1, ConcatAt
<1>2. DOMAIN C = 1..n + m /\ C = [i \in DOMAIN C |-> C[i]]
  <2> HIDE DEF C, n, m
  <2>1. C \in [1..Len(C) -> Seq(S)] /\ DOMAIN C = 1..Len(C) /\ Len(C) = n + m
    BY <1>1, LenProperties
  <2> QED BY <2>1
<1> HIDE DEF C
<1>3. \A i \in 1..n + m : C[i] = R[i]
  <2>1. \A i \in 1..n + m : i \in 1..n \/ (i - n \in 1..m /\ n + (i - n) = i)
    BY <1>1
  <2> HIDE DEF n, m
  <2>2. ASSUME NEW i \in 1..n + m PROVE C[i] = R[i]
    <3>1. CASE i \in 1..n
      BY <1>1, <3>1 DEF n
    <3>2. CASE i - n \in 1..m /\ n + (i - n) = i
      <4>1. C[n + (i - n)] = Q[i - n] /\ R[n + (i - n)] = Q[i - n]
        BY <1>1, <3>2 DEF n, m
      <4> QED BY <3>2, <4>1
    <3> QED BY <2>1, <3>1, <3>2
  <2> QED BY <2>2
<1>4. C = R
  <2> HIDE DEF n, m
  <2>1. DOMAIN R = 1..n + m
    BY DEF n, m
  <2> QED BY <1>2, <1>3, <2>1
<1> QED BY <1>4, FlattenConcat DEF C

-----------------------------------------------------------------------------
(* What tokens spell                                                       *)

\* What a token spells.
LEMMA SpellingOfToken ==
  \A token \in Int : /\ Chat!Spelling(token) \in Seq(Int)
                     /\ token # 0 /\ token # 3 => Chat!Spelling(token) = <<token>>
                     /\ token = 0 => Chat!Spelling(token) = <<>>
                     /\ token = 3 => Chat!Spelling(token) = <<2, 1>>
<1>1. \A token \in Int : /\ token # 0 /\ token # 3 => Chat!Spelling(token) = <<token>>
                         /\ token = 0 => Chat!Spelling(token) = <<>>
                         /\ token = 3 => Chat!Spelling(token) = <<2, 1>>
  BY DEF Chat!Spelling, Chat!Pair, Chat!Bos, Chat!Merged
<1>2. \A token \in Int : <<token>> \in Seq(Int) /\ <<>> \in Seq(Int) /\ <<2, 1>> \in Seq(Int)
  OBVIOUS
<1>3. ASSUME NEW token \in Int PROVE Chat!Spelling(token) \in Seq(Int)
  <2> DEFINE x == Chat!Spelling(token)
  <2>1. x = <<token>> \/ x = <<>> \/ x = <<2, 1>>
    BY <1>1
  <2> HIDE DEF x
  <2>2. x \in Seq(Int)
    BY <1>2, <2>1
  <2> QED BY <2>2 DEF x
<1> QED BY <1>1, <1>3

\* Tokens spell what they spell one behind the other.
LEMMA SpelledConcat ==
  ASSUME NEW g \in Seq(Int), NEW h \in Seq(Int)
  PROVE  Chat!Spelled(g) \in Seq(Int) /\ Chat!Spelled(g \o h) = Chat!Spelled(g) \o Chat!Spelled(h)
<1> DEFINE P == [i \in DOMAIN g |-> Chat!Spelling(g[i])]
           Q == [i \in DOMAIN h |-> Chat!Spelling(h[i])]
           R == [i \in DOMAIN (g \o h) |-> Chat!Spelling((g \o h)[i])]
<1>1. \A token \in Int : Chat!Spelling(token) \in Seq(Int)
  BY SpellingOfToken
<1>2. \A s \in Seq(Int) : [i \in DOMAIN s |-> Chat!Spelling(s[i])] \in Seq(Seq(Int))
  <2> SUFFICES ASSUME NEW s \in Seq(Int)
               PROVE  [i \in DOMAIN s |-> Chat!Spelling(s[i])] \in Seq(Seq(Int))
    OBVIOUS
  <2>1. DOMAIN s = 1..Len(s) /\ Len(s) \in Nat /\ \A i \in 1..Len(s) : s[i] \in Int
    BY ElementOfSeq
  <2>2. \A i \in 1..Len(s) : Chat!Spelling(s[i]) \in Seq(Int)
    BY <1>1, <2>1
  <2> QED BY <2>1, <2>2, IsASeq
<1>3. /\ P \in Seq(Seq(Int)) /\ Len(P) = Len(g)
      /\ Q \in Seq(Seq(Int)) /\ Len(Q) = Len(h)
  <2>1. DOMAIN g = 1..Len(g) /\ DOMAIN h = 1..Len(h) /\ Len(g) \in Nat /\ Len(h) \in Nat
    OBVIOUS
  <2>2. P \in Seq(Seq(Int)) /\ Q \in Seq(Seq(Int))
    BY <1>2
  <2>3. DOMAIN P = DOMAIN g /\ DOMAIN Q = DOMAIN h
    OBVIOUS
  <2> HIDE DEF P, Q
  <2> QED BY <2>1, <2>2, <2>3, LenProperties
<1>4. /\ DOMAIN (g \o h) = 1..Len(g) + Len(h)
      /\ \A i \in 1..Len(g) : (g \o h)[i] = g[i] /\ i \in DOMAIN g /\ i \in DOMAIN (g \o h)
      /\ \A i \in 1..Len(h) : /\ (g \o h)[Len(g) + i] = h[i] /\ i \in DOMAIN h
                              /\ Len(g) + i \in DOMAIN (g \o h)
  <2>1. Len(g) \in Nat /\ Len(h) \in Nat /\ DOMAIN g = 1..Len(g) /\ DOMAIN h = 1..Len(h)
    OBVIOUS
  <2>2. /\ g \o h \in Seq(Int) /\ Len(g \o h) = Len(g) + Len(h)
        /\ \A i \in 1..Len(g) : (g \o h)[i] = g[i]
        /\ \A i \in 1..Len(h) : (g \o h)[Len(g) + i] = h[i]
    BY ConcatAt
  <2> DEFINE c == g \o h
             n == Len(g)
             m == Len(h)
  <2>3. DOMAIN c = 1..n + m
    <3>1. c \in Seq(Int) /\ Len(c) = n + m
      BY <2>2
    <3> HIDE DEF c, n, m
    <3> QED BY <3>1, LenProperties
  <2> HIDE DEF c
  <2>4. /\ \A i \in 1..n : i \in 1..n + m
        /\ \A i \in 1..m : n + i \in 1..n + m
    BY <2>1
  <2> QED BY <2>1, <2>2, <2>3, <2>4 DEF c
<1>5. /\ DOMAIN R = 1..Len(P) + Len(Q) /\ R = [i \in DOMAIN R |-> R[i]]
      /\ \A i \in 1..Len(P) : R[i] = P[i]
      /\ \A i \in 1..Len(Q) : R[Len(P) + i] = Q[i]
  <2>1. DOMAIN R = DOMAIN (g \o h) /\ R = [i \in DOMAIN R |-> R[i]]
    OBVIOUS
  <2>2. \A i \in 1..Len(g) : R[i] = P[i]
    <3> DEFINE c == g \o h
    <3>1. \A i \in 1..Len(g) : c[i] = g[i] /\ i \in DOMAIN g /\ i \in DOMAIN c
      BY <1>4
    <3> HIDE DEF c
    <3>2. \A i \in 1..Len(g) : [j \in DOMAIN c |-> Chat!Spelling(c[j])][i] = P[i]
      BY <3>1
    <3> QED BY <3>2 DEF c
  <2>3. \A i \in 1..Len(h) : R[Len(g) + i] = Q[i]
    <3> DEFINE c == g \o h
               n == Len(g)
    <3>1. \A i \in 1..Len(h) : c[n + i] = h[i] /\ i \in DOMAIN h /\ n + i \in DOMAIN c
      BY <1>4
    <3> HIDE DEF c, n
    <3>2. \A i \in 1..Len(h) : [j \in DOMAIN c |-> Chat!Spelling(c[j])][n + i] = Q[i]
      BY <3>1
    <3> QED BY <3>2 DEF c, n
  <2> HIDE DEF P, Q, R
  <2> QED BY <1>3, <1>4, <2>1, <2>2, <2>3
<1>6. /\ Chat!Spelled(g) = Chat!FlattenSeq(P) /\ Chat!Spelled(h) = Chat!FlattenSeq(Q)
      /\ Chat!Spelled(g \o h) = Chat!FlattenSeq(R)
  BY DEF Chat!Spelled
<1> HIDE DEF P, Q, R
<1>7. Chat!FlattenSeq(R) = Chat!FlattenSeq(P) \o Chat!FlattenSeq(Q)
  BY <1>3, <1>5, FlattenJoined
<1>8. Chat!FlattenSeq(P) \in Seq(Int)
  BY <1>3, FlattenConcat
<1> QED BY <1>6, <1>7, <1>8

\* One token, and none.
LEMMA SpelledOne ==
  /\ \A token \in Int : Chat!Spelled(<<token>>) = Chat!Spelling(token)
  /\ Chat!Spelled(<<>>) = <<>>
<1>1. ASSUME NEW token \in Int PROVE Chat!Spelled(<<token>>) = Chat!Spelling(token)
  <2> DEFINE x == Chat!Spelling(token)
  <2>1. x \in Seq(Int)
    <3> HIDE DEF x
    <3> QED BY SpellingOfToken DEF x
  <2>2. [i \in DOMAIN <<token>> |-> Chat!Spelling(<<token>>[i])] = <<x>>
    <3>1. DOMAIN <<token>> = 1..1 /\ <<token>>[1] = token
      OBVIOUS
    <3>2. [i \in DOMAIN <<token>> |-> Chat!Spelling(<<token>>[i])] = [i \in 1..1 |-> x]
      BY <3>1
    <3> HIDE DEF x
    <3>3. [i \in 1..1 |-> x] = <<x>>
      OBVIOUS
    <3> QED BY <3>2, <3>3
  <2> HIDE DEF x
  <2>3. Chat!FlattenSeq(<<x>>) = x
    BY <2>1, FlattenOne
  <2> QED BY <2>2, <2>3 DEF Chat!Spelled, x
<1>2. Chat!Spelled(<<>>) = <<>>
  <2>1. [i \in DOMAIN <<>> |-> Chat!Spelling(<<>>[i])] = <<>>
    OBVIOUS
  <2>2. Chat!FlattenSeq(<<>>) = <<>>
    <3>1. <<>> \in Seq(Int)
      OBVIOUS
    <3> QED BY <3>1, FlattenOne
  <2> QED BY <2>1, <2>2 DEF Chat!Spelled
<1> QED BY <1>1, <1>2

\* A place of a text and the token it gets.
LEMMA PieceOfPlace ==
  ASSUME NEW t \in Seq(Int), NEW i \in 1..Len(t)
  PROVE  Chat!PieceAt(t, i) \in Seq(Int)
<1> DEFINE x == t[i]
           piece == Chat!PieceAt(t, i)
<1>1. x \in Int
  BY ElementOfSeq
<1>2. piece = <<3>> \/ piece = <<>> \/ piece = <<x>>
  BY DEF Chat!PieceAt, Chat!Merged
<1> HIDE DEF x, piece
<1>3. piece \in Seq(Int)
  <2>1. <<3>> \in Seq(Int) /\ <<>> \in Seq(Int) /\ <<x>> \in Seq(Int)
    BY <1>1
  <2> QED BY <1>2, <2>1
<1> QED BY <1>3 DEF piece

\* The pairs of two texts put together, if none is made by it.
LEMMA PairsOfConcat ==
  ASSUME NEW a \in Seq(Int), NEW u \in Seq(Int), ~Chat!PairAt(a \o u, Len(a))
  PROVE  /\ \A i \in 0..Len(a) : Chat!PairAt(a \o u, i) <=> Chat!PairAt(a, i)
         /\ \A j \in 0..Len(u) : Chat!PairAt(a \o u, Len(a) + j) <=> Chat!PairAt(u, j)
<1> DEFINE c == a \o u
           n == Len(a)
           m == Len(u)
<1>1. /\ n \in Nat /\ m \in Nat /\ Len(c) = n + m
      /\ \A i \in 1..n : c[i] = a[i]
      /\ \A i \in 1..m : c[n + i] = u[i]
  <2>1. m \in Nat
    OBVIOUS
  <2> QED BY <2>1, ConcatAt
<1>2. ~Chat!PairAt(c, n)
  OBVIOUS
<1> HIDE DEF c
<1>3. /\ \A i : Chat!PairAt(c, i) <=> i \in 1..n + m - 1 /\ c[i] = 2 /\ c[i + 1] = 1
      /\ \A i : Chat!PairAt(a, i) <=> i \in 1..n - 1 /\ a[i] = 2 /\ a[i + 1] = 1
      /\ \A i : Chat!PairAt(u, i) <=> i \in 1..m - 1 /\ u[i] = 2 /\ u[i + 1] = 1
  <2>1. Chat!Pair[1] = 2 /\ Chat!Pair[2] = 1
    BY DEF Chat!Pair
  <2> QED BY <1>1, <2>1 DEF Chat!PairAt
<1> HIDE DEF n, m
<1>4. ASSUME NEW i \in 0..n PROVE Chat!PairAt(c, i) <=> Chat!PairAt(a, i)
  <2>1. CASE i = n
    <3>1. n \notin 1..n - 1
      BY <1>1
    <3> QED BY <1>2, <1>3, <2>1, <3>1
  <2>2. CASE i = 0
    <3>1. 0 \notin 1..n - 1 /\ 0 \notin 1..n + m - 1
      BY <1>1
    <3> QED BY <1>3, <2>2, <3>1
  <2>3. CASE i # n /\ i # 0
    <3>1. i \in 1..n /\ i + 1 \in 1..n /\ i \in 1..n - 1 /\ i \in 1..n + m - 1
      BY <1>1, <2>3
    <3>2. c[i] = a[i] /\ c[i + 1] = a[i + 1]
      BY <1>1, <3>1
    <3> QED BY <1>3, <3>1, <3>2
  <2> QED BY <2>1, <2>2, <2>3
<1>5. ASSUME NEW j \in 0..m PROVE Chat!PairAt(c, n + j) <=> Chat!PairAt(u, j)
  <2>1. CASE j = 0
    <3>1. n + j = n /\ j \notin 1..m - 1
      BY <1>1, <2>1
    <3> QED BY <1>2, <1>3, <3>1
  <2>2. CASE j = m
    <3>1. n + j \notin 1..n + m - 1 /\ j \notin 1..m - 1
      BY <1>1, <2>2
    <3> QED BY <1>3, <3>1
  <2>3. CASE j # 0 /\ j # m
    <3>1. /\ j \in 1..m /\ j + 1 \in 1..m /\ j \in 1..m - 1 /\ n + j \in 1..n + m - 1
          /\ (n + j) + 1 = n + (j + 1)
      BY <1>1, <2>3
    <3>2. c[n + j] = u[j] /\ c[(n + j) + 1] = u[j + 1]
      BY <1>1, <3>1
    <3> QED BY <1>3, <3>1, <3>2
  <2> QED BY <2>1, <2>2, <2>3
<1> QED BY <1>4, <1>5 DEF c, n, m

\* Texts are cut into pieces one behind the other, unless a token covers both.
LEMMA PiecesConcat ==
  ASSUME NEW tk, NEW a \in Seq(Int), NEW u \in Seq(Int),
         tk.merges => ~Chat!PairAt(a \o u, Len(a))
  PROVE  /\ Chat!Pieces(tk, a) \in Seq(Int) /\ Chat!Pieces(tk, u) \in Seq(Int)
         /\ Chat!Pieces(tk, a \o u) = Chat!Pieces(tk, a) \o Chat!Pieces(tk, u)
<1>1. CASE ~tk.merges
  BY <1>1 DEF Chat!Pieces
<1>2. CASE tk.merges
  <2> DEFINE c == a \o u
             P == [i \in DOMAIN a |-> Chat!PieceAt(a, i)]
             Q == [i \in DOMAIN u |-> Chat!PieceAt(u, i)]
             R == [i \in DOMAIN c |-> Chat!PieceAt(c, i)]
             n == Len(a)
             m == Len(u)
  <2>1. \A t \in Seq(Int) : [i \in DOMAIN t |-> Chat!PieceAt(t, i)] \in Seq(Seq(Int))
    <3> SUFFICES ASSUME NEW t \in Seq(Int)
                 PROVE  [i \in DOMAIN t |-> Chat!PieceAt(t, i)] \in Seq(Seq(Int))
      OBVIOUS
    <3>1. DOMAIN t = 1..Len(t) /\ Len(t) \in Nat
      OBVIOUS
    <3>2. \A i \in 1..Len(t) : Chat!PieceAt(t, i) \in Seq(Int)
      BY PieceOfPlace
    <3> QED BY <3>1, <3>2
  <2>2. /\ n \in Nat /\ m \in Nat /\ DOMAIN a = 1..n /\ DOMAIN u = 1..m
        /\ c \in Seq(Int) /\ Len(c) = n + m
        /\ \A i \in 1..n : c[i] = a[i]
        /\ \A i \in 1..m : c[n + i] = u[i]
    <3>1. m \in Nat /\ DOMAIN a = 1..n /\ DOMAIN u = 1..m
      OBVIOUS
    <3> QED BY <3>1, ConcatAt
  <2>3. P \in Seq(Seq(Int)) /\ Len(P) = n /\ Q \in Seq(Seq(Int)) /\ Len(Q) = m
    <3>1. P \in Seq(Seq(Int)) /\ Q \in Seq(Seq(Int)) /\ DOMAIN P = DOMAIN a /\ DOMAIN Q = DOMAIN u
      BY <2>1
    <3> HIDE DEF P, Q, n, m
    <3> QED BY <2>2, <3>1, LenProperties
  <2>4. /\ \A i \in 0..n : Chat!PairAt(c, i) <=> Chat!PairAt(a, i)
        /\ \A j \in 0..m : Chat!PairAt(c, n + j) <=> Chat!PairAt(u, j)
    BY <1>2, PairsOfConcat
  <2> HIDE DEF c
  <2>5. DOMAIN c = 1..n + m
    <3> HIDE DEF n, m
    <3> QED BY <2>2, LenProperties
  <2>6. \A i \in 1..n : R[i] = P[i]
    <3> HIDE DEF n, m
    <3>1. \A i \in 1..n : i \in DOMAIN c /\ i \in DOMAIN a /\ i \in 0..n /\ i - 1 \in 0..n
      BY <2>2, <2>5
    <3>2. ASSUME NEW i \in 1..n PROVE Chat!PieceAt(c, i) = Chat!PieceAt(a, i)
      <4>1. /\ Chat!PairAt(c, i) <=> Chat!PairAt(a, i)
            /\ Chat!PairAt(c, i - 1) <=> Chat!PairAt(a, i - 1)
            /\ c[i] = a[i]
        BY <2>2, <2>4, <3>1
      <4> QED BY <4>1 DEF Chat!PieceAt
    <3> QED BY <3>1, <3>2
  <2>7. \A i \in 1..m : R[n + i] = Q[i]
    <3> HIDE DEF n, m
    <3>1. \A i \in 1..m : /\ n + i \in DOMAIN c /\ i \in DOMAIN u /\ i \in 0..m /\ i - 1 \in 0..m
                          /\ (n + i) - 1 = n + (i - 1)
      BY <2>2, <2>5
    <3>2. ASSUME NEW i \in 1..m PROVE Chat!PieceAt(c, n + i) = Chat!PieceAt(u, i)
      <4>1. /\ Chat!PairAt(c, n + i) <=> Chat!PairAt(u, i)
            /\ Chat!PairAt(c, (n + i) - 1) <=> Chat!PairAt(u, i - 1)
            /\ c[n + i] = u[i]
        BY <2>2, <2>4, <3>1
      <4> QED BY <4>1 DEF Chat!PieceAt
    <3> QED BY <3>1, <3>2
  <2>8. DOMAIN R = 1..n + m /\ R = [i \in DOMAIN R |-> R[i]]
    BY <2>5
  <2>9. /\ Chat!Pieces(tk, a) = Chat!FlattenSeq(P) /\ Chat!Pieces(tk, u) = Chat!FlattenSeq(Q)
        /\ Chat!Pieces(tk, c) = Chat!FlattenSeq(R)
    BY <1>2 DEF Chat!Pieces
  <2> HIDE DEF P, Q, R, n, m
  <2>10. Chat!FlattenSeq(R) = Chat!FlattenSeq(P) \o Chat!FlattenSeq(Q)
    BY <2>3, <2>6, <2>7, <2>8, FlattenJoined
  <2>11. Chat!FlattenSeq(P) \in Seq(Int) /\ Chat!FlattenSeq(Q) \in Seq(Int)
    BY <2>3, FlattenConcat
  <2> QED BY <2>9, <2>10, <2>11 DEF c
<1> QED BY <1>1, <1>2

\* A letter by itself, and the pair.
LEMMA PiecesOfOne ==
  ASSUME NEW tk
  PROVE  /\ Chat!Pieces(tk, <<>>) = <<>>
         /\ \A x \in Int : Chat!Pieces(tk, <<x>>) = <<x>>
         /\ tk.merges => Chat!Pieces(tk, <<2, 1>>) = <<3>>
<1>1. CASE ~tk.merges
  BY <1>1 DEF Chat!Pieces
<1>2. CASE tk.merges
  <2>1. Chat!Pieces(tk, <<>>) = <<>>
    <3>1. [i \in DOMAIN <<>> |-> Chat!PieceAt(<<>>, i)] = <<>>
      OBVIOUS
    <3>2. Chat!FlattenSeq(<<>>) = <<>>
      <4>1. <<>> \in Seq(Int)
        OBVIOUS
      <4> QED BY <4>1, FlattenOne
    <3> QED BY <1>2, <3>1, <3>2 DEF Chat!Pieces
  <2>2. ASSUME NEW x \in Int PROVE Chat!Pieces(tk, <<x>>) = <<x>>
    <3> DEFINE t == <<x>>
    <3>1. t \in Seq(Int) /\ Len(t) = 1 /\ DOMAIN t = 1..1 /\ t[1] = x
      OBVIOUS
    <3> HIDE DEF t
    <3>2. Chat!PieceAt(t, 1) = <<x>>
      <4>1. ~Chat!PairAt(t, 1) /\ ~Chat!PairAt(t, 1 - 1)
        <5>1. 1 \notin 1..1 - 1 /\ 1 - 1 \notin 1..1 - 1
          OBVIOUS
        <5> QED BY <3>1, <5>1 DEF Chat!PairAt
      <4> QED BY <3>1, <4>1 DEF Chat!PieceAt
    <3>3. [i \in DOMAIN t |-> Chat!PieceAt(t, i)] = <<t>>
      <4>1. [i \in DOMAIN t |-> Chat!PieceAt(t, i)] = [i \in 1..1 |-> t]
        <5>1. Chat!PieceAt(t, 1) = t
          BY <3>2 DEF t
        <5>2. \A i \in 1..1 : i = 1
          OBVIOUS
        <5> QED BY <3>1, <5>1, <5>2
      <4>2. [i \in 1..1 |-> t] = <<t>>
        OBVIOUS
      <4> QED BY <4>1, <4>2
    <3>4. Chat!FlattenSeq(<<t>>) = t
      BY <3>1, FlattenOne
    <3>5. Chat!Pieces(tk, t) = t
      BY <1>2, <3>3, <3>4 DEF Chat!Pieces
    <3> QED BY <3>5 DEF t
  <2>3. Chat!Pieces(tk, <<2, 1>>) = <<3>>
    <3> DEFINE t == <<2, 1>>
               x == <<3>>
    <3>1. t \in Seq(Int) /\ Len(t) = 2 /\ DOMAIN t = 1..2 /\ t[1] = 2 /\ t[2] = 1
      OBVIOUS
    <3>2. Chat!Pair[1] = 2 /\ Chat!Pair[2] = 1
      BY DEF Chat!Pair
    <3> HIDE DEF t
    <3>3. Chat!PairAt(t, 1) /\ ~Chat!PairAt(t, 2)
      <4>1. 1 \in 1..2 - 1 /\ 2 \notin 1..2 - 1 /\ 1 + 1 = 2
        OBVIOUS
      <4> QED BY <3>1, <3>2, <4>1 DEF Chat!PairAt
    <3>4. Chat!PieceAt(t, 1) = x /\ Chat!PieceAt(t, 2) = <<>>
      <4>1. ~Chat!PairAt(t, 2) /\ Chat!PairAt(t, 2 - 1)
        <5>1. 2 - 1 = 1
          OBVIOUS
        <5> QED BY <3>3, <5>1
      <4>2. Chat!PieceAt(t, 1) = x
        <5>1. 1 - 1 \notin 1..2 - 1
          OBVIOUS
        <5>2. ~Chat!PairAt(t, 1 - 1)
          BY <3>1, <5>1 DEF Chat!PairAt
        <5> QED BY <3>3, <5>2 DEF Chat!PieceAt, Chat!Merged
      <4>3. Chat!PieceAt(t, 2) = <<>>
        BY <4>1 DEF Chat!PieceAt
      <4> QED BY <4>2, <4>3
    <3>5. x \in Seq(Int) /\ <<>> \in Seq(Int)
      OBVIOUS
    <3> HIDE DEF x
    <3>6. [i \in DOMAIN t |-> Chat!PieceAt(t, i)] = <<x, <<>>>>
      <4>1. <<x, <<>>>> = [i \in 1..2 |-> IF i = 1 THEN x ELSE <<>>]
        OBVIOUS
      <4>2. \A i \in 1..2 : Chat!PieceAt(t, i) = IF i = 1 THEN x ELSE <<>>
        <5>1. \A i \in 1..2 : i = 1 \/ (i = 2 /\ i # 1)
          OBVIOUS
        <5> QED BY <3>4, <5>1
      <4> QED BY <3>1, <4>1, <4>2
    <3>7. Chat!FlattenSeq(<<x, <<>>>>) = x
      <4> DEFINE P == <<x>>
                 Q == <<<<>>>>
                 R == <<x, <<>>>>
      <4>1. P \in Seq(Seq(Int)) /\ Q \in Seq(Seq(Int)) /\ R = P \o Q
        BY <3>5
      <4>2. Chat!FlattenSeq(P) = x /\ Chat!FlattenSeq(Q) = <<>>
        BY <3>5, FlattenOne
      <4> HIDE DEF P, Q, R
      <4>3. Chat!FlattenSeq(P \o Q) = Chat!FlattenSeq(P) \o Chat!FlattenSeq(Q)
        BY <4>1, FlattenConcat
      <4>4. x \o <<>> = x
        BY <3>5, ConcatEmptySeq
      <4>5. Chat!FlattenSeq(R) = x
        BY <4>1, <4>2, <4>3, <4>4
      <4> QED BY <4>5 DEF R
    <3>8. Chat!Pieces(tk, t) = x
      BY <1>2, <3>6, <3>7 DEF Chat!Pieces
    <3> QED BY <3>8 DEF t, x
  <2> QED BY <2>1, <2>2, <2>3
<1> QED BY <1>1, <1>2

\* A text of letters: none is the special token's, nor the one of a pair.
IsText(t) == t \in Seq(Int) /\ \A i \in 1..Len(t) : t[i] # 0 /\ t[i] # 3

\* A part of a text is one.
LEMMA PartsOfText ==
  ASSUME NEW a \in Seq(Int), NEW u \in Seq(Int)
  PROVE  IsText(a \o u) <=> IsText(a) /\ IsText(u)
<1> DEFINE c == a \o u
           n == Len(a)
           m == Len(u)
<1>1. /\ n \in Nat /\ m \in Nat /\ Len(c) = n + m /\ c \in Seq(Int)
      /\ \A i \in 1..n : c[i] = a[i]
      /\ \A i \in 1..m : c[n + i] = u[i]
  <2>1. m \in Nat
    OBVIOUS
  <2> QED BY <2>1, ConcatAt
<1>2. /\ \A i \in 1..n : i \in 1..n + m
      /\ \A i \in 1..m : n + i \in 1..n + m
      /\ \A i \in 1..n + m : i \in 1..n \/ (i - n \in 1..m /\ n + (i - n) = i)
  BY <1>1
<1> HIDE DEF c, n, m
<1>3. ASSUME IsText(c) PROVE IsText(a) /\ IsText(u)
  <2>1. \A i \in 1..n + m : c[i] # 0 /\ c[i] # 3
    BY <1>1, <1>3 DEF IsText
  <2>2. /\ \A i \in 1..n : a[i] # 0 /\ a[i] # 3
        /\ \A i \in 1..m : u[i] # 0 /\ u[i] # 3
    <3>1. \A i \in 1..m : c[n + i] # 0 /\ c[n + i] # 3
      BY <1>2, <2>1
    <3> QED BY <1>1, <1>2, <2>1, <3>1
  <2> QED BY <2>2 DEF IsText, n, m
<1>4. ASSUME IsText(a), IsText(u) PROVE IsText(c)
  <2>1. /\ \A i \in 1..n : a[i] # 0 /\ a[i] # 3
        /\ \A i \in 1..m : u[i] # 0 /\ u[i] # 3
    BY <1>4 DEF IsText, n, m
  <2>2. ASSUME NEW i \in 1..n + m PROVE c[i] # 0 /\ c[i] # 3
    <3>1. CASE i \in 1..n
      BY <1>1, <2>1, <3>1
    <3>2. CASE i - n \in 1..m /\ n + (i - n) = i
      <4>1. c[n + (i - n)] = u[i - n]
        BY <1>1, <3>2
      <4> QED BY <2>1, <3>2, <4>1
    <3> QED BY <1>2, <3>1, <3>2
  <2> QED BY <1>1, <2>2 DEF IsText
<1> QED BY <1>3, <1>4 DEF c

\* The last letters of a text.
LEMMA LastLetters ==
  ASSUME NEW t \in Seq(Int), NEW k \in 0..Len(t)
  PROVE  \E a \in Seq(Int), u \in Seq(Int) :
           t = a \o u /\ Len(a) = Len(t) - k /\ Len(u) = k
<1> DEFINE n == Len(t)
           u == SubSeq(t, n - k + 1, n)
<1>1. n \in Nat /\ k \in Nat /\ n - k \in 0..n
  OBVIOUS
<1>2. u \in Seq(Int) /\ Len(u) = k /\ \A i \in 1..k : u[i] = t[(n - k) + i]
  <2> DEFINE b == n - k + 1
  <2>1. /\ b \in Int /\ n \in Int /\ n - b + 1 = k /\ (IF b <= n THEN n - b + 1 ELSE 0) = k
        /\ \A i \in 1..k : b + i - 1 = (n - k) + i
    BY <1>1
  <2>2. \A i \in b..n : t[i] \in Int
    <3>1. \A i \in b..n : i \in 1..n
      BY <1>1
    <3> HIDE DEF b
    <3> QED BY <3>1, ElementOfSeq
  <2> HIDE DEF b, n
  <2>3. /\ SubSeq(t, b, n) \in Seq(Int)
        /\ Len(SubSeq(t, b, n)) = IF b <= n THEN n - b + 1 ELSE 0
        /\ \A i \in 1..n - b + 1 : SubSeq(t, b, n)[i] = t[b + i - 1]
    BY <2>1, <2>2, SubSeqProperties
  <2> QED BY <2>1, <2>3 DEF b
<1> HIDE DEF u
<1>3. EndsWith(t, u)
  <2>1. Len(t) - Len(u) = n - k /\ Len(u) <= Len(t)
    BY <1>1, <1>2
  <2> QED BY <1>2, <2>1 DEF EndsWith
<1>4. PICK a \in Seq(Int) : t = a \o u /\ Len(a) = Len(t) - Len(u)
  BY <1>2, <1>3, SplitAtEnd
<1> QED BY <1>2, <1>4

\* A text of two letters.
LEMMA TwoLetters ==
  ASSUME NEW t \in Seq(Int), Len(t) = 2, t[1] = 2, t[2] = 1
  PROVE  t = <<2, 1>>
<1>1. <<2, 1>> \in Seq(Int) /\ Len(<<2, 1>>) = 2 /\ <<2, 1>>[1] = 2 /\ <<2, 1>>[2] = 1
  OBVIOUS
<1> QED BY <1>1, SeqEqual

\* The pieces of a text spell it.
LEMMA PiecesSpell ==
  ASSUME NEW tk, NEW text, IsText(text)
  PROVE  Chat!Pieces(tk, text) \in Seq(Int) /\ Chat!Spelled(Chat!Pieces(tk, text)) = text
<1> DEFINE Cut(t) == Chat!Pieces(tk, t) \in Seq(Int) /\ Chat!Spelled(Chat!Pieces(tk, t)) = t
           UpTo(k) == \A t : IsText(t) /\ Len(t) <= k => Cut(t)
           Good == {k \in Int : UpTo(k)}
<1>1. ASSUME NEW a, NEW u, IsText(a), IsText(u), tk.merges => ~Chat!PairAt(a \o u, Len(a)),
             Cut(a), Cut(u)
      PROVE  Cut(a \o u)
  <2>1. a \in Seq(Int) /\ u \in Seq(Int)
    BY <1>1 DEF IsText
  <2> DEFINE x == Chat!Pieces(tk, a)
             y == Chat!Pieces(tk, u)
  <2>2. x \in Seq(Int) /\ y \in Seq(Int) /\ Chat!Spelled(x) = a /\ Chat!Spelled(y) = u
    BY <1>1
  <2>3. Chat!Pieces(tk, a \o u) = x \o y
    BY <1>1, <2>1, PiecesConcat
  <2> HIDE DEF x, y
  <2>4. x \o y \in Seq(Int) /\ Chat!Spelled(x \o y) = Chat!Spelled(x) \o Chat!Spelled(y)
    BY <2>2, SpelledConcat, ConcatProperties
  <2> QED BY <2>2, <2>3, <2>4
<1>2. \A x \in Int : IsText(<<x>>) => Cut(<<x>>)
  <2> SUFFICES ASSUME NEW x \in Int, IsText(<<x>>) PROVE Cut(<<x>>)
    OBVIOUS
  <2>1. x # 0 /\ x # 3
    <3>1. Len(<<x>>) = 1 /\ 1 \in 1..1 /\ <<x>>[1] = x
      OBVIOUS
    <3> QED BY <3>1 DEF IsText
  <2>2. Chat!Spelled(<<x>>) = <<x>>
    BY <2>1, SpelledOne, SpellingOfToken
  <2>3. Chat!Pieces(tk, <<x>>) = <<x>> /\ <<x>> \in Seq(Int)
    BY PiecesOfOne
  <2> QED BY <2>2, <2>3
<1>3. Cut(<<>>)
  <2>1. <<>> \in Seq(Int)
    OBVIOUS
  <2> QED BY <2>1, PiecesOfOne, SpelledOne
<1>4. tk.merges => Cut(<<2, 1>>)
  <2>1. <<3>> \in Seq(Int) /\ 3 \in Int
    OBVIOUS
  <2>2. Chat!Spelled(<<3>>) = <<2, 1>>
    BY <2>1, SpelledOne, SpellingOfToken
  <2> QED BY <2>1, <2>2, PiecesOfOne
<1> HIDE DEF Cut
<1>5. 0 \in Good /\ Good \subseteq Int
  <2>1. ASSUME NEW t, IsText(t), Len(t) <= 0 PROVE Cut(t)
    <3>1. t \in Seq(Int)
      BY <2>1 DEF IsText
    <3>2. t = <<>>
      BY <2>1, <3>1
    <3> QED BY <1>3, <3>2
  <2>2. 0 \in Int /\ UpTo(0)
    BY <2>1
  <2> QED BY <2>2
<1>6. ASSUME NEW k \in Nat \ {0}, UpTo(k - 1) PROVE UpTo(k)
  <2> SUFFICES ASSUME NEW t, IsText(t), Len(t) <= k PROVE Cut(t)
    OBVIOUS
  <2> HIDE DEF Good
  <2>1. t \in Seq(Int) /\ Len(t) \in Nat
    BY DEF IsText
  <2>2. CASE t = <<>>
    BY <1>3, <2>2
  <2>3. CASE t # <<>> /\ ~(tk.merges /\ Chat!PairAt(t, Len(t) - 1))
    <3>1. 1 \in 0..Len(t)
      BY <2>1, <2>3
    <3>2. PICK a \in Seq(Int), u \in Seq(Int) : t = a \o u /\ Len(a) = Len(t) - 1 /\ Len(u) = 1
      BY <2>1, <3>1, LastLetters
    <3>3. IsText(a) /\ IsText(u)
      BY <3>2, PartsOfText
    <3>4. Len(a) <= k - 1
      BY <2>1, <3>2
    <3>5. Cut(a)
      BY <1>6, <3>3, <3>4
    <3>6. u[1] \in Int /\ u = <<u[1]>>
      BY <3>2
    <3>7. Cut(u)
      BY <1>2, <3>3, <3>6
    <3>8. tk.merges => ~Chat!PairAt(a \o u, Len(a))
      BY <2>3, <3>2
    <3>9. Cut(a \o u)
      BY ONLY <1>1, <3>3, <3>5, <3>7, <3>8
    <3> QED BY <3>2, <3>9
  <2>4. CASE tk.merges /\ Chat!PairAt(t, Len(t) - 1)
    <3> DEFINE n == Len(t)
    <3>1. n \in Nat /\ n - 1 \in 1..n - 1 /\ t[n - 1] = 2 /\ t[n] = 1
      <4>1. Chat!Pair[1] = 2 /\ Chat!Pair[2] = 1
        BY DEF Chat!Pair
      <4>2. (n - 1) + 1 = n
        BY <2>1
      <4>3. n - 1 \in 1..n - 1 /\ t[n - 1] = 2 /\ t[(n - 1) + 1] = 1
        BY <2>4, <4>1 DEF Chat!PairAt
      <4> QED BY <2>1, <4>2, <4>3
    <3>2. 2 \in 0..n
      BY <3>1
    <3>3. PICK a \in Seq(Int), u \in Seq(Int) : t = a \o u /\ Len(a) = n - 2 /\ Len(u) = 2
      BY <2>1, <3>2, LastLetters
    <3>4. u[1] = 2 /\ u[2] = 1
      <4>1. \A i \in 1..Len(u) : (a \o u)[Len(a) + i] = u[i]
        BY ConcatAt
      <4>2. /\ 1 \in 1..2 /\ 2 \in 1..2 /\ (n - 2) + 1 = n - 1 /\ (n - 2) + 2 = n
        BY <3>1
      <4>3. \A i \in 1..2 : t[(n - 2) + i] = u[i]
        BY <3>3, <4>1
      <4> HIDE DEF n
      <4>4. t[(n - 2) + 1] = u[1] /\ t[(n - 2) + 2] = u[2]
        BY <4>2, <4>3
      <4> QED BY <3>1, <4>2, <4>4
    <3>5. u = <<2, 1>>
      BY <3>3, <3>4, TwoLetters
    <3>6. IsText(a) /\ IsText(u)
      BY <2>1, <3>3, PartsOfText
    <3>7. Len(a) <= k - 1
      BY <2>1, <3>3
    <3>8. Cut(a)
      BY <1>6, <3>6, <3>7
    <3>9. ~Chat!PairAt(a \o u, Len(a))
      <4>1. Chat!Pair[2] = 1 /\ (n - 2) + 1 = n - 1
        BY <3>1 DEF Chat!Pair
      <4>2. Chat!PairAt(t, n - 2) => t[n - 1] = 1
        BY <4>1 DEF Chat!PairAt
      <4>3. ~Chat!PairAt(t, n - 2)
        BY <3>1, <4>2
      <4> QED BY <3>3, <4>3
    <3>10. Cut(u)
      BY <1>4, <2>4, <3>5
    <3>11. Cut(a \o u)
      BY ONLY <1>1, <3>6, <3>8, <3>9, <3>10
    <3> QED BY <3>3, <3>11
  <2> QED BY <2>2, <2>3, <2>4
<1>7. Len(text) \in Nat /\ Len(text) \in 0..Len(text)
  BY DEF IsText
<1>8. ASSUME NEW i \in 1..Len(text), i - 1 \in Good PROVE i \in Good
  <2>1. i \in Nat \ {0} /\ i \in Int
    BY <1>7
  <2>2. UpTo(i - 1)
    BY <1>8
  <2>3. UpTo(i)
    BY <1>6, <2>1, <2>2
  <2> QED BY <2>1, <2>3
<1>9. Len(text) \in Good
  <2> HIDE DEF Good
  <2>1. \A i \in 0..Len(text) : i \in Good
    BY <1>5, <1>7, <1>8, StepByStep
  <2> QED BY <1>7, <2>1
<1>10. Cut(text)
  <2>1. Len(text) <= Len(text)
    BY <1>7
  <2> QED BY <1>9, <2>1
<1> QED BY <1>10 DEF Cut

\* A text as it is cut into pieces.
LEMMA LedText ==
  ASSUME NEW tk, NEW s, IsText(s)
  PROVE  /\ IsText(Chat!Led(tk, s)) /\ (s # <<>> => Chat!Led(tk, s) # <<>>)
         /\ Chat!Led(tk, s) = <<4>> \o s \/ (Chat!Led(tk, s) = s /\ (~tk.space \/ s = <<>>))
<1>1. s \in Seq(Int) /\ <<4>> \in Seq(Int) /\ <<>> \o s = s
  BY ConcatEmptySeq DEF IsText
<1>2. CASE tk.space /\ s # <<>>
  <2>1. Chat!Led(tk, s) = <<4>> \o s
    BY <1>2 DEF Chat!Led, Chat!Space
  <2>2. IsText(<<4>>)
    <3>1. Len(<<4>>) = 1 /\ \A i \in 1..1 : <<4>>[i] = 4
      OBVIOUS
    <3> QED BY <1>1, <3>1 DEF IsText
  <2>3. IsText(<<4>> \o s)
    BY <1>1, <2>2, PartsOfText
  <2>4. <<4>> \o s # <<>>
    BY <1>1
  <2> QED BY <2>1, <2>3, <2>4
<1>3. CASE ~(tk.space /\ s # <<>>)
  <2>1. Chat!Led(tk, s) = <<>> \o s
    BY <1>3 DEF Chat!Led
  <2> QED BY <1>1, <1>3, <2>1
<1> QED BY <1>2, <1>3

\* What tokens are decoded as ends with what they spell the end of.
LEMMA EndOfPlain ==
  ASSUME NEW tk, NEW g \in Seq(Int), NEW s, IsText(s), EndsWith(Chat!Spelled(g), Chat!Led(tk, s))
  PROVE  Chat!Plain(tk, g) \in Seq(Int) /\ EndsWith(Chat!Plain(tk, g), s)
<1> DEFINE t == Chat!Spelled(g)
           n == Len(t)
           m == Len(s)
           plain == Chat!Plain(tk, g)
<1>1. t \in Seq(Int) /\ s \in Seq(Int)
  <2>1. <<>> \in Seq(Int)
    OBVIOUS
  <2> QED BY <2>1, SpelledConcat DEF IsText
<1>2. plain = IF tk.space /\ t # <<>> /\ t[1] = 4 THEN Tail(t) ELSE t
  BY DEF Chat!Plain, Chat!Space
<1> HIDE DEF t, plain
<1>3. n \in Nat /\ m \in Nat
  BY <1>1
<1>4. \/ Chat!Led(tk, s) = <<4>> \o s
      \/ Chat!Led(tk, s) = s /\ (~tk.space \/ s = <<>>)
  BY LedText
<1>5. CASE plain = t /\ Chat!Led(tk, s) = s
  <2>1. EndsWith(t, s)
    BY <1>5 DEF t
  <2> QED BY <1>1, <1>5, <2>1 DEF plain
<1>6. CASE Chat!Led(tk, s) = <<4>> \o s
  <2> DEFINE u == <<4>> \o s
  <2>1. Len(u) = 1 + m /\ \A i \in 1..m : u[1 + i] = s[i]
    <3>1. <<4>> \in Seq(Int) /\ Len(<<4>>) = 1
      OBVIOUS
    <3>2. Len(u) = Len(<<4>>) + m /\ \A i \in 1..m : u[Len(<<4>>) + i] = s[i]
      BY <1>1, <3>1, ConcatAt
    <3> QED BY <3>1, <3>2
  <2>2. EndsWith(t, u)
    BY <1>6 DEF t
  <2> HIDE DEF u
  <2>3. 1 + m <= n /\ \A i \in 1..m : s[i] = t[(n - m) + i]
    <3>1. 1 + m <= n /\ \A i \in 1..1 + m : u[i] = t[n - (1 + m) + i]
      BY <2>1, <2>2 DEF EndsWith
    <3> HIDE DEF m, n
    <3>2. \A i \in 1..m : 1 + i \in 1..1 + m /\ n - (1 + m) + (1 + i) = (n - m) + i
      BY <1>3
    <3>3. \A i \in 1..m : u[1 + i] = t[n - (1 + m) + (1 + i)]
      BY <3>1, <3>2
    <3> QED BY <2>1, <3>1, <3>2, <3>3
  <2>4. CASE plain = t
    <3>1. m <= n
      BY <1>3, <2>3
    <3> HIDE DEF m, n
    <3>2. EndsWith(t, s)
      BY <2>3, <3>1 DEF EndsWith, m, n
    <3> QED BY <1>1, <2>4, <3>2 DEF plain
  <2>5. CASE plain = Tail(t)
    <3>1. /\ Tail(t) \in Seq(Int) /\ Len(Tail(t)) = n - 1
          /\ \A i \in 1..n - 1 : Tail(t)[i] = t[i + 1]
      <4>1. t # <<>>
        BY <1>1, <1>3, <2>3
      <4> QED BY <1>1, <4>1, HeadTailProperties
    <3>2. m <= n - 1 /\ \A i \in 1..m : /\ (n - 1 - m) + i \in 1..n - 1
                                        /\ ((n - 1 - m) + i) + 1 = (n - m) + i
      BY <1>3, <2>3
    <3> HIDE DEF m, n
    <3>3. \A i \in 1..m : Tail(t)[(n - 1 - m) + i] = s[i]
      BY <2>3, <3>1, <3>2
    <3>4. EndsWith(Tail(t), s)
      <4>1. Len(Tail(t)) = n - 1 /\ m <= n - 1 /\ \A i \in 1..m : s[i] = Tail(t)[(n - 1 - m) + i]
        BY <3>1, <3>2, <3>3
      <4>2. \A z : Len(z) = n - 1 /\ (\A i \in 1..m : s[i] = z[(n - 1 - m) + i]) => EndsWith(z, s)
        BY <3>2 DEF EndsWith, m
      <4> QED BY ONLY <4>1, <4>2
    <3> QED BY <2>5, <3>1, <3>4 DEF plain
  <2> QED BY <1>2, <2>4, <2>5
<1>7. CASE plain = Tail(t) /\ Chat!Led(tk, s) = s /\ tk.space /\ t # <<>>
  <2>1. s = <<>>
    <3>1. CASE Chat!Led(tk, s) = <<4>> \o s
      <4>1. s = <<4>> \o s
        BY <1>7, <3>1
      <4>2. Len(<<4>> \o s) = 1 + m
        BY <1>1
      <4> QED BY <1>3, <4>1, <4>2
    <3>2. CASE ~tk.space \/ s = <<>>
      BY <1>7, <3>2
    <3> QED BY <1>4, <3>1, <3>2
  <2>2. Tail(t) \in Seq(Int) /\ Len(Tail(t)) \in Nat
    BY <1>1, <1>7, HeadTailProperties
  <2>3. Len(<<>>) = 0 /\ \A i \in 1..0 : FALSE
    OBVIOUS
  <2>4. \A z : Len(z) \in Nat => EndsWith(z, <<>>)
    BY <2>3 DEF EndsWith
  <2>5. EndsWith(Tail(t), <<>>)
    BY <2>2, <2>4
  <2> QED BY <1>7, <2>1, <2>2, <2>5 DEF plain
<1> QED BY <1>2, <1>4, <1>5, <1>6, <1>7 DEF plain

\* The stop strings are texts.
StopTexts(p) == \A i \in DOMAIN p.stop : IsText(p.stop[i])

\* Tokens that end with a stop string's spell it at their end, and with special tokens
\* they have one.
LEMMA StopEncoded ==
  ASSUME NEW tk, NEW s, IsText(s)
  PROVE  /\ Chat!Encode(tk, s) \in Seq(Int)
         /\ \A g \in Seq(Int) : EndsWith(g, Chat!Encode(tk, s)) =>
              /\ EndsWith(Chat!Spelled(g), Chat!Led(tk, s))
              /\ tk.bos => \E j \in 1..Len(g) : g[j] = Chat!Bos
<1> DEFINE u == Chat!Led(tk, s)
           sp == Chat!Specials(tk)
           x == Chat!Pieces(tk, u)
           e == Chat!Encode(tk, s)
<1>1. IsText(u) /\ u \in Seq(Int)
  <2>1. IsText(u)
    BY LedText
  <2> HIDE DEF u
  <2> QED BY <2>1 DEF IsText
<1>2. x \in Seq(Int) /\ Chat!Spelled(x) = u
  BY <1>1, PiecesSpell
<1>3. sp \in Seq(Int) /\ Chat!Spelled(sp) = <<>> /\ (tk.bos => sp = <<0>>)
  <2>1. sp = (IF tk.bos THEN <<0>> ELSE <<>>)
    BY DEF Chat!Specials, Chat!Bos
  <2>2. <<0>> \in Seq(Int) /\ <<>> \in Seq(Int) /\ 0 \in Int
    OBVIOUS
  <2>3. Chat!Spelled(<<0>>) = <<>> /\ Chat!Spelled(<<>>) = <<>>
    BY <2>2, SpelledOne, SpellingOfToken
  <2> HIDE DEF sp
  <2> QED BY <2>1, <2>2, <2>3
<1>4. e = sp \o x
  BY DEF Chat!Encode
<1> HIDE DEF u, sp, x, e
<1>5. e \in Seq(Int) /\ Chat!Spelled(e) = u
  <2>1. Chat!Spelled(sp \o x) = Chat!Spelled(sp) \o Chat!Spelled(x) /\ sp \o x \in Seq(Int)
    BY <1>2, <1>3, SpelledConcat, ConcatProperties
  <2>2. <<>> \o u = u
    BY <1>1, ConcatEmptySeq
  <2> QED BY <1>2, <1>3, <1>4, <2>1, <2>2
<1>6. ASSUME NEW g \in Seq(Int), EndsWith(g, e)
      PROVE  /\ EndsWith(Chat!Spelled(g), u)
             /\ tk.bos => \E j \in 1..Len(g) : g[j] = Chat!Bos
  <2>1. PICK front \in Seq(Int) : g = front \o e /\ Len(front) = Len(g) - Len(e)
    BY <1>5, <1>6, SplitAtEnd
  <2>2. Chat!Spelled(g) = Chat!Spelled(front) \o u /\ Chat!Spelled(front) \in Seq(Int)
    BY <1>5, <2>1, SpelledConcat
  <2>3. EndsWith(Chat!Spelled(g), u)
    BY <1>1, <2>2, EndOfConcat
  <2>4. ASSUME tk.bos PROVE \E j \in 1..Len(g) : g[j] = Chat!Bos
    <3>1. sp = <<0>> /\ e = <<0>> \o x
      BY <1>3, <1>4, <2>4
    <3>2. e[1] = 0 /\ Len(e) \in Nat \ {0}
      BY <1>2, <3>1
    <3>3. /\ Len(front) \in Nat /\ Len(g) = Len(front) + Len(e)
          /\ \A i \in 1..Len(e) : g[Len(front) + i] = e[i]
      BY <1>5, <2>1, ConcatAt
    <3>4. Len(front) + 1 \in 1..Len(g) /\ 1 \in 1..Len(e)
      BY <3>2, <3>3
    <3>5. g[Len(front) + 1] = 0
      BY <3>2, <3>3, <3>4
    <3> QED BY <3>4, <3>5 DEF Chat!Bos
  <2> QED BY <2>3, <2>4
<1> QED BY <1>5, <1>6 DEF u, e

-----------------------------------------------------------------------------
(* Where an answer ends                                                    *)

\* When a request is finished: not before its last token, and then its channel is closed.
Stopping(tk, p, h) ==
  /\ h = [f \in ChatFields |-> h[f]] /\ h.generated \in Seq(Chat!Tokens)
  /\ h.max_tokens = p.max_tokens /\ h.stop_token_ids = Chat!StopTokenIds(tk, p)
  /\ h.closed /\ ~h.expired => Chat!Finishes(h, h.generated)
  /\ \A n \in 1..Len(h.generated) :
       n < Len(h.generated) \/ ~h.closed => ~Chat!Finishes(h, SubSeq(h.generated, 1, n))

\* Finishing depends on the limit and the stop sequences only.
LEMMA SameEnd ==
  ASSUME NEW h, NEW g, g.max_tokens = h.max_tokens, g.stop_token_ids = h.stop_token_ids
  PROVE  \A tokens : Chat!Finishes(g, tokens) <=> Chat!Finishes(h, tokens)
BY DEF Chat!Finishes

LEMMA StoppingPosted ==
  ASSUME NEW tk, NEW p, Chat!Post(tk, p).ok
  PROVE  Stopping(tk, p, Chat!Post(tk, p))
<1> DEFINE h == Chat!Post(tk, p)
           stops == Chat!StopTokenIds(tk, p)
           limit == p.max_tokens
           tokens == IF tk.loaded THEN Chat!Encode(tk, Chat!PromptText(p.messages)) ELSE <<1, 2, 3>>
<1>1. \A status : ~Chat!Rejected(status).ok
  BY DEF Chat!Rejected
<1>2. h = [ok |-> TRUE, status |-> 200, prompt_tokens |-> tokens,
           max_tokens |-> limit, stop_token_ids |-> stops,
           generated |-> <<>>, channel |-> <<>>, closed |-> FALSE, expired |-> FALSE,
           all_tokens |-> <<>>, events |-> <<>>, done |-> FALSE]
  BY <1>1 DEF Chat!Post
<1> HIDE DEF h, tokens, stops, limit
<1>3. /\ h = [f \in ChatFields |-> h[f]]
      /\ h.generated = <<>> /\ h.closed = FALSE /\ h.stop_token_ids = stops
      /\ h.max_tokens = limit
  BY <1>2 DEF ChatFields
<1>4. <<>> \in Seq(Chat!Tokens) /\ \A n \in 1..Len(<<>>) : FALSE
  OBVIOUS
<1>5. Stopping(tk, p, h)
  BY <1>3, <1>4 DEF Stopping, stops, limit
<1> QED BY <1>5 DEF h

LEMMA StoppingGenerated ==
  ASSUME NEW tk, NEW p, NEW h, Stopping(tk, p, h), ~h.closed, NEW token \in Chat!Tokens
  PROVE  Stopping(tk, p, Chat!Generated(h, token))
<1> DEFINE g == Chat!Generated(h, token)
           generated == Append(h.generated, token)
           channel == Append(h.channel, token)
           closed == Chat!Finishes(h, generated)
<1>1. h = [f \in ChatFields |-> h[f]] /\ h.generated \in Seq(Chat!Tokens)
  BY DEF Stopping
<1>2. g = [h EXCEPT !.generated = generated, !.channel = channel, !.closed = closed]
  <2> HIDE DEF closed
  <2> QED BY <1>1 DEF Chat!Generated, ChatFields, closed
<1>3. closed \in BOOLEAN
  BY DEF Chat!Finishes
<1>4. /\ generated \in Seq(Chat!Tokens) /\ Len(generated) = Len(h.generated) + 1
      /\ SubSeq(generated, 1, Len(generated)) = generated
      /\ \A n \in 1..Len(h.generated) : SubSeq(generated, 1, n) = SubSeq(h.generated, 1, n)
  <2> DEFINE s == h.generated
  <2>1. s \in Seq(Chat!Tokens)
    BY <1>1
  <2> HIDE DEF s
  <2> DEFINE t == Append(s, token)
  <2>2. t \in Seq(Chat!Tokens) /\ Len(t) = Len(s) + 1
    BY <2>1, AppendProperties
  <2>3. \A n \in 1..Len(s) : SubSeq(t, 1, n) = SubSeq(s, 1, n)
    <3>1. \A n \in 1..Len(s) : n \in Int /\ n <= Len(s) /\ 1 \in Int /\ 1 >= 1
      BY <2>1
    <3> QED BY <2>1, <3>1, TextGrows
  <2> HIDE DEF t
  <2>4. SubSeq(t, 1, Len(t)) = t
    BY <2>2, SubSeqFull
  <2> QED BY <2>2, <2>3, <2>4 DEF s, t
<1> HIDE DEF g, generated, channel, closed
<1>5. /\ g = [f \in ChatFields |-> g[f]]
      /\ g.generated = generated /\ g.closed = closed /\ g.expired = h.expired
      /\ g.max_tokens = h.max_tokens /\ g.stop_token_ids = h.stop_token_ids
  BY <1>1, <1>2 DEF ChatFields
<1>6. \A tokens : Chat!Finishes(g, tokens) <=> Chat!Finishes(h, tokens)
  BY <1>5, SameEnd
<1>7. closed <=> Chat!Finishes(g, generated)
  BY <1>6 DEF closed
<1>8. ASSUME NEW n \in 1..Len(generated), n < Len(generated) \/ ~closed
      PROVE  ~Chat!Finishes(g, SubSeq(generated, 1, n))
  <2>1. CASE n = Len(generated)
    <3>1. ~closed
      BY <1>1, <1>4, <1>8, <2>1
    <3>2. SubSeq(generated, 1, n) = generated
      BY <1>4, <2>1
    <3> QED BY <1>7, <3>1, <3>2
  <2>2. CASE n # Len(generated)
    <3>1. n \in 1..Len(h.generated)
      BY <1>1, <1>4, <2>2
    <3>2. ~Chat!Finishes(h, SubSeq(h.generated, 1, n))
      BY <3>1 DEF Stopping
    <3> QED BY <1>4, <1>6, <3>1, <3>2
  <2> QED BY <2>1, <2>2
<1>9. Stopping(tk, p, g)
  <2>1. h.stop_token_ids = Chat!StopTokenIds(tk, p) /\ h.max_tokens = p.max_tokens
    BY DEF Stopping
  <2>2. g.closed <=> closed
    BY <1>3, <1>5
  <2> QED BY <1>4, <1>5, <1>7, <1>8, <2>1, <2>2 DEF Stopping
<1> QED BY <1>9 DEF g

\* A step that leaves what was generated, and closes nothing but by the deadline.
LEMMA StoppingKept ==
  ASSUME NEW tk, NEW p, NEW h, Stopping(tk, p, h), NEW g, g = [f \in ChatFields |-> g[f]],
         g.generated = h.generated, g.max_tokens = h.max_tokens,
         g.stop_token_ids = h.stop_token_ids,
         (g.closed = h.closed /\ g.expired = h.expired) \/ (g.closed /\ g.expired)
  PROVE  Stopping(tk, p, g)
<1>1. \A tokens : Chat!Finishes(g, tokens) <=> Chat!Finishes(h, tokens)
  BY SameEnd
<1>2. ~g.closed => ~h.closed
  OBVIOUS
<1> QED BY <1>1, <1>2 DEF Stopping

LEMMA StoppingOthers ==
  ASSUME NEW tk, NEW p, NEW h, Stopping(tk, p, h)
  PROVE  /\ Stopping(tk, p, Chat!Expired(h))
         /\ Stopping(tk, p, Chat!Received(tk, p, h))
         /\ Stopping(tk, p, Chat!Ended(tk, p, h))
<1>1. h = [f \in ChatFields |-> h[f]]
  BY DEF Stopping
<1>2. Stopping(tk, p, Chat!Expired(h))
  <2> DEFINE g == Chat!Expired(h)
  <2>1. g = [h EXCEPT !.closed = TRUE, !.expired = TRUE]
    BY DEF Chat!Expired
  <2> HIDE DEF g
  <2>2. /\ g = [f \in ChatFields |-> g[f]] /\ g.generated = h.generated
        /\ g.max_tokens = h.max_tokens /\ g.stop_token_ids = h.stop_token_ids
        /\ g.closed /\ g.expired
    BY <1>1, <2>1 DEF ChatFields
  <2>3. Stopping(tk, p, g)
    BY <2>2, StoppingKept
  <2> QED BY <2>3 DEF g
<1>3. Stopping(tk, p, Chat!Received(tk, p, h))
  <2> DEFINE g == Chat!Received(tk, p, h)
             all_tokens == Append(h.all_tokens, Head(h.channel))
             channel == Tail(h.channel)
             events == IF p.stream
                         THEN Append(h.events,
                                     [data |-> "delta", content |-> Chat!DeltaContent(tk, all_tokens)])
                         ELSE h.events
  <2>1. g = [h EXCEPT !.channel = channel, !.all_tokens = all_tokens, !.events = events]
    BY <1>1 DEF Chat!Received, ChatFields
  <2> HIDE DEF g, all_tokens, channel, events
  <2>2. /\ g = [f \in ChatFields |-> g[f]] /\ g.generated = h.generated
        /\ g.max_tokens = h.max_tokens /\ g.stop_token_ids = h.stop_token_ids
        /\ g.closed = h.closed /\ g.expired = h.expired
    BY <1>1, <2>1 DEF ChatFields
  <2>3. Stopping(tk, p, g)
    BY <2>2, StoppingKept
  <2> QED BY <2>3 DEF g
<1>4. Stopping(tk, p, Chat!Ended(tk, p, h))
  <2> DEFINE g == Chat!Ended(tk, p, h)
             events == Append(h.events, EndOf(tk, p, h.all_tokens))
  <2>1. g = [h EXCEPT !.done = TRUE, !.events = events]
    BY <1>1 DEF Chat!Ended, EndOf, PromptOf, ChatFields
  <2> HIDE DEF g, events
  <2>2. /\ g = [f \in ChatFields |-> g[f]] /\ g.generated = h.generated
        /\ g.max_tokens = h.max_tokens /\ g.stop_token_ids = h.stop_token_ids
        /\ g.closed = h.closed /\ g.expired = h.expired
    BY <1>1, <2>1 DEF ChatFields
  <2>3. Stopping(tk, p, g)
    BY <2>2, StoppingKept
  <2> QED BY <2>3 DEF g
<1> QED BY <1>2, <1>3, <1>4

\* A call of the model: its stop strings are texts.
LEMMA ChatTexts ==
  ASSUME NEW c \in ChatCalls
  PROVE  StopTexts(c.payload) /\ c.payload.max_tokens \in Int
<1> DEFINE stop == c.payload.stop
<1>1. /\ stop \in {<<>>, <<<<>>>>, <<<<1>>>>, <<<<2, 1>>, <<8>>>>}
      /\ c.payload.max_tokens \in Int
  BY DEF ChatCalls, Chat!NotEncodable
<1> HIDE DEF stop
<1>2. ASSUME NEW i \in DOMAIN stop PROVE IsText(stop[i])
  <2>1. stop[i] \in {<<>>, <<1>>, <<2, 1>>, <<8>>}
    <3>1. CASE stop = <<>>
      BY <1>2, <3>1
    <3>2. CASE stop = <<<<>>>>
      BY <1>2, <3>2
    <3>3. CASE stop = <<<<1>>>>
      BY <1>2, <3>3
    <3>4. CASE stop = <<<<2, 1>>, <<8>>>>
      BY <1>2, <3>4
    <3> QED BY <1>1, <3>1, <3>2, <3>3, <3>4
  <2> DEFINE s == stop[i]
  <2>2. s \in {<<>>, <<1>>, <<2, 1>>, <<8>>}
    BY <2>1
  <2> HIDE DEF s
  <2>3. s \in Seq(Int) /\ \A j \in 1..Len(s) : s[j] # 0 /\ s[j] # 3
    <3>1. CASE s = <<>>
      BY <3>1
    <3>2. CASE s = <<1>>
      BY <3>2
    <3>3. CASE s = <<2, 1>>
      BY <3>3
    <3>4. CASE s = <<8>>
      BY <3>4
    <3> QED BY <2>2, <3>1, <3>2, <3>3, <3>4
  <2> QED BY <2>3 DEF IsText, s
<1> QED BY <1>1, <1>2 DEF StopTexts, stop

\* A stop sequence that is waited for is one of a stop string that can be encoded.
LEMMA WaitedFor ==
  ASSUME NEW tk, NEW p, NEW e
  PROVE  e \in Chat!StopTokenIds(tk, p) <=>
           /\ tk.loaded /\ e # <<>>
           /\ \E i \in DOMAIN p.stop : Chat!Encodes(p.stop[i]) /\ e = Chat!Encode(tk, p.stop[i])
BY DEF Chat!StopTokenIds

\* The tokens are numbers, none is a letter that has none, and what a token spells can be
\* encoded and is a text.
LEMMA TokensSpell ==
  \A g \in Seq(Chat!Tokens) : /\ g \in Seq(Int) /\ IsText(Chat!Spelled(g))
                              /\ Chat!Encodes(Chat!Spelled(g))
<1>1. Chat!Tokens = {0, 1, 2, 3, 4, 9}
  BY DEF Chat!Tokens, Chat!Bos, Chat!Merged, Chat!Space, Chat!NotDecodable
<1>2. ASSUME NEW g \in Seq(Chat!Tokens) PROVE g \in Seq(Int)
  <2>1. Chat!Tokens \subseteq Int
    BY <1>1
  <2>2. Len(g) \in Nat /\ \A i \in 1..Len(g) : g[i] \in Chat!Tokens
    BY ElementOfSeq
  <2>3. \A i \in 1..Len(g) : g[i] \in Int
    BY <2>1, <2>2
  <2>4. g = [i \in 1..Len(g) |-> g[i]]
    OBVIOUS
  <2> QED BY <2>2, <2>3, <2>4
<1> DEFINE Fine(t) == IsText(t) /\ Chat!Encodes(t)
           Good == {n \in Int : \A g \in Seq(Chat!Tokens) : Len(g) = n => Fine(Chat!Spelled(g))}
<1>3. Fine(<<>>)
  <2>1. <<>> \in Seq(Int) /\ Len(<<>>) = 0 /\ DOMAIN <<>> = {} /\ \A i \in 1..0 : FALSE
    OBVIOUS
  <2> QED BY <2>1 DEF IsText, Chat!Encodes
<1>4. ASSUME NEW token \in Chat!Tokens PROVE Fine(Chat!Spelling(token))
  <2>1. \A x \in {1, 2, 4, 9} : Fine(<<x>>)
    <3> SUFFICES ASSUME NEW x \in {1, 2, 4, 9} PROVE Fine(<<x>>)
      OBVIOUS
    <3>1. /\ <<x>> \in Seq(Int) /\ Len(<<x>>) = 1 /\ \A i \in 1..1 : <<x>>[i] = x
          /\ DOMAIN <<x>> = 1..1 /\ x # 0 /\ x # 3 /\ x # 8
      OBVIOUS
    <3> QED BY <3>1 DEF IsText, Chat!Encodes, Chat!NotEncodable
  <2>2. Fine(<<2, 1>>)
    <3>1. /\ <<2, 1>> \in Seq(Int) /\ Len(<<2, 1>>) = 2 /\ DOMAIN <<2, 1>> = 1..2
          /\ \A i \in 1..2 : <<2, 1>>[i] \in {1, 2}
      OBVIOUS
    <3> QED BY <3>1 DEF IsText, Chat!Encodes, Chat!NotEncodable
  <2> HIDE DEF Fine
  <2>3. /\ token = 0 => Chat!Spelling(token) = <<>>
        /\ token = 3 => Chat!Spelling(token) = <<2, 1>>
        /\ token # 0 /\ token # 3 => Chat!Spelling(token) = <<token>>
    <3>1. token \in Int
      BY <1>1
    <3> QED BY <3>1, SpellingOfToken
  <2>4. token = 0 \/ token = 3 \/ (token # 0 /\ token # 3 /\ token \in {1, 2, 4, 9})
    BY <1>1
  <2> QED BY <1>3, <2>1, <2>2, <2>3, <2>4
<1>5. ASSUME NEW t, NEW u, Fine(t), Fine(u) PROVE Fine(t \o u)
  <2>1. t \in Seq(Int) /\ u \in Seq(Int) /\ IsText(t) /\ IsText(u)
    BY <1>5 DEF IsText
  <2>2. IsText(t \o u)
    BY <2>1, PartsOfText
  <2>3. Chat!Encodes(t \o u)
    <3> DEFINE c == t \o u
               n == Len(t)
               m == Len(u)
    <3>1. /\ n \in Nat /\ m \in Nat /\ Len(c) = n + m /\ c \in Seq(Int)
          /\ \A i \in 1..n : c[i] = t[i]
          /\ \A i \in 1..m : c[n + i] = u[i]
      <4>1. m \in Nat
        BY <2>1
      <4> QED BY <2>1, <4>1, ConcatAt
    <3>2. DOMAIN t = 1..n /\ DOMAIN u = 1..m
      BY <2>1
    <3> HIDE DEF c, n, m
    <3>3. DOMAIN c = 1..n + m
      BY <3>1, LenProperties
    <3>4. /\ \A i \in 1..n : t[i] # Chat!NotEncodable
          /\ \A i \in 1..m : u[i] # Chat!NotEncodable
      BY <1>5, <3>2 DEF Chat!Encodes
    <3>5. \A i \in 1..n + m : i \in 1..n \/ (i - n \in 1..m /\ n + (i - n) = i)
      BY <3>1
    <3>6. ASSUME NEW i \in 1..n + m PROVE c[i] # Chat!NotEncodable
      <4>1. CASE i \in 1..n
        BY <3>1, <3>4, <4>1
      <4>2. CASE i - n \in 1..m /\ n + (i - n) = i
        <5>1. c[n + (i - n)] = u[i - n]
          BY <3>1, <4>2
        <5> QED BY <3>4, <4>2, <5>1
      <4> QED BY <3>5, <4>1, <4>2
    <3> QED BY <3>3, <3>6 DEF Chat!Encodes, c
  <2> QED BY <2>2, <2>3
<1> HIDE DEF Fine
<1>6. 0 \in Good /\ Good \subseteq Int
  <2>1. ASSUME NEW g \in Seq(Chat!Tokens), Len(g) = 0 PROVE Fine(Chat!Spelled(g))
    <3>1. g = <<>>
      BY <2>1
    <3> QED BY <1>3, <3>1, SpelledOne
  <2> QED BY <2>1
<1>7. ASSUME NEW n \in Nat \ {0}, n - 1 \in Good PROVE n \in Good
  <2> SUFFICES ASSUME NEW g \in Seq(Chat!Tokens), Len(g) = n PROVE Fine(Chat!Spelled(g))
    OBVIOUS
  <2> DEFINE a == SubSeq(g, 1, n - 1)
             x == g[n]
  <2>1. a \in Seq(Chat!Tokens) /\ Len(a) = n - 1 /\ x \in Chat!Tokens /\ g = a \o <<x>>
    <3>1. g # <<>> /\ n \in 1..Len(g)
      OBVIOUS
    <3>2. x \in Chat!Tokens
      BY <3>1, ElementOfSeq
    <3>3. EndsWith(g, <<x>>) /\ <<x>> \in Seq(Chat!Tokens) /\ Len(<<x>>) = 1
      <4>1. Len(<<x>>) = 1 /\ <<x>> \in Seq(Chat!Tokens) /\ <<x>>[1] = x
        BY <3>2
      <4>2. \A i \in 1..1 : (n - 1) + i = n /\ i = 1
        OBVIOUS
      <4> QED BY <4>1, <4>2 DEF EndsWith
    <3>4. PICK b \in Seq(Chat!Tokens) : g = b \o <<x>> /\ Len(b) = Len(g) - Len(<<x>>)
      BY <3>3, SplitAtEnd
    <3>5. Len(b) = n - 1 /\ \A i \in 1..n - 1 : b[i] = g[i]
      BY <3>3, <3>4
    <3>6. b = a
      <4>1. n - 1 \in Nat /\ \A i \in 1..n - 1 : i \in 1..Len(g)
        OBVIOUS
      <4>2. a = [i \in 1..n - 1 |-> g[i]]
        BY <4>1
      <4>3. b = [i \in 1..n - 1 |-> b[i]]
        BY <3>5
      <4> QED BY <3>5, <4>2, <4>3
    <3> QED BY <3>2, <3>4, <3>5, <3>6
  <2> HIDE DEF a, x
  <2>2. Fine(Chat!Spelled(a)) /\ Fine(Chat!Spelling(x))
    BY <1>4, <1>7, <2>1
  <2>3. Chat!Spelled(g) = Chat!Spelled(a) \o Chat!Spelling(x)
    <3>1. a \in Seq(Int) /\ x \in Int /\ <<x>> \in Seq(Int)
      BY <1>1, <1>2, <2>1
    <3>2. Chat!Spelled(a \o <<x>>) = Chat!Spelled(a) \o Chat!Spelled(<<x>>)
      BY ONLY <3>1, SpelledConcat
    <3>3. Chat!Spelled(<<x>>) = Chat!Spelling(x)
      BY ONLY <3>1, SpelledOne
    <3>4. g = a \o <<x>>
      BY <2>1
    <3> QED BY ONLY <3>2, <3>3, <3>4
  <2> QED BY <1>5, <2>2, <2>3
<1>8. ASSUME NEW n \in Nat PROVE n \in Good
  <2>1. \A i \in 1..n : i - 1 \in Good => i \in Good
    BY <1>7
  <2> HIDE DEF Good
  <2>2. \A i \in 0..n : i \in Good
    BY <1>6, <2>1, StepByStep
  <2> QED BY <2>2
<1>9. ASSUME NEW g \in Seq(Chat!Tokens) PROVE Fine(Chat!Spelled(g))
  <2>1. Len(g) \in Nat
    OBVIOUS
  <2> QED BY <1>8, <2>1
<1> QED BY <1>2, <1>9 DEF Fine

\* An answer that ends before its limit and in time ends with a stop string, as it is when
\* it stands alone, and has a special token where the tokenizer begins with one.
LEMMA CutByStop ==
  ASSUME NEW tk, NEW p, NEW h, Stopping(tk, p, h), StopTexts(p), p.max_tokens \in Int,
         Len(h.generated) < h.max_tokens, h.closed, ~h.expired
  PROVE  /\ tk.loaded
         /\ \E i \in DOMAIN p.stop : /\ IsSuffix(p.stop[i], Chat!Plain(tk, h.generated))
                                     /\ IsSuffix(Chat!Led(tk, p.stop[i]), Chat!Spelled(h.generated))
         /\ tk.bos => \E i \in DOMAIN h.generated : h.generated[i] = Chat!Bos
<1> DEFINE g == h.generated
<1>1. g \in Seq(Int) /\ IsText(Chat!Spelled(g)) /\ Len(g) \in Nat
  <2>1. g \in Seq(Chat!Tokens)
    BY DEF Stopping
  <2> HIDE DEF g
  <2>2. Len(g) \in Nat
    BY <2>1
  <2> QED BY <2>1, <2>2, TokensSpell
<1>2. Len(g) < h.max_tokens /\ Chat!Finishes(h, g)
  BY DEF Stopping
<1>3. ~(Len(g) >= h.max_tokens)
  <2>1. h.max_tokens \in Int /\ Len(g) \in Int
    BY <1>1 DEF Stopping
  <2> HIDE DEF g
  <2> QED BY <1>2, <2>1
<1>4. PICK e \in Chat!StopTokenIds(tk, p) : Chat!IsSuffix(e, g)
  BY <1>2, <1>3 DEF Chat!Finishes, Stopping
<1>5. tk.loaded
  BY <1>4, WaitedFor
<1>6. PICK i \in DOMAIN p.stop : Chat!Encodes(p.stop[i]) /\ e = Chat!Encode(tk, p.stop[i])
  BY <1>4, WaitedFor
<1> DEFINE s == p.stop[i]
<1>7. IsText(s)
  BY <1>6 DEF StopTexts
<1> HIDE DEF g, s
<1>8. /\ e \in Seq(Int)
      /\ EndsWith(g, e) => /\ EndsWith(Chat!Spelled(g), Chat!Led(tk, s))
                           /\ tk.bos => \E j \in 1..Len(g) : g[j] = Chat!Bos
  <2>1. e = Chat!Encode(tk, s)
    BY <1>6 DEF s
  <2> QED BY <1>1, <1>7, <2>1, StopEncoded
<1>9. EndsWith(g, e)
  BY <1>1, <1>4, <1>8, SuffixOf DEF g
<1>10. Chat!Plain(tk, g) \in Seq(Int) /\ EndsWith(Chat!Plain(tk, g), s)
  BY <1>1, <1>7, <1>8, <1>9, EndOfPlain
<1>11. s \in Seq(Int) /\ Chat!Led(tk, s) \in Seq(Int) /\ Chat!Spelled(g) \in Seq(Int)
  <2>1. IsText(Chat!Led(tk, s))
    BY <1>7, LedText
  <2> QED BY <1>1, <1>7, <2>1 DEF IsText
<1>12. IsSuffix(s, Chat!Plain(tk, g)) /\ IsSuffix(Chat!Led(tk, s), Chat!Spelled(g))
  BY <1>8, <1>9, <1>10, <1>11, SuffixOf
<1>13. DOMAIN g = 1..Len(g)
  BY <1>1
<1> QED BY <1>5, <1>6, <1>8, <1>9, <1>12, <1>13 DEF g, s

\* Behind a stop string that is spelled in the tokenizer's own tokens an answer goes on
\* only if the string's first letter and the one before it are one token.
LEMMA NothingBehindStop ==
  ASSUME NEW tk, NEW p, NEW h, Stopping(tk, p, h), StopTexts(p), tk.loaded, ~tk.bos,
         NEW n \in 1..Len(h.generated) - 1, NEW i \in DOMAIN p.stop, p.stop[i] # <<>>,
         NEW text, text = Chat!Spelled(SubSeq(h.generated, 1, n)),
         SubSeq(h.generated, 1, n) = Chat!Pieces(tk, text),
         IsSuffix(Chat!Led(tk, p.stop[i]), text)
  PROVE  tk.merges /\ Chat!PairAt(text, Len(text) - Len(Chat!Led(tk, p.stop[i])))
<1> DEFINE g == h.generated
           s == p.stop[i]
           t == SubSeq(g, 1, n)
           u == Chat!Led(tk, s)
<1>1. g \in Seq(Chat!Tokens)
  BY DEF Stopping
<1>2. n \in 1..Len(g) /\ n < Len(g)
  <2>1. Len(g) \in Nat /\ n \in 1..Len(g) - 1
    BY <1>1
  <2> HIDE DEF g
  <2> QED BY <2>1
<1>3. t \in Seq(Chat!Tokens)
  <2>1. \A j \in 1..n : j \in 1..Len(g)
    BY <1>1, <1>2
  <2> HIDE DEF g
  <2>2. \A j \in 1..n : g[j] \in Chat!Tokens
    BY <1>1, <2>1, ElementOfSeq
  <2> QED BY <1>1, <1>2, <2>2
<1>4. ~Chat!Finishes(h, t)
  BY <1>2 DEF Stopping
<1>5. IsText(s) /\ s # <<>>
  BY DEF StopTexts
<1>6. t = Chat!Pieces(tk, text) /\ text = Chat!Spelled(t) /\ IsSuffix(u, text)
  OBVIOUS
<1> HIDE DEF g, s, t
<1>7. IsText(u) /\ u # <<>>
  BY <1>5, LedText
<1> HIDE DEF u
<1>8. t \in Seq(Int) /\ IsText(text) /\ Chat!Encodes(text)
  BY <1>3, <1>6, TokensSpell
<1>9. text \in Seq(Int) /\ u \in Seq(Int) /\ s \in Seq(Int)
  BY <1>5, <1>7, <1>8 DEF IsText
<1>10. PICK a \in Seq(Int) : text = a \o u /\ Len(a) = Len(text) - Len(u)
  <2>1. EndsWith(text, u)
    BY <1>6, <1>9, SuffixOf
  <2> QED BY <1>9, <2>1, SplitAtEnd
<1>11. ASSUME tk.merges => ~Chat!PairAt(text, Len(a)) PROVE FALSE
  <2> DEFINE e == Chat!Pieces(tk, u)
  <2>1. e \in Seq(Int) /\ Chat!Spelled(e) = u
    BY <1>7, PiecesSpell
  <2>2. t = Chat!Pieces(tk, a) \o e /\ Chat!Pieces(tk, a) \in Seq(Int)
    <3>1. tk.merges => ~Chat!PairAt(a \o u, Len(a))
      BY <1>10, <1>11
    <3>2. /\ Chat!Pieces(tk, a) \in Seq(Int)
          /\ Chat!Pieces(tk, a \o u) = Chat!Pieces(tk, a) \o Chat!Pieces(tk, u)
      BY <1>9, <3>1, PiecesConcat
    <3> QED BY <1>6, <1>10, <3>2
  <2>3. Chat!Encode(tk, s) = e
    <3>1. Chat!Encode(tk, s) = <<>> \o e
      BY DEF Chat!Encode, Chat!Specials, u
    <3> QED BY <2>1, <3>1, ConcatEmptySeq
  <2> HIDE DEF e
  <2>4. e # <<>>
    BY <1>7, <2>1, SpelledOne
  <2>5. Chat!Encodes(s)
    <3>1. EndsWith(u, s)
      <4>1. u = <<4>> \o s \/ u = s
        BY <1>5, LedText DEF u
      <4>2. <<>> \o s = s /\ <<4>> \in Seq(Int) /\ <<>> \in Seq(Int)
        BY <1>9, ConcatEmptySeq
      <4>3. EndsWith(<<4>> \o s, s) /\ EndsWith(<<>> \o s, s)
        BY <1>9, <4>2, EndOfConcat
      <4> QED BY <4>1, <4>2, <4>3
    <3>2. PICK b \in Seq(Int) : u = b \o s
      BY <1>9, <3>1, SplitAtEnd
    <3> DEFINE m == Len(text)
               k == Len(s)
               d == a \o b
    <3>3. text = d \o s /\ d \in Seq(Int)
      <4>1. (a \o b) \o s = a \o (b \o s) /\ a \o b \in Seq(Int)
        <5>1. a \in Seq(Int) /\ b \in Seq(Int) /\ s \in Seq(Int)
          BY <1>9
        <5> QED BY ONLY <5>1, ConcatAssociative, ConcatProperties
      <4> QED BY <1>10, <3>2, <4>1
    <3> HIDE DEF d
    <3>4. \A j \in 1..k : Len(d) + j \in DOMAIN text /\ text[Len(d) + j] = s[j]
      <4>1. /\ Len(d) \in Nat /\ Len(d \o s) = Len(d) + Len(s)
            /\ \A j \in 1..Len(s) : (d \o s)[Len(d) + j] = s[j]
        BY <1>9, <3>3, ConcatAt
      <4>2. m = Len(d) + k /\ k \in Nat /\ \A j \in 1..k : text[Len(d) + j] = s[j]
        BY <1>9, <3>3, <4>1
      <4>3. DOMAIN text = 1..m
        BY <1>9
      <4> HIDE DEF m, k
      <4>4. \A j \in 1..k : Len(d) + j \in 1..m
        BY <4>1, <4>2
      <4> QED BY <4>2, <4>3, <4>4
    <3>5. DOMAIN s = 1..k
      BY <1>9
    <3> QED BY <1>8, <3>4, <3>5 DEF Chat!Encodes
  <2>6. e \in h.stop_token_ids
    <3>1. e \in Chat!StopTokenIds(tk, p)
      BY <2>3, <2>4, <2>5, WaitedFor DEF s
    <3> QED BY <3>1 DEF Stopping
  <2>7. Chat!IsSuffix(e, t)
    <3>1. EndsWith(t, e)
      BY <2>1, <2>2, EndOfConcat
    <3> QED BY <1>8, <2>1, <3>1, SuffixOf
  <2> QED BY <1>4, <2>6, <2>7 DEF Chat!Finishes
<1> QED BY <1>10, <1>11 DEF u, s

\* Where the requests of the chats end.
StoppingOK ==
  call.op = "chat" /\ result # NoResult /\ result.ok => Stopping(call.tk, call.payload, result)

\* However tokens, deadline and reads follow each other, an answer ends where the tokens
\* of a stop string alone are matched, and nowhere else but at its limit and its deadline:
\* with every tokenizer the text then ends with the string, but not every text that does
\* has ended (api/openai.rs, request.rs, worker.rs).
THEOREM StopsAtTokens == Spec => []StopStringsAtTokens
<1>1. Init => StoppingOK
  BY DEF Init, StoppingOK
<1>2. ASSUME StoppingOK, [Next]_<<call, result>> PROVE StoppingOK'
  <2> SUFFICES ASSUME call.op = "chat", UNCHANGED call, result'.ok,
                      ChatPost \/ ChatGenerate \/ ChatExpire \/ ChatReceive \/ ChatEnd
               PROVE  Stopping(call.tk, call.payload, result')
    <3>1. CASE UNCHANGED <<call, result>>
      BY <1>2, <3>1 DEF StoppingOK
    <3>2. CASE Next
      BY <3>2, StepOfCall DEF StoppingOK
    <3> QED BY <1>2, <3>1, <3>2
  <2>1. Answering => Stopping(call.tk, call.payload, result)
    BY <1>2 DEF StoppingOK, Answering
  <2>2. CASE ChatPost
    BY <2>2, StoppingPosted DEF ChatPost
  <2>3. CASE ChatGenerate
    BY <2>1, <2>3, StoppingGenerated, KnownTokens DEF ChatGenerate
  <2>4. CASE ChatExpire
    BY <2>1, <2>4, StoppingOthers DEF ChatExpire
  <2>5. CASE ChatReceive
    BY <2>1, <2>5, StoppingOthers DEF ChatReceive
  <2>6. CASE ChatEnd
    BY <2>1, <2>6, StoppingOthers DEF ChatEnd
  <2> QED BY <2>2, <2>3, <2>4, <2>5, <2>6
<1>3. CallOK /\ StoppingOK => StopStringsAtTokens
  <2> SUFFICES ASSUME CallOK, StoppingOK, call.op = "chat", result # NoResult, result.ok
               PROVE  StopStringsAtTokens
    BY DEF StopStringsAtTokens
  <2> DEFINE tk == call.tk
             p == call.payload
             g == result.generated
             stops == {p.stop[i] : i \in DOMAIN p.stop}
  <2>1. Stopping(tk, p, result)
    BY DEF StoppingOK
  <2>2. StopTexts(p) /\ p.max_tokens \in Int
    BY ChatTexts DEF CallOK
  <2> HIDE DEF tk, p
  <2>3. ASSUME Len(g) < result.max_tokens, result.closed, ~result.expired
        PROVE  /\ tk.loaded
               /\ \E s \in stops : /\ IsSuffix(s, Chat!Plain(tk, g))
                                   /\ IsSuffix(Chat!Led(tk, s), Chat!Spelled(g))
               /\ tk.bos => \E i \in DOMAIN g : g[i] = Chat!Bos
    BY <2>1, <2>2, <2>3, CutByStop
  <2>4. ASSUME tk.loaded, ~tk.bos, NEW n \in 1..Len(g) - 1, NEW s \in stops \ {<<>>},
               NEW text, text = Chat!Spelled(SubSeq(g, 1, n)),
               SubSeq(g, 1, n) = Chat!Pieces(tk, text), IsSuffix(Chat!Led(tk, s), text)
        PROVE  tk.merges /\ Chat!PairAt(text, Len(text) - Len(Chat!Led(tk, s)))
    <3>1. PICK i \in DOMAIN p.stop : s = p.stop[i]
      BY <2>4
    <3>2. p.stop[i] # <<>>
      BY <2>4, <3>1
    <3>3. IsSuffix(Chat!Led(tk, p.stop[i]), text)
      BY <2>4, <3>1
    <3> QED BY <2>1, <2>2, <2>4, <3>1, <3>2, <3>3, NothingBehindStop
  <2> QED BY <2>3, <2>4 DEF StopStringsAtTokens, tk, p
<1>4. StoppingOK /\ [Next]_<<call, result>> => StoppingOK'
  BY <1>2
<1> QED BY <1>1, <1>3, <1>4, CallsStart, CallsKept, PTL DEF Spec

-----------------------------------------------------------------------------
(* Sampling                                                                *)

\* The sampler's cardinality is the cardinality.
LEMMA Counted == \A S : Sampler!Cardinality(S) = Cardinality(S)
BY DEF Sampler!Cardinality, Cardinality

\* The total of a set is that of all but one of its elements and that one's weight.
LEMMA WeightOfRest ==
  ASSUME NEW T, IsFiniteSet(T), NEW b \in Nat, NEW w, \A j \in T : w[j] \in 0..b, NEW i \in T
  PROVE  /\ Sampler!Total(w, T) \in Nat /\ Sampler!Total(w, T \ {i}) \in Nat
         /\ Sampler!Total(w, T) = Sampler!Total(w, T \ {i}) + w[i]
<1> DEFINE Of(S) == UNION {{j} \X (1..w[j]) : j \in S}
           R == T \ {i}
           one == {i} \X (1..w[i])
<1>1. Sampler!Total(w, T) = Cardinality(Of(T)) /\ Sampler!Total(w, R) = Cardinality(Of(R))
  BY Counted DEF Sampler!Total
<1>2. Of(T) = Of(R) \cup one /\ Of(R) \cap one = {}
  OBVIOUS
<1>3. IsFiniteSet(Of(T))
  <2>1. Of(T) \in SUBSET (T \X (1..b))
    <3> SUFFICES ASSUME NEW j \in T, NEW k \in 1..w[j] PROVE k \in 1..b
      OBVIOUS
    <3> QED OBVIOUS
  <2>2. IsFiniteSet(T \X (1..b))
    <3>1. IsFiniteSet(1..b)
      BY FS_Interval
    <3> QED BY <3>1, FS_Product
  <2> HIDE DEF Of
  <2> QED BY <2>1, <2>2, FS_Subset
<1>4. IsFiniteSet(one) /\ Cardinality(one) = w[i]
  <2> DEFINE v == w[i]
             I == {i}
             J == 1..v
  <2>1. v \in Nat
    OBVIOUS
  <2> HIDE DEF v
  <2>2. IsFiniteSet(J) /\ Cardinality(J) = v
    BY <2>1, FS_Interval
  <2>3. IsFiniteSet(I) /\ Cardinality(I) = 1
    BY FS_Singleton
  <2> HIDE DEF I, J
  <2>4. IsFiniteSet(I \X J) /\ Cardinality(I \X J) = 1 * v
    BY <2>2, <2>3, FS_Product
  <2> QED BY <2>1, <2>4 DEF I, J, v
<1> HIDE DEF Of, one
<1>5. IsFiniteSet(Of(R))
  <2>1. Of(R) \in SUBSET Of(T)
    BY <1>2
  <2> QED BY <1>3, <2>1, FS_Subset
<1>6. Cardinality(Of(R) \cup one)
        = Cardinality(Of(R)) + Cardinality(one) - Cardinality(Of(R) \cap one)
  BY <1>4, <1>5, FS_Union, Zenon
<1>7. Cardinality(Of(R) \cap one) = 0
  BY <1>2, FS_EmptySet
<1>8. Cardinality(Of(R)) \in Nat /\ Cardinality(Of(T)) \in Nat
  BY <1>3, <1>5, FS_CardinalityType
<1>9. w[i] \in Nat
  OBVIOUS
<1>10. Cardinality(Of(T)) = Cardinality(Of(R)) + w[i]
  <2>1. Cardinality(Of(T)) = Cardinality(Of(R)) + Cardinality(one) - Cardinality(Of(R) \cap one)
    BY <1>2, <1>6
  <2> QED BY <1>4, <1>7, <1>8, <1>9, <2>1
<1> QED BY <1>1, <1>8, <1>10 DEF R

\* Nothing weighs nothing, and so does what consists of weightless elements.
LEMMA Weightless ==
  ASSUME NEW T, NEW w, \A j \in T : w[j] = 0
  PROVE  Sampler!Total(w, T) = 0
<1>1. UNION {{j} \X (1..w[j]) : j \in T} = {}
  OBVIOUS
<1> QED BY <1>1, Counted, FS_EmptySet DEF Sampler!Total

\* A beginning of S when the heaviest come first.
Heaviest(w, S, T) == T \subseteq S /\ \A i \in T, j \in S \ T : w[j] <= w[i]

\* Of the beginnings that are enough there is a shortest one, which the lightest of its
\* elements can be taken from, but then it is not enough.
LEMMA ShortestEnough ==
  ASSUME NEW S, IsFiniteSet(S), NEW b \in Nat, NEW w, \A i \in S : w[i] \in 0..b,
         NEW Enough, S \in Enough
  PROVE  \E T \in Enough :
           /\ Heaviest(w, S, T)
           /\ T = {} \/ \E i \in T : /\ \A j \in T : w[i] <= w[j]
                                     /\ T \ {i} \notin Enough
<1> DEFINE Good(T) == T \in Enough /\ Heaviest(w, S, T)
           sizes == {k \in 0..Cardinality(S) : \E T \in SUBSET S : Good(T) /\ Cardinality(T) = k}
<1>1. Cardinality(S) \in Nat
  BY FS_CardinalityType
<1>2. Cardinality(S) \in sizes
  <2>1. Good(S)
    BY DEF Heaviest
  <2> HIDE DEF Good
  <2> QED BY <1>1, <2>1
<1>3. sizes \in SUBSET Int /\ IsFiniteSet(sizes)
  <2>1. IsFiniteSet(0..Cardinality(S)) /\ sizes \in SUBSET (0..Cardinality(S))
    BY <1>1, FS_Interval
  <2> HIDE DEF sizes
  <2>2. IsFiniteSet(sizes)
    BY <2>1, FS_Subset
  <2>3. \A k \in 0..Cardinality(S) : k \in Int
    BY <1>1
  <2> QED BY <2>1, <2>2, <2>3
<1> HIDE DEF Good
<1>4. PICK m \in sizes : \A k \in sizes : m <= k
  <2> HIDE DEF sizes
  <2> QED BY <1>2, <1>3, LeastAndGreatest
<1>5. PICK T \in SUBSET S : Good(T) /\ Cardinality(T) = m
  BY <1>4
<1>6. ASSUME T # {}
      PROVE  \E i \in T : (\A j \in T : w[i] <= w[j]) /\ T \ {i} \notin Enough
  <2> DEFINE ws == {w[j] : j \in T}
  <2>1. ws \in SUBSET (0..b) /\ ws # {}
    BY <1>6
  <2>2. IsFiniteSet(ws) /\ ws \in SUBSET Int
    <3>1. IsFiniteSet(0..b)
      BY FS_Interval
    <3>2. \A k \in 0..b : k \in Int
      OBVIOUS
    <3> HIDE DEF ws
    <3>3. IsFiniteSet(ws)
      BY <2>1, <3>1, FS_Subset
    <3> QED BY <2>1, <3>2, <3>3
  <2>3. PICK v \in ws : \A u \in ws : v <= u
    <3> HIDE DEF ws
    <3> QED BY <2>1, <2>2, LeastAndGreatest
  <2>4. PICK i \in T : v = w[i]
    BY <2>3
  <2>5. \A j \in T : w[i] <= w[j]
    BY <2>3, <2>4
  <2> HIDE DEF ws
  <2>6. ASSUME T \ {i} \in Enough PROVE FALSE
    <3> DEFINE R == T \ {i}
    <3>1. Heaviest(w, S, T)
      BY <1>5 DEF Good
    <3>2. Heaviest(w, S, R)
      BY <2>5, <3>1 DEF Heaviest
    <3>3. Good(R)
      BY <2>6, <3>2 DEF Good
    <3>4. IsFiniteSet(T) /\ Cardinality(R) = Cardinality(T) - 1
      BY <1>5, FS_Subset, FS_RemoveElement
    <3>5. R \in SUBSET S /\ IsFiniteSet(R)
      BY <3>4, FS_RemoveElement
    <3> HIDE DEF R
    <3>6. Cardinality(R) \in 0..Cardinality(S)
      BY <1>1, <3>5, FS_Subset, FS_CardinalityType
    <3>7. Cardinality(R) \in sizes
      BY <3>3, <3>5, <3>6
    <3>8. m <= Cardinality(R) /\ m \in Int
      BY <1>4, <3>7
    <3> HIDE DEF sizes
    <3> QED BY <1>5, <3>4, <3>8
  <2> QED BY <2>5, <2>6
<1>7. T \in Enough /\ Heaviest(w, S, T)
  BY <1>5 DEF Good
<1> QED BY <1>6, <1>7

\* A call of the sampler with n logits: their weights, a vocabulary, a grammar that
\* allows something, and what is asked of top_k and top_p.
SamplerCall(c, n, b) ==
  /\ n \in Nat \ {0} /\ b \in Nat \ {0} /\ Sampler!Vocab(c) \in 1..n
  /\ c.weight \in [0..n - 1 -> 1..b]
  /\ \E t \in Nat : \A S \in c.valid : t \in S
  /\ c.top_k \in SUBSET Nat /\ \A k, l \in c.top_k : k = l
  /\ c.top_p[1] \in Nat /\ c.top_p[2] \in Nat \ {0}

\* The grammar allows the token of a logit.
Allowed(c, i) == \A S \in c.valid : i % Sampler!Vocab(c) \in S

\* Some logit is left by the mask, and it leaves the weights of those that are.
LEMMA MaskedWeights ==
  ASSUME NEW c, NEW n, NEW b, SamplerCall(c, n, b), ~Sampler!MaskFails(c)
  PROVE  /\ DOMAIN Sampler!Masked(c) = 0..n - 1
         /\ \A i \in 0..n - 1 : /\ Sampler!Masked(c)[i] = IF Allowed(c, i) THEN c.weight[i] ELSE 0
                                /\ c.weight[i] \in 1..b
         /\ \A i \in 0..n - 1 : Sampler!Masked(c)[i] \in 0..b
         /\ \E t \in 0..n - 1 : Allowed(c, t)
<1>1. DOMAIN c.weight = 0..n - 1 /\ \A i \in 0..n - 1 : c.weight[i] \in 1..b
  BY DEF SamplerCall
<1>2. \A i \in 0..n - 1 : Sampler!Masked(c)[i] = IF Allowed(c, i) THEN c.weight[i] ELSE 0
  BY <1>1 DEF Sampler!Masked, Allowed
<1>3. \A i \in 0..n - 1 : Sampler!Masked(c)[i] \in 0..b
  <2>1. \A x \in 1..b : x \in 0..b
    OBVIOUS
  <2>2. 0 \in 0..b
    BY DEF SamplerCall
  <2> QED BY <1>1, <1>2, <2>1, <2>2
<1>4. \E t \in 0..n - 1 : Allowed(c, t)
  <2> DEFINE V == Sampler!Vocab(c)
  <2>1. n \in Nat \ {0} /\ V \in 1..n
    BY DEF SamplerCall
  <2>2. \A t \in 0..V - 1 : t \in 0..n - 1 /\ t % V = t
    <3> HIDE DEF V
    <3> QED BY <2>1
  <2>3. CASE c.valid = {}
    <3>1. 0 \in 0..n - 1
      BY <2>1
    <3> QED BY <2>3, <3>1 DEF Allowed
  <2>4. CASE c.valid # {}
    <3>1. PICK t \in Nat : \A S \in c.valid : t \in S
      BY DEF SamplerCall
    <3>2. \A S \in c.valid : \A u \in S : ~(u >= V)
      BY <2>4 DEF Sampler!MaskFails
    <3>3. ~(t >= V)
      BY <2>4, <3>1, <3>2
    <3>4. t \in 0..V - 1
      <4> HIDE DEF V
      <4> QED BY <2>1, <3>3
    <3>5. t \in 0..n - 1 /\ t % V = t
      BY <2>2, <3>4
    <3> QED BY <3>1, <3>5 DEF Allowed
  <2> QED BY <2>3, <2>4
<1>5. DOMAIN Sampler!Masked(c) = 0..n - 1
  BY <1>1 DEF Sampler!Masked
<1> QED BY <1>1, <1>2, <1>3, <1>4, <1>5

\* The weights of n logits, one of which is not 0.
LogitsOK(w, n, b) ==
  /\ n \in Nat \ {0} /\ b \in Nat /\ DOMAIN w = 0..n - 1
  /\ \A i \in 0..n - 1 : w[i] \in 0..b
  /\ \E i \in 0..n - 1 : w[i] > 0

\* What top_k leaves: a beginning of at most k logits, the heaviest among them.
LEMMA LeftByTopK ==
  ASSUME NEW c, NEW n, NEW b, SamplerCall(c, n, b), NEW w, LogitsOK(w, n, b)
  PROVE  /\ Sampler!TopK(c, w) # {}
         /\ {} \in Sampler!TopK(c, w) <=> c.top_k = {0}
         /\ \A S \in Sampler!TopK(c, w) :
              /\ Heaviest(w, 0..n - 1, S) /\ IsFiniteSet(S) /\ Cardinality(S) \in Nat
              /\ \A k \in c.top_k : Cardinality(S) <= k
              /\ S # {} => \E i \in S : w[i] > 0
<1> DEFINE D == 0..n - 1
<1>1. n \in Nat \ {0} /\ DOMAIN w = D /\ IsFiniteSet(D) /\ Cardinality(D) = n
  <2>1. n \in Nat \ {0} /\ DOMAIN w = D
    BY DEF LogitsOK
  <2>2. IsFiniteSet(D) /\ Cardinality(D) = n
    BY <2>1, FS_Interval
  <2> QED BY <2>1, <2>2
<1>2. \A i \in D : w[i] \in 0..b
  BY DEF LogitsOK
<1>3. \A S : S \in Sampler!TopK(c, w) <=>
         /\ S \in SUBSET D
         /\ \/ S = D /\ \A k \in c.top_k : k >= Cardinality(S)
            \/ c.top_k = {Cardinality(S)} /\ \A i \in S, j \in D \ S : w[j] <= w[i]
  BY <1>1, Counted DEF Sampler!TopK
<1>4. c.top_k \in SUBSET Nat /\ \A k, l \in c.top_k : k = l
  BY DEF SamplerCall
<1> HIDE DEF D
<1>5. Sampler!TopK(c, w) # {}
  <2>1. CASE \A k \in c.top_k : k >= n
    BY <1>1, <1>3, <2>1
  <2>2. CASE \E k \in c.top_k : ~(k >= n)
    <3>1. PICK k \in c.top_k : ~(k >= n)
      BY <2>2
    <3>2. k \in Nat /\ k < n /\ c.top_k = {k}
      BY <1>1, <1>4, <3>1
    <3> DEFINE Enough == {T \in SUBSET D : Cardinality(T) >= k}
    <3>3. D \in Enough
      BY <1>1, <3>2
    <3>4. b \in Nat
      BY DEF LogitsOK
    <3>5. PICK T \in Enough : /\ Heaviest(w, D, T)
                              /\ T = {} \/ \E i \in T : /\ \A j \in T : w[i] <= w[j]
                                                        /\ T \ {i} \notin Enough
      <4> HIDE DEF Enough
      <4> QED BY <1>1, <1>2, <3>3, <3>4, ShortestEnough
    <3>6. T \in SUBSET D /\ Cardinality(T) >= k
      BY <3>5
    <3>7. IsFiniteSet(T) /\ Cardinality(T) \in Nat
      BY <1>1, <3>6, FS_Subset, FS_CardinalityType
    <3>8. Cardinality(T) = k
      <4>1. CASE T = {}
        <5>1. Cardinality(T) = 0
          BY <4>1, FS_EmptySet
        <5> QED BY <3>2, <3>6, <5>1
      <4>2. ASSUME NEW i \in T, T \ {i} \notin Enough PROVE Cardinality(T) = k
        <5>1. T \ {i} \in SUBSET D /\ ~(Cardinality(T \ {i}) >= k)
          BY <3>6, <4>2
        <5>2. Cardinality(T \ {i}) = Cardinality(T) - 1
          BY <3>7, FS_RemoveElement
        <5> QED BY <3>2, <3>6, <3>7, <5>1, <5>2
      <4> HIDE DEF Enough
      <4> QED BY <3>5, <4>1, <4>2
    <3>9. T \in Sampler!TopK(c, w)
      BY <1>3, <3>2, <3>5, <3>6, <3>8 DEF Heaviest
    <3> QED BY <3>9
  <2> QED BY <2>1, <2>2
<1>6. {} \in Sampler!TopK(c, w) <=> c.top_k = {0}
  <2>1. D # {} /\ Cardinality({}) = 0
    <3>1. 0 \in D
      BY <1>1 DEF D
    <3> QED BY <3>1, FS_EmptySet
  <2> QED BY <1>3, <2>1
<1>7. ASSUME NEW S \in Sampler!TopK(c, w)
      PROVE  /\ Heaviest(w, D, S) /\ IsFiniteSet(S) /\ Cardinality(S) \in Nat
             /\ \A k \in c.top_k : Cardinality(S) <= k
             /\ S # {} => \E i \in S : w[i] > 0
  <2>1. S \in SUBSET D /\ \A i \in S, j \in D \ S : w[j] <= w[i]
    BY <1>3, <1>7
  <2>2. IsFiniteSet(S) /\ Cardinality(S) \in Nat
    BY <1>1, <2>1, FS_Subset, FS_CardinalityType
  <2>3. ASSUME NEW k \in c.top_k PROVE Cardinality(S) <= k
    <3>1. k \in Nat /\ (k >= Cardinality(S) \/ c.top_k = {Cardinality(S)})
      BY <1>3, <1>4, <1>7, <2>3
    <3> QED BY <2>2, <3>1
  <2>4. ASSUME S # {} PROVE \E i \in S : w[i] > 0
    <3>1. PICK t \in D : w[t] > 0
      BY DEF LogitsOK, D
    <3>2. PICK i \in S : TRUE
      BY <2>4
    <3>3. CASE t \in S
      BY <3>1, <3>3
    <3>4. CASE t \notin S
      <4>1. w[t] <= w[i]
        BY <2>1, <3>4
      <4>2. w[i] > 0
        BY <1>2, <2>1, <3>1, <4>1
      <4> QED BY <4>2
    <3> QED BY <3>3, <3>4
  <2> QED BY <2>1, <2>2, <2>3, <2>4 DEF Heaviest
<1> QED BY <1>5, <1>6, <1>7 DEF D

\* A positive weight times more is more.
LEMMA MoreOfIt ==
  ASSUME NEW t \in Nat \ {0}, NEW x \in Nat, NEW y \in Nat, x < y
  PROVE  /\ t * y > x * t /\ 0 * y = 0 /\ x * t >= 0
OBVIOUS

\* top_p leaves a beginning that is not empty, with some weight in it.
LEMMA LeftByTopP ==
  ASSUME NEW c, c.top_p[1] \in Nat, c.top_p[2] \in Nat \ {0}, c.top_p[1] < c.top_p[2],
         NEW S, IsFiniteSet(S), NEW b \in Nat, NEW w, \A i \in S : w[i] \in 0..b,
         \E i \in S : w[i] > 0
  PROVE  \E T \in Sampler!TopP(c, w, S) : \E i \in T : w[i] > 0
<1> DEFINE x == c.top_p[1]
           y == c.top_p[2]
           W(T) == Sampler!Total(w, T)
           Enough == {T \in SUBSET S : W(T) * y > x * W(S)}
<1>1. \A T \in SUBSET S : /\ IsFiniteSet(T)
                          /\ \A i \in T : W(T) \in Nat /\ W(T \ {i}) \in Nat
                                          /\ W(T) = W(T \ {i}) + w[i]
  <2> SUFFICES ASSUME NEW T \in SUBSET S
               PROVE  /\ IsFiniteSet(T)
                      /\ \A i \in T : W(T) \in Nat /\ W(T \ {i}) \in Nat
                                      /\ W(T) = W(T \ {i}) + w[i]
    OBVIOUS
  <2>1. IsFiniteSet(T) /\ \A i \in T : w[i] \in 0..b
    BY FS_Subset
  <2> QED BY <2>1, WeightOfRest
<1>2. \A T \in SUBSET S : (\A i \in T : w[i] = 0) => W(T) = 0
  BY Weightless
<1> HIDE DEF W
<1>3. W(S) \in Nat \ {0}
  <2>1. PICK i \in S : w[i] > 0
    OBVIOUS
  <2>2. W(S) \in Nat /\ W(S \ {i}) \in Nat /\ W(S) = W(S \ {i}) + w[i] /\ w[i] \in Nat
    BY <1>1, <2>1
  <2> QED BY <2>1, <2>2
<1>4. S \in Enough
  <2>1. W(S) * y > x * W(S)
    <3>1. x \in Nat /\ y \in Nat /\ x < y
      OBVIOUS
    <3> HIDE DEF x, y
    <3> QED BY <1>3, <3>1, MoreOfIt
  <2> QED BY <2>1
<1>5. PICK T \in Enough : /\ Heaviest(w, S, T)
                          /\ T = {} \/ \E i \in T : /\ \A j \in T : w[i] <= w[j]
                                                    /\ T \ {i} \notin Enough
  <2> HIDE DEF Enough
  <2> QED BY <1>4, ShortestEnough
<1>6. T \in SUBSET S /\ W(T) * y > x * W(S) /\ \A i \in T, j \in S \ T : w[j] <= w[i]
  BY <1>5 DEF Heaviest
<1>7. \E i \in T : w[i] > 0
  <2> SUFFICES ASSUME \A i \in T : ~(w[i] > 0) PROVE FALSE
    OBVIOUS
  <2>1. \A i \in T : w[i] = 0
    BY <1>6
  <2>2. W(T) = 0
    BY <1>2, <1>6, <2>1
  <2>3. 0 * y = 0 /\ x * W(S) >= 0 /\ x * W(S) \in Nat
    <3>1. x \in Nat /\ y \in Nat /\ x < y
      OBVIOUS
    <3> HIDE DEF x, y
    <3>2. 0 * y = 0 /\ x * W(S) >= 0
      BY <1>3, <3>1, MoreOfIt
    <3>3. x * W(S) \in Nat
      BY <1>3, <3>1
    <3> QED BY <3>2, <3>3
  <2> QED BY <1>6, <2>2, <2>3
<1>8. PICK i \in T : (\A j \in T : w[i] <= w[j]) /\ T \ {i} \notin Enough
  BY <1>5, <1>7
<1>9. (W(T) - w[i]) * y <= x * W(S)
  <2>1. W(T) - w[i] = W(T \ {i}) /\ W(T \ {i}) \in Nat
    <3>1. W(T) \in Nat /\ W(T \ {i}) \in Nat /\ W(T) = W(T \ {i}) + w[i] /\ w[i] \in Nat
      BY <1>1, <1>6
    <3> QED BY <3>1
  <2>2. ~(W(T \ {i}) * y > x * W(S))
    BY <1>6, <1>8
  <2>3. W(T \ {i}) * y \in Nat /\ x * W(S) \in Nat
    <3>1. x \in Nat /\ y \in Nat
      OBVIOUS
    <3> HIDE DEF x, y
    <3> QED BY <1>3, <2>1, <3>1
  <2> DEFINE p == W(T \ {i}) * y
             q == x * W(S)
  <2>4. p <= q
    <3>1. p \in Nat /\ q \in Nat /\ ~(p > q)
      BY <2>2, <2>3
    <3> HIDE DEF p, q
    <3> QED BY <3>1
  <2> QED BY <2>1, <2>4
<1>10. T \in Sampler!TopP(c, w, S)
  BY <1>6, <1>8, <1>9 DEF Sampler!TopP, W
<1> QED BY <1>7, <1>10

\* The least and the greatest of a finite set.
LEMMA SamplerEnds ==
  ASSUME NEW S \in SUBSET Int, IsFiniteSet(S), S # {}
  PROVE  Sampler!Min(S) \in S /\ Sampler!Max(S) \in S
<1>1. Sampler!Min(S) \in S
  BY LeastAndGreatest DEF Sampler!Min
<1>2. Sampler!Max(S) \in S
  BY LeastAndGreatest DEF Sampler!Max
<1> QED BY <1>1, <1>2

\* What is drawn of the logits that top_k leaves.
LEMMA DrawnOf ==
  ASSUME NEW c, NEW n, NEW b, SamplerCall(c, n, b), NEW w, LogitsOK(w, n, b),
         NEW S \in Sampler!TopK(c, w)
  PROVE  /\ Sampler!Drawn(c, w, S) \subseteq S \cup IF S = {} THEN {0} ELSE {}
         /\ c.top_p[1] < c.top_p[2] => \A i \in Sampler!Drawn(c, w, S) : w[i] > 0
         /\ S # {} \/ ~(c.top_p[1] < c.top_p[2]) => Sampler!Drawn(c, w, S) # {}
<1> DEFINE drawn == Sampler!Drawn(c, w, S)
<1>1. /\ S \in SUBSET (0..n - 1) /\ IsFiniteSet(S)
      /\ S # {} => \E i \in S : w[i] > 0
  BY LeftByTopK DEF Heaviest
<1>2. /\ n \in Nat \ {0} /\ b \in Nat /\ DOMAIN w = 0..n - 1 /\ \A i \in S : w[i] \in 0..b
  BY <1>1 DEF LogitsOK
<1>3. CASE c.top_p[1] < c.top_p[2]
  <2>1. drawn = UNION {{i \in T : w[i] > 0} : T \in Sampler!TopP(c, w, S)}
    BY <1>3 DEF Sampler!Drawn
  <2>2. \A T \in Sampler!TopP(c, w, S) : T \subseteq S
    BY DEF Sampler!TopP
  <2> HIDE DEF drawn
  <2>3. ASSUME S # {} PROVE drawn # {}
    <3>1. c.top_p[1] \in Nat /\ c.top_p[2] \in Nat \ {0}
      BY DEF SamplerCall
    <3>2. PICK T \in Sampler!TopP(c, w, S) : \E i \in T : w[i] > 0
      BY <1>1, <1>2, <1>3, <2>3, <3>1, LeftByTopP
    <3> QED BY <2>1, <3>2
  <2>4. drawn \subseteq S /\ \A i \in drawn : w[i] > 0
    BY <2>1, <2>2
  <2> QED BY <1>3, <2>3, <2>4 DEF drawn
<1>4. CASE ~(c.top_p[1] < c.top_p[2])
  <2> DEFINE ends == IF S = {} THEN {0} ELSE Sampler!Ends(w, S)
  <2>1. drawn = {i \in S : w[i] > 0} \cup ends
    BY <1>4 DEF Sampler!Drawn
  <2>2. /\ ends # {} /\ ends \subseteq S \cup IF S = {} THEN {0} ELSE {}
    <3>1. CASE S = {}
      BY <3>1
    <3>2. CASE S # {}
      <4>1. S \in SUBSET Int
        <5>1. \A i \in 0..n - 1 : i \in Int
          BY <1>2
        <5> QED BY <1>1, <5>1
      <4>2. Sampler!Min(S) \in S /\ Sampler!Max(S) \in S
        BY <1>1, <3>2, <4>1, SamplerEnds
      <4>3. Sampler!Ends(w, S) # {} /\ Sampler!Ends(w, S) \subseteq S
        BY <3>2, <4>2 DEF Sampler!Ends
      <4> QED BY <3>2, <4>3
    <3> QED BY <3>1, <3>2
  <2> HIDE DEF drawn, ends
  <2>3. drawn # {} /\ drawn \subseteq S \cup IF S = {} THEN {0} ELSE {}
    BY <2>1, <2>2
  <2> QED BY <1>4, <2>3 DEF drawn
<1> QED BY <1>3, <1>4

\* The logits that are allowed and heavier than that of t.
Heavier(c, n, t) == {i \in 0..n - 1 : Allowed(c, i) /\ c.weight[i] > c.weight[t]}

\* What a token is, and when there is one.
TokenOK(c, n, r) ==
  LET cut == c.top_p[1] < c.top_p[2]
  IN /\ r.ok /\ c.adjusted => c.dims = <<1, Sampler!Vocab(c)>> /\ c.dtype = "F32"
     /\ ~c.adjusted /\ c.valid = {} =>
          (r.ok <=> c.greedy \/ c.dtype # "F32" \/ c.top_k # {0} \/ ~cut)
     /\ r.ok /\ c.dtype # "F32" /\ ~c.greedy => r.tokens = 0..99
     /\ r.ok /\ (c.dtype = "F32" \/ c.greedy) =>
          /\ r.tokens # {} /\ r.tokens \subseteq 0..n - 1
          /\ c.greedy => r.tokens = {t \in 0..n - 1 : Allowed(c, t) /\ Heavier(c, n, t) = {}}
          /\ cut => \A t \in r.tokens : Allowed(c, t)
          /\ ~c.greedy => \A k \in c.top_k \ {0}, t \in r.tokens : Cardinality(Heavier(c, n, t)) < k

\* Temperature 0 takes the heaviest of the allowed.
LEMMA GreedyTokens ==
  ASSUME NEW c, NEW n, NEW b, SamplerCall(c, n, b), ~Sampler!MaskFails(c)
  PROVE  LET w == Sampler!Masked(c)
             best == {i \in DOMAIN w : \A j \in DOMAIN w : w[j] <= w[i]}
         IN  best # {} /\ best = {t \in 0..n - 1 : Allowed(c, t) /\ Heavier(c, n, t) = {}}
<1> DEFINE w == Sampler!Masked(c)
           best == {i \in DOMAIN w : \A j \in DOMAIN w : w[j] <= w[i]}
<1>1. /\ DOMAIN w = 0..n - 1
      /\ \A i \in 0..n - 1 : /\ w[i] = IF Allowed(c, i) THEN c.weight[i] ELSE 0
                             /\ c.weight[i] \in 1..b
      /\ \A i \in 0..n - 1 : w[i] \in 0..b
      /\ \E t \in 0..n - 1 : Allowed(c, t)
  BY MaskedWeights
<1>2. n \in Nat /\ b \in Nat
  BY DEF SamplerCall
<1> HIDE DEF w
<1>3. PICK a \in 0..n - 1 : Allowed(c, a)
  BY <1>1
<1>4. ASSUME NEW t \in 0..n - 1
      PROVE  (\A j \in 0..n - 1 : w[j] <= w[t]) <=> Allowed(c, t) /\ Heavier(c, n, t) = {}
  <2>1. ASSUME \A j \in 0..n - 1 : w[j] <= w[t]
        PROVE  Allowed(c, t) /\ Heavier(c, n, t) = {}
    <3>1. w[a] <= w[t] /\ w[a] = c.weight[a] /\ c.weight[a] \in 1..b
      BY <1>1, <1>3, <2>1
    <3>2. Allowed(c, t)
      <4>1. w[t] # 0
        BY <1>2, <3>1
      <4> QED BY <1>1, <4>1
    <3>3. ASSUME NEW i \in 0..n - 1, Allowed(c, i) PROVE ~(c.weight[i] > c.weight[t])
      <4>1. w[i] = c.weight[i] /\ w[t] = c.weight[t] /\ w[i] <= w[t]
        BY <1>1, <2>1, <3>2, <3>3
      <4>2. c.weight[i] \in 1..b /\ c.weight[t] \in 1..b
        BY <1>1
      <4> QED BY <1>2, <4>1, <4>2
    <3> QED BY <3>2, <3>3 DEF Heavier
  <2>2. ASSUME Allowed(c, t), Heavier(c, n, t) = {}, NEW j \in 0..n - 1
        PROVE  w[j] <= w[t]
    <3>1. w[t] = c.weight[t] /\ c.weight[t] \in 1..b /\ c.weight[j] \in 1..b
      BY <1>1, <2>2
    <3>2. CASE Allowed(c, j)
      <4>1. ~(c.weight[j] > c.weight[t]) /\ w[j] = c.weight[j]
        BY <1>1, <2>2, <3>2 DEF Heavier
      <4> QED BY <1>2, <3>1, <4>1
    <3>3. CASE ~Allowed(c, j)
      <4>1. w[j] = 0
        BY <1>1, <3>3
      <4> QED BY <1>2, <3>1, <4>1
    <3> QED BY <3>2, <3>3
  <2> QED BY <2>1, <2>2
<1>5. best = {t \in 0..n - 1 : Allowed(c, t) /\ Heavier(c, n, t) = {}}
  BY <1>1, <1>4
<1>6. best # {}
  <2> DEFINE D == 0..n - 1
             ws == {w[j] : j \in D}
  <2>1. IsFiniteSet(0..b) /\ ws \in SUBSET (0..b) /\ ws # {}
    <3>1. IsFiniteSet(0..b)
      BY <1>2, FS_Interval
    <3>2. ws \in SUBSET (0..b)
      BY <1>1
    <3>3. w[a] \in ws
      BY <1>3
    <3> QED BY <3>1, <3>2, <3>3
  <2>2. \A k \in 0..b : k \in Int
    BY <1>2
  <2>3. PICK v \in ws : \A u \in ws : v >= u
    <3> HIDE DEF ws
    <3>1. IsFiniteSet(ws) /\ ws \in SUBSET Int
      BY <2>1, <2>2, FS_Subset
    <3> QED BY <2>1, <3>1, LeastAndGreatest
  <2>4. PICK i \in D : v = w[i]
    BY <2>3
  <2>5. \A j \in D : w[j] <= w[i]
    <3>1. \A j \in D : w[i] >= w[j] /\ w[i] \in 0..b /\ w[j] \in 0..b
      BY <1>1, <2>3, <2>4
    <3> QED BY <1>2, <3>1
  <2> QED BY <1>1, <2>4, <2>5
<1> QED BY <1>5, <1>6 DEF w

\* A token that top_k leaves has fewer than k that are allowed and heavier.
LEMMA FewHeavier ==
  ASSUME NEW c, NEW n, NEW b, SamplerCall(c, n, b), ~Sampler!MaskFails(c),
         NEW S \in Sampler!TopK(c, Sampler!Masked(c)), NEW t \in S, NEW k \in c.top_k
  PROVE  Cardinality(Heavier(c, n, t)) < k
<1> DEFINE w == Sampler!Masked(c)
           D == 0..n - 1
<1>1. /\ DOMAIN w = D
      /\ \A i \in D : /\ w[i] = IF Allowed(c, i) THEN c.weight[i] ELSE 0
                      /\ c.weight[i] \in 1..b
      /\ \A i \in D : w[i] \in 0..b
      /\ \E a \in D : Allowed(c, a)
  BY MaskedWeights
<1>2. n \in Nat \ {0} /\ b \in Nat /\ k \in Nat
  BY DEF SamplerCall
<1> HIDE DEF w
<1>3. LogitsOK(w, n, b)
  <2>1. PICK a \in D : Allowed(c, a)
    BY <1>1
  <2>2. w[a] > 0
    BY <1>1, <1>2, <2>1
  <2> QED BY <1>1, <1>2, <2>1, <2>2 DEF LogitsOK
<1>4. /\ S \subseteq D /\ \A i \in S, j \in D \ S : w[j] <= w[i]
      /\ IsFiniteSet(S) /\ Cardinality(S) \in Nat /\ Cardinality(S) <= k
  <2>1. S \in Sampler!TopK(c, w)
    BY DEF w
  <2>2. /\ Heaviest(w, D, S) /\ IsFiniteSet(S) /\ Cardinality(S) \in Nat
        /\ \A l \in c.top_k : Cardinality(S) <= l
    BY <1>3, <2>1, LeftByTopK
  <2> QED BY <2>2 DEF Heaviest
<1>5. ASSUME NEW i \in Heavier(c, n, t) PROVE i \in S \ {t}
  <2>1. i \in D /\ Allowed(c, i) /\ c.weight[i] > c.weight[t] /\ t \in D
    BY <1>4, <1>5 DEF Heavier
  <2>2. c.weight[i] \in 1..b /\ c.weight[t] \in 1..b /\ w[i] = c.weight[i]
        /\ (w[t] = c.weight[t] \/ w[t] = 0)
    BY <1>1, <2>1
  <2>3. ~(w[i] <= w[t]) /\ i # t
    BY <1>2, <2>1, <2>2
  <2> QED BY <1>4, <2>1, <2>3
<1>6. IsFiniteSet(S \ {t}) /\ Cardinality(S \ {t}) = Cardinality(S) - 1
  BY <1>4, FS_RemoveElement
<1>7. /\ Cardinality(Heavier(c, n, t)) <= Cardinality(S \ {t})
      /\ Cardinality(Heavier(c, n, t)) \in Nat
  <2>1. Heavier(c, n, t) \in SUBSET (S \ {t})
    BY <1>5
  <2> QED BY <1>6, <2>1, FS_Subset, FS_CardinalityType
<1> QED BY <1>2, <1>4, <1>6, <1>7

\* The way of a work item from logits of any number to a token: with a grammar or
\* without, adjusted or not, for every top_k and top_p (run_loop and sample_token in
\* worker.rs, apply_grammar_mask in api/grammar.rs).
THEOREM TokenOfLogits ==
  ASSUME NEW c, NEW n, NEW b, SamplerCall(c, n, b)
  PROVE  TokenOK(c, n, Sampler!ItemToken(c))
<1> DEFINE r == Sampler!ItemToken(c)
           w == Sampler!Masked(c)
           cut == c.top_p[1] < c.top_p[2]
           best == {i \in DOMAIN w : \A j \in DOMAIN w : w[j] <= w[i]}
           drawn == UNION {Sampler!Drawn(c, w, S) : S \in Sampler!TopK(c, w)}
           panics == {} \in Sampler!TopK(c, w) /\ cut
<1>1. CASE Sampler!AdjustFails(c) \/ Sampler!MaskFails(c)
  <2>1. r = [ok |-> FALSE]
    BY <1>1 DEF Sampler!ItemToken, Sampler!Failed
  <2>2. ~r.ok
    <3> HIDE DEF r
    <3> QED BY <2>1
  <2>3. c.adjusted \/ c.valid # {}
    BY <1>1 DEF Sampler!AdjustFails, Sampler!MaskFails
  <2> HIDE DEF r
  <2>4. TokenOK(c, n, r)
    BY <2>2, <2>3 DEF TokenOK
  <2> QED BY <2>4 DEF r
<1>2. CASE ~Sampler!AdjustFails(c) /\ ~Sampler!MaskFails(c)
  <2>1. r = IF c.greedy THEN [ok |-> TRUE, tokens |-> best]
            ELSE IF c.dtype # "F32" THEN [ok |-> TRUE, tokens |-> 0..99]
            ELSE IF panics THEN [ok |-> FALSE]
            ELSE [ok |-> TRUE, tokens |-> drawn]
    <3>1. r = Sampler!SampleToken(c, w)
      BY <1>2 DEF Sampler!ItemToken
    <3> HIDE DEF r, w
    <3> QED BY <3>1 DEF Sampler!SampleToken, Sampler!Sampled, Sampler!Tokens, Sampler!Failed,
                        Sampler!RandomTokens
  <2>2. best # {} /\ best = {t \in 0..n - 1 : Allowed(c, t) /\ Heavier(c, n, t) = {}}
    BY <1>2, GreedyTokens
  <2>3. /\ DOMAIN w = 0..n - 1
        /\ \A i \in 0..n - 1 : /\ w[i] = IF Allowed(c, i) THEN c.weight[i] ELSE 0
                               /\ c.weight[i] \in 1..b
        /\ \A i \in 0..n - 1 : w[i] \in 0..b
        /\ \E t \in 0..n - 1 : Allowed(c, t)
    BY <1>2, MaskedWeights
  <2>4. n \in Nat \ {0} /\ b \in Nat
    BY DEF SamplerCall
  <2>5. LogitsOK(w, n, b)
    <3> HIDE DEF w
    <3>1. PICK t \in 0..n - 1 : Allowed(c, t)
      BY <2>3
    <3>2. w[t] > 0
      BY <2>3, <2>4, <3>1
    <3> QED BY <2>3, <2>4, <3>2 DEF LogitsOK
  <2>6. /\ Sampler!TopK(c, w) # {} /\ ({} \in Sampler!TopK(c, w) <=> c.top_k = {0})
        /\ \A S \in Sampler!TopK(c, w) : S \subseteq 0..n - 1
    <3> HIDE DEF w
    <3> QED BY <2>5, LeftByTopK DEF Heaviest
  <2>7. \A S \in Sampler!TopK(c, w) :
          /\ Sampler!Drawn(c, w, S) \subseteq S \cup IF S = {} THEN {0} ELSE {}
          /\ cut => \A i \in Sampler!Drawn(c, w, S) : w[i] > 0
          /\ S # {} \/ ~cut => Sampler!Drawn(c, w, S) # {}
    <3> HIDE DEF w
    <3> QED BY <2>5, DrawnOf
  <2>8. \A k \in c.top_k : \A S \in Sampler!TopK(c, w) : \A t \in S :
          Cardinality(Heavier(c, n, t)) < k
    BY <1>2, FewHeavier
  <2> HIDE DEF w
  <2>9. ASSUME ~panics
        PROVE  /\ drawn # {} /\ drawn \subseteq 0..n - 1
               /\ cut => \A t \in drawn : Allowed(c, t)
               /\ \A k \in c.top_k \ {0}, t \in drawn : Cardinality(Heavier(c, n, t)) < k
    <3>1. drawn # {}
      <4>1. PICK S \in Sampler!TopK(c, w) : TRUE
        BY <2>6
      <4>2. S # {} \/ ~cut
        BY <2>9, <4>1
      <4>3. Sampler!Drawn(c, w, S) # {}
        BY <2>7, <4>2
      <4> QED BY <4>1, <4>3
    <3>2. ASSUME NEW t \in drawn
          PROVE  /\ t \in 0..n - 1 /\ (cut => Allowed(c, t))
                 /\ \A k \in c.top_k \ {0} : Cardinality(Heavier(c, n, t)) < k
      <4>1. PICK S \in Sampler!TopK(c, w) : t \in Sampler!Drawn(c, w, S)
        BY <3>2
      <4>2. t \in S \/ (S = {} /\ t = 0)
        BY <2>7, <4>1
      <4>3. t \in 0..n - 1
        <5>1. 0 \in 0..n - 1 /\ S \subseteq 0..n - 1
          BY <2>4, <2>6
        <5> QED BY <4>2, <5>1
      <4>4. ASSUME cut PROVE Allowed(c, t)
        <5>1. w[t] > 0
          BY <2>7, <4>1, <4>4
        <5>2. w[t] # 0
          BY <2>3, <2>4, <4>3, <5>1
        <5> QED BY <2>3, <4>3, <5>2
      <4>5. ASSUME NEW k \in c.top_k \ {0} PROVE Cardinality(Heavier(c, n, t)) < k
        <5>1. S # {}
          BY <2>6, <4>1, <4>5
        <5> QED BY <2>8, <4>1, <4>2, <4>5, <5>1
      <4> QED BY <4>3, <4>4, <4>5
    <3> HIDE DEF drawn
    <3> QED BY <3>1, <3>2
  <2>10. c.adjusted => c.dims = <<1, Sampler!Vocab(c)>> /\ c.dtype = "F32"
    BY <1>2 DEF Sampler!AdjustFails
  <2> HIDE DEF r, best, drawn
  <2>11. CASE c.greedy
    <3>1. r = [ok |-> TRUE, tokens |-> best]
      BY <2>1, <2>11
    <3>2. r.ok /\ r.tokens = best
      BY <3>1
    <3>3. best # {} /\ best \subseteq 0..n - 1 /\ \A t \in best : Allowed(c, t)
      BY <2>2
    <3> QED BY <2>2, <2>10, <2>11, <3>2, <3>3 DEF TokenOK, r
  <2>12. CASE ~c.greedy /\ c.dtype # "F32"
    <3>1. r = [ok |-> TRUE, tokens |-> 0..99]
      BY <2>1, <2>12
    <3>2. r.ok /\ r.tokens = 0..99
      BY <3>1
    <3> QED BY <2>10, <2>12, <3>2 DEF TokenOK, r
  <2>13. CASE ~c.greedy /\ c.dtype = "F32" /\ panics
    <3>1. r = [ok |-> FALSE]
      BY <2>1, <2>13
    <3>2. ~r.ok
      BY <3>1
    <3>3. cut /\ c.top_k = {0}
      BY <2>6, <2>13
    <3> QED BY <2>13, <3>2, <3>3 DEF TokenOK, r
  <2>14. CASE ~c.greedy /\ c.dtype = "F32" /\ ~panics
    <3>1. r = [ok |-> TRUE, tokens |-> drawn]
      BY <2>1, <2>14
    <3>2. r.ok /\ r.tokens = drawn
      BY <3>1
    <3>3. c.top_k # {0} \/ ~cut
      BY <2>6, <2>14
    <3> QED BY <2>9, <2>10, <2>14, <3>2, <3>3 DEF TokenOK, r
  <2> QED BY <2>11, <2>12, <2>13, <2>14
<1> QED BY <1>1, <1>2

\* The number of logits of a model: positions times vocabulary.
LEMMA ElementsOfThree ==
  ASSUME NEW a \in Int, NEW b \in Int, NEW c \in Int
  PROVE  Att!Elements(<<a, b, c>>) = a * b * c
<1> DEFINE s == <<a, b, c>>
           Recursive(f) == f = [i \in 0..3 |-> IF i = 0 THEN 1 ELSE f[i - 1] * s[i]]
           n == CHOOSE f : Recursive(f)
           ab == a * b
           abc == ab * c
           w == [i \in 0..3 |-> IF i = 0 THEN 1 ELSE IF i = 1 THEN a ELSE IF i = 2 THEN ab ELSE abc]
<1>1. Recursive(w)
  <2>1. s[1] = a /\ s[2] = b /\ s[3] = c /\ 1 * a = a
    OBVIOUS
  <2>2. w[0] = 1 /\ w[1] = a /\ w[2] = ab /\ w[3] = abc
    OBVIOUS
  <2>3. w = [i \in 0..3 |-> w[i]]
    OBVIOUS
  <2> HIDE DEF w, s
  <2>4. \A i \in 0..3 : w[i] = IF i = 0 THEN 1 ELSE w[i - 1] * s[i]
    <3>1. \A i \in 0..3 : i = 0 \/ i = 1 \/ i = 2 \/ i = 3
      OBVIOUS
    <3>2. w[1] = w[1 - 1] * s[1] /\ w[2] = w[2 - 1] * s[2] /\ w[3] = w[3 - 1] * s[3]
      BY <2>1, <2>2
    <3> QED BY <2>2, <3>1, <3>2
  <2> QED BY <2>3, <2>4
<1>2. Recursive(n)
  <2> HIDE DEF Recursive
  <2> QED BY <1>1
<1>3. n[3] = a * b * c
  <2>1. s[1] = a /\ s[2] = b /\ s[3] = c /\ 1 * a = a
    OBVIOUS
  <2> HIDE DEF n, s
  <2>2. n[0] = 1 /\ n[1] = n[0] * s[1] /\ n[2] = n[1] * s[2] /\ n[3] = n[2] * s[3]
    BY <1>2
  <2> QED BY <2>1, <2>2
<1>4. Att!Elements(s) = n[3]
  <2>1. Len(s) = 3
    OBVIOUS
  <2> HIDE DEF s
  <2> QED BY <2>1 DEF Att!Elements
<1> HIDE DEF n
<1> QED BY <1>3, <1>4

\* The logits of a call of the model.
LEMMA LogitsOfCall ==
  ASSUME NEW c \in SampleCalls
  PROVE  /\ SamplerCall(c, Att!Elements(c.dims), 2)
         /\ Last(c.dims) = Sampler!Vocab(c)
         /\ c.dims = <<1, Sampler!Vocab(c)>> => Len(c.dims) = 2
         /\ c.top_p = <<1, 1>> <=> ~(c.top_p[1] < c.top_p[2])
         /\ c.top_p = <<1, 2>> <=> c.top_p[1] < c.top_p[2]
<1> DEFINE n == Att!Elements(c.dims)
           V == Sampler!Vocab(c)
<1>1. /\ c.dims \in LogitDims
      /\ c.weight \in [0..n - 1 -> 1..2]
      /\ c.valid \in {{}, {{0, 1}}, {{0, 2}}}
      /\ c.top_k \in {{}, {0}, {1}, {2}}
      /\ c.top_p \in {<<1, 2>>, <<1, 1>>}
  BY DEF SampleCalls
<1>2. /\ n \in Nat \ {0} /\ V \in 1..n /\ Last(c.dims) = V
      /\ c.dims = <<1, V>> => Len(c.dims) = 2
  <2>1. ASSUME NEW s \in 1..2, NEW v \in 2..3, c.dims = <<1, s, v>>
        PROVE  n \in Nat \ {0} /\ V \in 1..n /\ Last(c.dims) = V /\ c.dims # <<1, V>>
    <3>1. n = 1 * s * v
      <4>1. 1 \in Int /\ s \in Int /\ v \in Int
        OBVIOUS
      <4> QED BY <2>1, <4>1, ElementsOfThree
    <3>2. V = v /\ Last(c.dims) = v /\ Len(c.dims) = 3 /\ Len(<<1, V>>) = 2
      BY <2>1 DEF Sampler!Vocab, Last
    <3>3. n = v \/ n = v + v
      BY <3>1
    <3> HIDE DEF n, V
    <3> QED BY <3>2, <3>3
  <2>2. ASSUME NEW v \in 1..3, c.dims = <<1, v>>
        PROVE  n \in Nat \ {0} /\ V \in 1..n /\ Last(c.dims) = V /\ Len(c.dims) = 2
    <3>1. n = 1 * v
      BY <2>2, ElementsOf
    <3>2. V = v /\ Last(c.dims) = v /\ Len(c.dims) = 2
      BY <2>2 DEF Sampler!Vocab, Last
    <3> HIDE DEF n, V
    <3> QED BY <3>1, <3>2
  <2>3. \/ \E s \in 1..2, v \in 2..3 : c.dims = <<1, s, v>>
        \/ \E v \in 1..3 : c.dims = <<1, v>>
    BY <1>1 DEF LogitDims
  <2> QED BY <2>1, <2>2, <2>3
<1>3. 0 \in Nat /\ \A S \in c.valid : 0 \in S
  BY <1>1
<1>4. c.top_k \in SUBSET Nat /\ \A k, l \in c.top_k : k = l
  BY <1>1
<1>5. /\ c.top_p[1] \in Nat /\ c.top_p[2] \in Nat \ {0}
      /\ c.top_p = <<1, 1>> <=> ~(c.top_p[1] < c.top_p[2])
      /\ c.top_p = <<1, 2>> <=> c.top_p[1] < c.top_p[2]
  <2> DEFINE t == c.top_p
  <2>1. t \in {<<1, 2>>, <<1, 1>>}
    BY <1>1
  <2> HIDE DEF t
  <2>2. \/ t = <<1, 2>> /\ t[1] = 1 /\ t[2] = 2 /\ t # <<1, 1>>
        \/ t = <<1, 1>> /\ t[1] = 1 /\ t[2] = 1 /\ t # <<1, 2>>
    <3>1. <<1, 1>>[2] = 1 /\ <<1, 2>>[2] = 2
      OBVIOUS
    <3>2. CASE t = <<1, 2>>
      <4>1. t[1] = 1 /\ t[2] = 2
        BY <3>2
      <4> QED BY <3>1, <3>2, <4>1
    <3>3. CASE t = <<1, 1>>
      <4>1. t[1] = 1 /\ t[2] = 1
        BY <3>3
      <4> QED BY <3>1, <3>3, <4>1
    <3> QED BY <2>1, <3>2, <3>3
  <2>3. \/ t[1] = 1 /\ t[2] = 2 /\ 1 < 2
        \/ t[1] = 1 /\ t[2] = 1 /\ ~(1 < 1)
    BY <2>2
  <2>4. /\ t[1] \in Nat /\ t[2] \in Nat \ {0}
        /\ t = <<1, 1>> <=> ~(t[1] < t[2])
        /\ t = <<1, 2>> <=> t[1] < t[2]
    BY <2>1, <2>2, <2>3
  <2> QED BY <2>4 DEF t
<1>6. SamplerCall(c, n, 2)
  <2>1. 2 \in Nat \ {0}
    OBVIOUS
  <2> HIDE DEF n
  <2> QED BY <1>1, <1>2, <1>3, <1>4, <1>5, <2>1 DEF SamplerCall
<1> QED BY <1>2, <1>5, <1>6

\* A step returns what becomes of the logits.
SampledOK == call.op = "sample" /\ result # NoResult => result = Sampler!ItemToken(call)

\* Every token is what SampledTokens says of it (worker.rs).
THEOREM TokensSampled == Spec => []SampledTokens
<1>1. CallOK /\ SampledOK => SampledTokens
  <2> SUFFICES ASSUME CallOK, SampledOK, call.op = "sample", result # NoResult
               PROVE  SampledTokens
    BY DEF SampledTokens
  <2> DEFINE n == Att!Elements(call.dims)
             V == Sampler!Vocab(call)
  <2>1. call \in SampleCalls /\ result = Sampler!ItemToken(call)
    BY DEF CallOK, SampledOK
  <2>2. /\ SamplerCall(call, n, 2) /\ Last(call.dims) = V
        /\ call.dims = <<1, V>> => Len(call.dims) = 2
        /\ call.top_p = <<1, 1>> <=> ~(call.top_p[1] < call.top_p[2])
        /\ call.top_p = <<1, 2>> <=> call.top_p[1] < call.top_p[2]
    BY <2>1, LogitsOfCall
  <2>3. TokenOK(call, n, result)
    BY <2>1, <2>2, TokenOfLogits
  <2> DEFINE Permitted(t) == \A S \in call.valid : t % Last(call.dims) \in S
             Over(t) == {i \in 0..n - 1 : Permitted(i) /\ call.weight[i] > call.weight[t]}
  <2>4. \A t : (Permitted(t) <=> Allowed(call, t)) /\ Over(t) = Heavier(call, n, t)
    BY <2>2 DEF Allowed, Heavier
  <2>5. SampledTokens <=>
          /\ result.ok /\ call.adjusted => Len(call.dims) = 2 /\ call.dtype = "F32"
          /\ ~call.adjusted /\ call.valid = {} =>
               (result.ok <=> \/ call.greedy \/ call.dtype # "F32"
                              \/ call.top_k # {0} \/ call.top_p = <<1, 1>>)
          /\ result.ok /\ call.dtype # "F32" /\ ~call.greedy => result.tokens = 0..99
          /\ result.ok /\ (call.dtype = "F32" \/ call.greedy) =>
               /\ result.tokens # {} /\ result.tokens \subseteq 0..n - 1
               /\ call.greedy => result.tokens = {t \in 0..n - 1 : Permitted(t) /\ Over(t) = {}}
               /\ call.top_p = <<1, 2>> => \A t \in result.tokens : Permitted(t)
               /\ ~call.greedy =>
                    \A k \in call.top_k \ {0}, t \in result.tokens : Cardinality(Over(t)) < k
    BY DEF SampledTokens
  <2> HIDE DEF n, Permitted, Over, V
  <2>6. {t \in 0..n - 1 : Permitted(t) /\ Over(t) = {}}
          = {t \in 0..n - 1 : Allowed(call, t) /\ Heavier(call, n, t) = {}}
    BY <2>4
  <2>7. \A t : Cardinality(Over(t)) = Cardinality(Heavier(call, n, t))
    BY <2>4
  <2> QED BY <2>2, <2>3, <2>4, <2>5, <2>6, <2>7 DEF TokenOK, V
<1>2. Init => SampledOK
  BY DEF Init, SampledOK
<1>3. SampledOK /\ [Next]_<<call, result>> => SampledOK'
  <2> SUFFICES ASSUME SampledOK, [Next]_<<call, result>> PROVE SampledOK'
    OBVIOUS
  <2>1. CASE UNCHANGED <<call, result>>
    BY <2>1 DEF SampledOK
  <2>2. CASE Next
    BY <2>2, StepOfCall DEF SampledOK, Sample
  <2> QED BY <2>1, <2>2
<1> QED BY <1>1, <1>2, <1>3, CallsStart, CallsKept, PTL DEF Spec
=============================================================================
