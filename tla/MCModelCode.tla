----------------------------- MODULE MCModelCode -----------------------------
(***************************************************************************)
(* The functions of the model code: each behaviour makes one call of       *)
(* bounded size and keeps what it returns.  A few calls go on: int4 layers *)
(* are quantized and unpacked, a model reads one input after the other,    *)
(* the execution engine is called in any order, up to MaxOps times, and an *)
(* answer is generated, sent and read by tasks of their own.               *)
(***************************************************************************)
EXTENDS PagedKernel, Packing, Stages, Speculation, FiniteSets

CONSTANTS MaxCtx, MaxBlock, MaxHeads, MaxFeatures, MaxRows, MaxWords, MaxGroups, GroupSizes,
          MaxWorld, MaxLayers, MaxOps, MaxInputs, MaxTokens, MaxWeight

ASSUME ModelCodeAssumption ==
  /\ {MaxCtx, MaxBlock, MaxHeads, MaxFeatures, MaxRows, MaxWords, MaxGroups, MaxWorld, MaxLayers,
      MaxOps, MaxInputs, MaxTokens, MaxWeight} \subseteq Nat
  /\ GroupSizes \subseteq Nat \ {0}

Att == INSTANCE Attention
Graph == INSTANCE GraphCapture
Sampler == INSTANCE Sampling
Loader == INSTANCE Loading
Chat == INSTANCE ChatCompletions
Build == INSTANCE Weights
Scale == INSTANCE Scales

VARIABLES call, result

NoResult == [ok |-> FALSE, none |-> TRUE]

PagedCalls ==
  [op : {"paged"}, ctx_len : 0..MaxCtx, block_size : 1..MaxBlock,
   num_heads : 1..MaxHeads, num_kv_heads : 1..MaxHeads]
Int4Calls ==
  [op : {"int4"}, rows : 1..MaxRows, columns : 1..MaxFeatures, group_size : 1..MaxFeatures]
\* Pairs of weights, and triples of smaller ones, in whole numbers and in quarters.
ScaleCalls ==
  [op : {"scale"}, bits : {4, 8}, units : {1, 4},
   weights : [1..2 -> -MaxWeight..MaxWeight]
               \cup [1..3 -> -(MaxWeight \div 5)..MaxWeight \div 5]]
Models == [next : [{1, 2} -> {1, 2}], quantized : BOOLEAN]
SpeculativeCalls ==
  [op : {"speculate"}, strategy : {"DraftModel", "Ngram", "Parallel"}, lookahead : 1..3,
   order : 1..3, target : Models, draft : Models, inputs : 1..2,
   corpus : {<<>>, <<<<1, 2, 2>>, <<2, 1>>>>}, context : {<<1, 1>>, <<2, 1, 2>>}]
\* Words of zero points there are for all groups or for none.
AwqCalls ==
  {c \in [op : {"awq"}, rows : 1..MaxRows, words : 1..MaxWords, num_groups : 1..MaxGroups,
          zero_words : 0..MaxWords, group_size : GroupSizes,
          group_of : {<<>>} \cup {[col \in 1..8 * MaxWords |-> g] : g \in 0..MaxGroups}] :
     c.zero_words = 0 \/ c.num_groups <= 8 * c.zero_words}
ServeCalls ==
  {c \in [op : {"serve"}, arch : {"Llama", "Qwen2"}, dtype : {"F16", "F32"}, num_layers : 1..MaxLayers,
          n_heads : 1..MaxHeads, n_kv_heads : 1..MaxHeads, inputs : [1..MaxInputs -> 1..MaxHeads]] :
     c.n_heads % c.n_kv_heads = 0}
\* Inputs of two requests, in the order the worker runs them, MaxOps in all.
QuantizedCalls == [op : {"gguf"}, inputs : [1..MaxOps -> [req : {1, 2}, size : 1..2]]]

\* The modules of a model with linear layers, and those that have biases in the
\* checkpoints of Llama (none) and Qwen2.
Attentions == {"q_proj", "k_proj", "v_proj"}
Linears == Attentions \cup {"o_proj", "gate_proj", "up_proj", "down_proj", "lm_head"}
BuildCalls ==
  {c \in [op : {"build"}, arch : {"Llama", "Qwen2"}, layers : 1..MaxLayers, heads : 1..MaxHeads,
          kv_heads : 1..MaxHeads, world_size : 1..MaxWorld, rank : 0..MaxWorld - 1,
          biased : {{}, Attentions, Linears \ {"lm_head"}, Linears}, tied : BOOLEAN] :
     c.heads % c.kv_heads = 0 /\ c.rank < c.world_size}
\* A quantized layer with the shape of its tensors in the files.
LayerCalls == [op : {"layer"}, loader : {"gptq", "awq"}, shape : {<<0>>, <<2>>, <<4, 2>>},
               kinds : SUBSET {"", "qweight", "qzeros", "scales"}]
\* Logits of the models, (1, positions, vocabulary), and of the mock, (1, positions),
\* which returns its input; the tests sample from (1, vocabulary) in F32.
LogitDims == {<<1, seq, vocab>> : seq \in 1..2, vocab \in 2..3} \cup {<<1, n>> : n \in 1..3}
SampleCalls ==
  UNION {[op : {"sample"}, dims : {dims},
          dtype : IF Len(dims) = 3 THEN {"F16", "F32"} ELSE {"F32", "U32"},
          weight : [0..Att!Elements(dims) - 1 -> 1..2], adjusted : BOOLEAN,
          valid : {{}, {{0, 1}}, {{0, 2}}}, greedy : BOOLEAN,
          top_k : {{}, {0}, {1}, {2}}, top_p : {<<1, 2>>, <<1, 1>>}] : dims \in LogitDims}

AllFields == Loader!Required \cup {"num_key_value_heads"}
LoadCalls ==
  [op : {"load"}, gguf : BOOLEAN, safetensors : BOOLEAN,
   fields : {AllFields} \cup {AllFields \ {field} : field \in AllFields},
   names : {{Loader!NameWith(k), Loader!NameWith(l)} : k, l \in Loader!Keywords} \cup {{}}]
\* A text, one with an image, and one the tokenizer fails on; tokenizers of every kind.
ChatMessages ==
  {[role |-> 1, items |-> <<[text |-> <<2, 1>>]>>],
   [role |-> 1, items |-> <<[text |-> <<>>], [text |-> <<2>>]>>],
   [role |-> 1, items |-> <<[text |-> <<Chat!NotEncodable>>]>>]}
Tokenizers ==
  [loaded : {TRUE}, bos : BOOLEAN, space : BOOLEAN, merges : BOOLEAN]
    \cup [loaded : {FALSE}, bos : {FALSE}, space : {FALSE}, merges : {FALSE}]
ChatCalls ==
  [op : {"chat"}, tk : Tokenizers,
   payload : [messages : {<<>>} \cup {<<m>> : m \in ChatMessages}, stream : BOOLEAN,
              max_tokens : 1..MaxTokens,
              stop : {<<>>, <<<<>>>>, <<<<1>>>>, <<<<2, 1>>, <<Chat!NotEncodable>>>>}]]
\* Model paths and tokenizer paths of command lines.
ModelPaths ==
  [gguf : {TRUE}, safetensors : {FALSE}, fields : {{}}, names : {{}}, files : {{}}]
    \cup [gguf : {FALSE}, safetensors : BOOLEAN, fields : {{}, AllFields}, names : {{}},
          files : SUBSET {Loader!Candidates[i] : i \in DOMAIN Loader!Candidates}]
StartCalls ==
  [op : {"start"}, model : ModelPaths \cup {Loader!NoModel}, mode : {"full-graph", "fast"},
   tokenizer : [kind : {"file", "dir"}, valid : BOOLEAN]
                 \cup {Loader!NoPath, [kind |-> "missing", valid |-> FALSE]}]
GraphCalls == [op : {"graph"}, mode : Graph!Modes]
StageCalls == [op : {"stages"}, world_size : 1..MaxWorld, size : 0..MaxLayers]

\* Distinct weights, as far as four bits allow.
MCValues == [k \in 1..call.rows * call.columns |-> k % 16]

\* Nibbles, zero points and the AWQ words that hold them.
MCNibble(row, col) == (row + 15 * col) % 16
MCZero(row, group) == (5 + 3 * row + 7 * group) % 16
MCAwqLayer ==
  [rows |-> call.rows, words |-> call.words, group_size |-> call.group_size, g_idx |-> call.group_of,
   qweight |-> [i \in 1..call.rows * call.words |->
                  AwqWord([n \in 0..7 |-> MCNibble((i - 1) \div call.words,
                                                   8 * ((i - 1) % call.words) + n)])],
   qzeros |-> [i \in 1..call.rows * call.zero_words |->
                 AwqWord([n \in 0..7 |-> MCZero((i - 1) \div call.zero_words,
                                                 8 * ((i - 1) % call.zero_words) + n)])],
   num_scales |-> call.rows * call.num_groups]

\* The checkpoint of a whole model, as trained: biases where there are any, and no
\* lm_head of its own if it is tied to the embedding.
MCCheckpoint ==
  {t \in Build!Asked([call EXCEPT !.world_size = 1, !.rank = 0]) :
     /\ t.name[3] = "bias" => t.name[2] \in call.biased
     /\ call.tied => t.name[2] # "lm_head"}

\* The k-th input: where it starts in its request, and its tokens.
StartOf(k) == SumFunctionOnSet([j \in 1..k |-> call.inputs[j].size],
                               {j \in 1..k - 1 : call.inputs[j].req = call.inputs[k].req})
OwnTokens(k) == [i \in 1..call.inputs[k].size |-> <<call.inputs[k].req, StartOf(k) + i>>]

Init == /\ call \in PagedCalls \cup Int4Calls \cup AwqCalls \cup StageCalls
                    \cup SpeculativeCalls \cup ServeCalls \cup GraphCalls
                    \cup SampleCalls \cup LoadCalls \cup ChatCalls
                    \cup QuantizedCalls \cup BuildCalls \cup StartCalls
                    \cup ScaleCalls \cup LayerCalls
        /\ result = NoResult

Attend ==
  /\ call.op = "paged" /\ result = NoResult
  /\ result' = PagedAttention(call)
  /\ UNCHANGED call

QuantizeLayer ==
  /\ call.op = "int4" /\ result = NoResult
  /\ result' = Quantize(call.rows, call.columns, call.group_size, MCValues)
  /\ UNCHANGED call

UnpackLayer ==
  /\ call.op = "int4" /\ result.ok /\ "qweight" \in DOMAIN result
  /\ result' = [ok |-> TRUE, unpacked |-> Unpack(result)]
  /\ UNCHANGED call

Divide ==
  /\ call.op = "stages" /\ result = NoResult
  /\ result' = [ok |-> TRUE,
                stages |-> [r \in 0..call.world_size - 1 |-> Stage(r, call.world_size, call.size)],
                shards |-> [r \in 0..call.world_size - 1 |-> Shard(r, call.world_size, call.size)]]
  /\ UNCHANGED call

\* The input is the end of the context.
Input == SubSeq(call.context, Len(call.context) - call.inputs + 1, Len(call.context))

Speculate ==
  /\ call.op = "speculate" /\ result = NoResult
  /\ result' = SpeculativeStep(call, Input, call.context)
  /\ UNCHANGED call

UnpackAwqLayer ==
  /\ call.op = "awq" /\ result = NoResult
  /\ result' = AwqUnpack(MCAwqLayer)
  /\ UNCHANGED call

\* The worker stops at the first input that fails.
Serve ==
  LET now == IF result = NoResult THEN [ok |-> TRUE, cache |-> <<>>, served |-> 0] ELSE result
      start == SumFunctionOnSet(call.inputs, 1..now.served)
  IN /\ call.op = "serve"
     /\ now.ok /\ now.served < Len(call.inputs)
     /\ LET out == Att!ServedForward(call, call.inputs[now.served + 1], start, now.cache)
        IN result' = [ok |-> out.ok, cache |-> out.cache, served |-> now.served + 1]
     /\ UNCHANGED call

\* Every input is of the request's own next tokens, <<request, number>>.
ServeQuantized ==
  LET now == IF result = NoResult THEN [ok |-> TRUE, contexts |-> <<>>] ELSE result
      k == Len(now.contexts) + 1
      inner == IF k = 1 THEN <<>> ELSE now.contexts[k - 1]
  IN /\ call.op = "gguf"
     /\ k \in DOMAIN call.inputs
     /\ result' = [now EXCEPT !.contexts =
                     Append(@, Att!ServedQuantized(inner, OwnTokens(k), StartOf(k)))]
     /\ UNCHANGED call

BuildModel ==
  /\ call.op = "build" /\ result = NoResult
  /\ result' = [ok |-> Build!Builds(call, MCCheckpoint)]
  /\ UNCHANGED call

LoadQuantizedLayer ==
  LET checkpoint == {Build!Tensor(<<>>, "q_proj", kind, call.shape) : kind \in call.kinds}
  IN /\ call.op = "layer" /\ result = NoResult
     /\ result' = [ok |-> IF call.loader = "gptq" THEN Build!GptqLoads(checkpoint, "q_proj")
                                                 ELSE Build!AwqLoads(checkpoint, "q_proj")]
     /\ UNCHANGED call

RoundWeights ==
  /\ call.op = "scale" /\ result = NoResult
  /\ result' = IF call.bits = 4 THEN Scale!Int4Group(call.weights, call.units)
                               ELSE Scale!Int8Layer(call.weights, call.units)
  /\ UNCHANGED call

StartServer ==
  /\ call.op = "start" /\ result = NoResult
  /\ result' = Loader!Start(call)
  /\ UNCHANGED call

\* log: the calls with, for a forward, what it returned.  The k-th call reads token k.
UseEngine ==
  LET start == [engine |-> Graph!NewEngine(call.mode, {1, 2}), log |-> <<>>]
      now == IF result = NoResult THEN start ELSE result
      e == now.engine
      k == Len(now.log) + 1
      Done(entry, f) == result' = [engine |-> f, log |-> Append(now.log, entry)]
  IN /\ call.op = "graph"
     /\ k <= MaxOps
     /\ \/ \E mode \in Graph!Modes : Done([op |-> "mode", mode |-> mode], Graph!SetMode(e, mode))
        \/ Done([op |-> "begin"], Graph!BeginCapture(e))
        \/ Done([op |-> "end"], Graph!EndCapture(e))
        \/ \E r \in {1, 2} :
             LET out == Graph!EngineForward(e, r, k)
             IN Done([op |-> "forward", req |-> r, output |-> out.output], out.engine)
     /\ UNCHANGED call

Sample ==
  /\ call.op = "sample" /\ result = NoResult
  /\ result' = Sampler!ItemToken(call)
  /\ UNCHANGED call

LoadModel ==
  /\ call.op = "load" /\ result = NoResult
  /\ result' = Loader!Load(call)
  /\ UNCHANGED call

ChatPost ==
  /\ call.op = "chat" /\ result = NoResult
  /\ result' = Chat!Post(call.tk, call.payload)
  /\ UNCHANGED call

\* The engine and the handler are different tasks.
Answering == call.op = "chat" /\ result # NoResult /\ result.ok /\ ~result.done

ChatGenerate ==
  /\ Answering /\ ~result.closed
  /\ \E token \in Chat!Vocabulary(call.tk) : result' = Chat!Generated(result, token)
  /\ UNCHANGED call

ChatExpire ==
  /\ Answering /\ ~result.closed
  /\ result' = Chat!Expired(result)
  /\ UNCHANGED call

ChatReceive ==
  /\ Answering /\ result.channel # <<>>
  /\ result' = Chat!Received(call.tk, call.payload, result)
  /\ UNCHANGED call

ChatEnd ==
  /\ Answering /\ Chat!AtEnd(result)
  /\ result' = Chat!Ended(call.tk, call.payload, result)
  /\ UNCHANGED call

Next == \/ Speculate \/ Attend \/ QuantizeLayer \/ UnpackLayer \/ UnpackAwqLayer \/ Divide
        \/ Serve \/ UseEngine \/ Sample \/ LoadModel
        \/ ServeQuantized \/ BuildModel \/ LoadQuantizedLayer \/ RoundWeights \/ StartServer
        \/ ChatPost \/ ChatGenerate \/ ChatExpire \/ ChatReceive \/ ChatEnd

Spec == Init /\ [][Next]_<<call, result>>

-----------------------------------------------------------------------------

Attended == call.op = "paged" /\ result.ok /\ call.ctx_len > 0

\* Each score of the kernel is read exactly once, and in the block it was computed for,
\* but written head by head and read token by token: a head weighs its tokens by its
\* own scores only if no block holds two of them.  The values of head h come from
\* its own group of query heads.
ScoresStayInBlock ==
  Attended =>
    LET Heads == 0..call.num_heads - 1
        Positions == 0..call.ctx_len - 1
        group_size == call.num_heads \div call.num_kv_heads
    IN /\ \A h, g \in Heads, t, u \in Positions :
            /\ result.weights[h][t] = result.weights[g][u] => h = g /\ t = u
            /\ result.weights[h][t][2] \div call.block_size = t \div call.block_size
       /\ (\A h \in Heads, t \in Positions : result.weights[h][t] = <<h, t>>)
            <=> (call.block_size = 1 \/ call.ctx_len = 1)
       /\ \A h, g \in Heads :
            (result.values[h] = result.values[g]) <=> (h \div group_size = g \div group_size)

\* With an even number of input features a layer is unpacked to its own
\* weights, each with the scale of its own group; with an odd number
\* a matrix of several rows is refused, and a single row comes back one wider.
Int4KeepsWeights ==
  call.op = "int4" /\ result # NoResult =>
    /\ result.ok <=> (call.columns % 2 = 0 \/ call.rows = 1)
    /\ "unpacked" \in DOMAIN result =>
         /\ result.unpacked.columns = call.columns + (call.columns % 2)
         /\ \A row \in 0..call.rows - 1, col \in 0..call.columns - 1 :
              result.unpacked.weight[row][col] =
                [q |-> MCValues[row * call.columns + col + 1],
                 group |-> <<row, col \div call.group_size>>]

\* An int4 group keeps, within half a step, exactly the weights that are at most 15.5
\* steps away from 0, a step being a 15th of the range of the group (or 1, if it
\* has none): all of them if they lie on both sides of 0, but of a group on one side only
\* those near to 0, since the zero point is cut to 0..15.  Int8 keeps every weight.
KeptNearZero ==
  call.op = "scale" /\ result # NoResult =>
    \A i \in DOMAIN call.weights :
      Scale!Kept(result, call.weights, i) <=>
        \/ call.bits = 8
        \/ 2 * Scale!Magnitude(call.weights[i]) * result.scale.n <= 31 * result.scale.d

\* Whatever the strategy and the lookahead, a step that succeeds returns one
\* token only: the second draft is looked for in the batch dimension.  And without
\* drafts it is the target's token.
OneTokenPerStep ==
  call.op = "speculate" /\ result.ok =>
    /\ Len(result.tokens) = 1
    /\ call.strategy = "Ngram" /\ NgramDrafts(call, call.context) = <<>> =>
         result.tokens = <<call.target.next[Last(call.context)]>>

\* The corpus has this window.
SeenIn(corpus, order, window) ==
  \E p \in Windows(corpus, order) : SubSeq(corpus[p[1]], p[2], p[2] + order - 1) = window

\* Each draft of the n-gram strategy continues what precedes it as the corpus
\* does somewhere, and drafting stops only where the corpus has nothing to say.
DraftsFollowCorpus ==
  call.op = "speculate" /\ call.strategy = "Ngram" =>
    LET drafts == NgramDrafts(call, call.context)
        text == call.context \o drafts
        Seen(window) == SeenIn(call.corpus, call.order, window)
        End(k) == SubSeq(text, k - call.order + 2, k)
    IN /\ \A k \in Len(call.context)..Len(text) - 1 : Seen(Append(End(k), text[k + 1]))
       /\ Len(drafts) < call.lookahead /\ Len(text) >= call.order =>
            \A t \in {1, 2} : ~Seen(Append(End(Len(text)), t))

\* A layer is unpacked exactly if every group its columns name has a scale (and a
\* zero point, if there are any); each weight then has the scale and the zero
\* point of its own row and group.
AwqOwnGroups ==
  call.op = "awq" /\ result # NoResult =>
    LET OwnGroup(col) == IF call.group_of = <<>> THEN col \div call.group_size
                                              ELSE call.group_of[col + 1]
        columns == 8 * call.words
    IN /\ result.ok <=> \A col \in 0..columns - 1 : OwnGroup(col) < call.num_groups
       /\ result.ok => \A row \in 0..call.rows - 1, col \in 0..columns - 1 :
            result.weight[row][col] =
              [q |-> MCNibble(row, col), scale |-> <<row, OwnGroup(col)>>,
               zero |-> IF call.zero_words = 0 THEN 8 ELSE MCZero(row, OwnGroup(col))]

\* The attention layers compute with inputs of exactly n_heads tokens in F32 and
\* fail on any other; in particular no token is ever decoded behind a context, and
\* in F16, the dtype the loader asks for, the first layer fails before it caches.
HeadSizedInputsOnly ==
  call.op = "serve" /\ result # NoResult =>
    /\ result.ok <=> /\ call.dtype = "F32"
                     /\ \A i \in 1..result.served : call.inputs[i] = call.n_heads
                     /\ call.n_heads = 1 => result.served = 1 /\ call.num_layers = 1
    /\ call.dtype = "F16" => result.cache = <<>>

\* Served in several inputs, a text does not keep its positions: each input starts at
\* position 0 again.  The cache holds the inputs one after the other, and each of them
\* once per layer.
PositionsRestart ==
  call.op = "serve" /\ result.ok =>
    /\ Len(result.cache) = result.served * call.num_layers * call.n_heads
    /\ \A k \in DOMAIN result.cache :
         result.cache[k] = [layer |-> (((k - 1) \div call.n_heads) % call.num_layers) + 1,
                            pos |-> (k - 1) % call.n_heads]

\* A GGUF model computes every input from that input alone: never from another request's
\* tokens, although its cache is everybody's, but neither from what its own request
\* was fed before: a decode sees one token, and not the prompt.
InputsSeenAlone ==
  call.op = "gguf" /\ result # NoResult =>
    \A k \in DOMAIN result.contexts : result.contexts[k] = OwnTokens(k)

\* What the calls before the k-th make of it, from the log alone.
LastOf(k, ops, default) ==
  LET D == {j \in 1..k - 1 : result.log[j].op \in ops}
  IN IF D = {} THEN default ELSE result.log[CHOOSE j \in D : \A i \in D : i <= j]
ModeAt(k) == LastOf(k, {"mode"}, [mode |-> call.mode]).mode
CapturingAt(k) == LastOf(k, {"begin", "end"}, [op |-> "end"]).op = "begin"
IsForward(k) == result.log[k].op = "forward"
Captures(k) == IsForward(k) /\ ModeAt(k) = "FullGraph" /\ CapturingAt(k)
Stale(k) == /\ IsForward(k) /\ ModeAt(k) = "FullGraph" /\ ~CapturingAt(k)
            /\ \E j \in 1..k - 1 : Captures(j)

\* A forward computes from all of its request's own tokens but those that were
\* themselves answered by a replay; a replay returns the last captured output, of
\* whichever request, and leaves its own token out of the context for good.
AnswersExceptReplays ==
  call.op = "graph" /\ result # NoResult =>
    \A k \in DOMAIN result.log :
      IsForward(k) =>
        IF Stale(k)
          THEN \E j \in 1..k - 1 : /\ Captures(j) /\ result.log[k].output = result.log[j].output
                                  /\ \A i \in j + 1..k - 1 : ~Captures(i)
          ELSE LET output == result.log[k].output
               IN /\ ToSet(output) = {j \in 1..k : /\ IsForward(j) /\ ~Stale(j)
                                                  /\ result.log[j].req = result.log[k].req}
                  /\ \A i \in 2..Len(output) : output[i - 1] < output[i]

\* A request with a bias or a penalty fails on the logits of every model and of the
\* mock, and a top_k of 0 with a top_p below 1 panics.  Otherwise a token in F32 is an
\* index into the logits of all positions of the input, beyond the vocabulary if a later
\* position has the heavier logits; it obeys top_k, and if top_p cuts or the temperature
\* is 0, the grammar.  In any other dtype but at temperature 0 it is arbitrary.
SampledTokens ==
  call.op = "sample" /\ result # NoResult =>
    LET vocab == Last(call.dims)
        n == Att!Elements(call.dims)
        Permitted(t) == \A S \in call.valid : t % vocab \in S
        Heavier(t) == {i \in 0..n - 1 : Permitted(i) /\ call.weight[i] > call.weight[t]}
    IN /\ result.ok /\ call.adjusted => Len(call.dims) = 2 /\ call.dtype = "F32"
       /\ ~call.adjusted /\ call.valid = {} =>
            (result.ok <=> \/ call.greedy \/ call.dtype # "F32"
                           \/ call.top_k # {0} \/ call.top_p = <<1, 1>>)
       /\ result.ok /\ call.dtype # "F32" /\ ~call.greedy => result.tokens = 0..99
       /\ result.ok /\ (call.dtype = "F32" \/ call.greedy) =>
            /\ result.tokens # {} /\ result.tokens \subseteq 0..n - 1
            /\ call.greedy =>
                 result.tokens = {t \in 0..n - 1 : Permitted(t) /\ Heavier(t) = {}}
            /\ call.top_p = <<1, 2>> => \A t \in result.tokens : Permitted(t)
            /\ ~call.greedy =>
                 \A k \in call.top_k \ {0}, t \in result.tokens : Cardinality(Heavier(t)) < k

\* Only the mixture-of-experts names make a difference, and not where a name of
\* a decoder family appears as well: a Qwen checkpoint never runs as Qwen2, and
\* neither does gpt-oss, whose name contains gpt.  Everything else that is loaded is
\* run as a Llama: embedding and reward models, state-space and vision models.
QwenRunsAsLlama ==
  call.op = "load" /\ result # NoResult =>
    LET text == UNION call.names
    IN /\ result.ok <=>
            \/ call.gguf
            \/ call.safetensors /\ AllFields \ call.fields \subseteq {"num_key_value_heads"}
       /\ result.ok /\ ~call.gguf =>
            /\ result.model \in {"Llama", "Qwen2"}
            /\ result.model = "Qwen2" <=>
                 /\ text \cap {"moe", "mixtral", "deepseek"} # {}
                 /\ text \cap {"llama", "qwen", "gemma", "gpt", "bloom"} = {}

\* A model is built only from a checkpoint with a bias for every linear layer and an
\* lm_head of its own, which neither a Llama's nor a Qwen2's is; and only by a single
\* rank: with more, the heads are dealt out, but the tensors are looked for in
\* a shape nobody has cut them to, so that only a rank without layers succeeds.  A GPTQ
\* or AWQ layer is never built from tensors that hold anything.
OnlyBiasedCheckpointsBuild ==
  /\ call.op = "build" /\ result # NoResult =>
       LET own == Stage(call.rank, call.world_size, call.layers)
           Offers(modules) == modules \subseteq call.biased /\ ~call.tied
       IN result.ok <=>
            IF call.world_size = 1 THEN Offers(Linears)
            ELSE /\ own.start_layer >= own.end_layer
                 /\ call.rank = call.world_size - 1 => Offers({"lm_head"})
  /\ call.op = "layer" /\ result # NoResult /\ result.ok => call.shape = <<0>>

\* A server that starts has a tokenizer exactly if its path is given and can be
\* read, or none is given and the model is a directory with a tokenizer.json: the other
\* files that detection finds are never readable, a path that is wrong is not made up
\* for by detection, and a GGUF model has a tokenizer only if it is told.
TokenizerFromJsonOnly ==
  call.op = "start" /\ result # NoResult /\ result.ok =>
    (result.tokenizer <=>
       IF call.tokenizer # Loader!NoPath THEN call.tokenizer.valid
       ELSE /\ call.model # Loader!NoModel
            /\ ~call.model.gguf /\ "tokenizer.json" \in call.model.files)

\* The answer is whole although the engine drops the channel with the last token in
\* it: every token is told, once and in order.  A stream has a delta per token and then
\* its end; what the deltas tell together is told, with a tokenizer, by the last one
\* alone, and without one by all of them one after the other.
AnswerIsWhole ==
  call.op = "chat" /\ result # NoResult /\ result.ok /\ result.done =>
    LET said == Front(result.events)
        end == Last(result.events)
        answer == Chat!AnswerContent(call.tk, result.generated)
    IN IF ~call.payload.stream
         THEN /\ said = <<>> /\ end.content = answer
              /\ end.completion_tokens = Len(result.generated)
              /\ call.tk.loaded => end.prompt_tokens = Len(result.prompt_tokens)
         ELSE /\ end.data = "[DONE]"
              /\ Len(said) = Len(result.generated)
              /\ IF call.tk.loaded
                   THEN said # <<>> /\ Chat!Decodes(result.generated) => Last(said).content = answer
                   ELSE FlattenSeq([i \in DOMAIN said |-> said[i].content]) = answer

\* A stop string is waited for as the tokens it has when it stands alone.  An answer
\* that ends before its limit and in time ends with a stop string, but where the
\* tokenizer leads with a space only behind a space, and where it begins with a special
\* token only behind that, which a model does not generate in the middle of a text.
\* And an answer goes on behind a stop string (with its space), although it is spelled
\* in the tokenizer's own tokens, only if the string's first letter and the letter in
\* front of it have become one token, or if there are special tokens.
StopStringsAtTokens ==
  call.op = "chat" /\ result # NoResult /\ result.ok =>
    LET tk == call.tk
        generated == result.generated
        stops == {call.payload.stop[i] : i \in DOMAIN call.payload.stop}
        Alone(s) == Chat!Led(tk, s)
        cut == Len(generated) < result.max_tokens /\ result.closed /\ ~result.expired
        Straddled(s, text) == Chat!PairAt(text, Len(text) - Len(Alone(s)))
    IN /\ cut => /\ tk.loaded
                 /\ \E s \in stops : /\ IsSuffix(s, Chat!Plain(tk, generated))
                                      /\ IsSuffix(Alone(s), Chat!Spelled(generated))
                 /\ tk.bos => \E i \in DOMAIN generated : generated[i] = Chat!Bos
       /\ tk.loaded /\ ~tk.bos =>
            \A n \in 1..Len(generated) - 1, s \in stops \ {<<>>} :
              LET tokens == SubSeq(generated, 1, n)
                  text == Chat!Spelled(tokens)
              IN tokens = Chat!Pieces(tk, text) /\ IsSuffix(Alone(s), text)
                   => tk.merges /\ Straddled(s, text)

\* Every layer runs on one rank; shards miss the remainder of the division only.
RanksDivide ==
  call.op = "stages" /\ result.ok =>
    /\ LayersPartitioned(call.world_size, call.size)
    /\ ShardsTile(call.world_size, call.size)
=============================================================================
