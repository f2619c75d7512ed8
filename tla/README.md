# Kyro in TLA+

Kyro (`src/`) is an LLM serving engine in Rust: an OpenAI-compatible HTTP API, a continuous-batching
scheduler with a paged block allocator and a prefix cache, a worker task that feeds the model, and
the model code itself. This directory holds TLA+ modules translated from its source, TLC instances
of them, and proofs, checked by TLAPS, about the allocator, the scheduler and worker around it, beam
search and most of the model code. Paths below are relative to the repository.

## 1. Inventory

| Component | State | Operations | Interacts with | What is hard | What makes it correct |
|---|---|---|---|---|---|
| **Block manager** `src/scheduler/block_manager.rs` | pool `free_gpu_blocks`, `block_table`, `prompt_table`, `ref_counts`, the prefix cache | `allocate_with_prefix`, `allocate` (legacy), `free` | called by the scheduler only, under its write lock | blocks shared by requests and cache; eviction in the middle of an allocation; rollback; unsigned counts | nobody's block is in the pool, no count wraps, a block is pushed once, a grant covers the prompt |
| **Prefix cache** `src/scheduler/radix_cache.rs` | a tree of token strings with blocks and access times, `num_cached_blocks` | `match_prefix`, `insert`, `evict_lru` | called by the block manager | nodes that list a block more than once, divergence inside a node, order of eviction | the counter is the tree's, the capacity holds, what is handed out is a prefix of the prompt |
| **Scheduler** `src/scheduler/continuous_batching.rs` | `waiting_queue`, `running_queue` | `add_request`, `schedule`, `advance_prefill_cursor`, `finish_request` | shared by handlers and worker behind an `RwLock` | token budget, admission, deadlines, four ways a request ends | a request is in one queue and owns blocks exactly while it runs; progress under the budget |
| **Worker** `src/worker.rs` | the batch of the current iteration | `run_loop`, `sample_token` | scheduler (lock), `Notify`, KV cache, model | results applied after the lock was released; sleeping and waking; errors and panics | results find their requests; no lost wakeup; no request starves |
| **KV cache** `src/model/kv_cache.rs` | `request_caches` | register, unregister, `append_kv` | called by the worker and by every attention layer | registration depends on where the prefill starts | registered before use; holds what the model was fed |
| **HTTP handler** `src/api/openai.rs`, `src/api/tokenizer.rs` | one channel per request, the tokens read so far | `chat_completions`: payload to `Request`, tokens to events or to a body | scheduler (lock), `Notify`, the channel, the tokenizer | add and notify are two steps; the channel closes, with tokens in it, when the request is dropped; stop strings and deltas are texts, the engine knows tokens | every client is answered, with everything that was generated; an answer ends at the tokens of a stop string |
| **Models** `src/model/{llama,qwen,layers,quantized,model_registry}.rs` | weights, the context a GGUF model keeps | building from a checkpoint, `forward` | loader, KV cache | dimensions in the right order, positions and layers in one cache, requests in one model | every input a request may give is computed from its own context; a checkpoint of the architecture can be built |
| **Engine wrapper** `src/model/engine.rs` | mode, captured graph | `forward`, begin/end capture | model | replay of a stale capture | an output belongs to its input and request |
| **Speculative decoding, beam search** `src/speculative.rs` | n-gram table, beams | `build_ngram_table`, `step`, `decode` | model; not called by the serving loop | copies of one beam, finished beams, shapes on the way from logits to a token | beam search covers more than one text; a step returns what the target would |
| **Paged attention kernel** `src/model/attention_kernel.rs` | none | `forward` | block table | index arithmetic over blocks and heads | each weight belongs to its token and head |
| **Quantization** `src/model/quantization/` | packed weights | quantize, pack, unpack, load | loader | odd sizes, groups, the range of a zero point | unpacking returns what was packed, and that is near the weight |
| **Parallelism** `src/model/pipeline.rs`, `src/distributed.rs` | rank, layer range | stage range, `shard_dim` | loader, layers | remainders | stages and shards partition their range |
| **Configuration, loading** `src/model/{config,loader,model_registry}.rs` | none | architecture inference, file input | start-up | keywords within keywords, order of the classes | a checkpoint is run as what it is |
| **Grammar mask** `src/api/grammar.rs` | none | `apply_grammar_mask` | worker | indices beyond the vocabulary | only allowed tokens are sampled |
| **Start-up** `src/main.rs`, `src/config.rs` | none | command line to model, mode, tokenizer, worker task; graceful shutdown | loader, all of the above | failures that are swallowed; requests at work when the signal comes | a server that starts is the one asked for, and one told to stop stops |
| **LoRA, MoE, vision, metrics, devices** | small or none | - | - | - | - |

The serving path is: a handler draws a random id, appends a `Request` to the waiting queue under the
write lock, releases it, and calls `notify_one`; it then receives tokens until the channel closes.
The worker takes the lock, runs `schedule` (expire, list decodes, list running prefills, admit from
the waiting queue through `allocate_with_prefix`), copies what it needs into work items and releases
the lock; it registers KV caches, runs the model on one item after the other, takes the lock again,
appends and sends one token per item, advances the prefill cursors and finishes requests (`free`
deposits their blocks in the prefix cache). With nothing to do it waits on the `Notify`.
`PROJECT.json` lists, under `hazards`, what can go wrong on this path and elsewhere that a test
would hardly reach, with the property that watches over it.

## 2. Modules

| Module | Models |
|---|---|
| `RadixCache` | `radix_cache.rs` as values: one operator per method |
| `BlockManager` | `block_manager.rs`: one action per method and outcome; instantiates `RadixCache` with a third of the blocks as capacity |
| `MCBlockManager` | prompts, symmetry and the bound `MaxRefs` for TLC |
| `BlockManagerClaims` | what comments and README say of the two and the code does not do |
| `BlockManagerProofs` | the theorems about `BlockManager`: counts, pool and cache, and what it grants a prompt |
| `Serving` | what the engine promises its clients, an abstract specification |
| `Engine` | handlers, scheduler, worker, KV caches, over an instance of `BlockManager`; implements `Serving` |
| `MCEngine` | prompts and symmetry for TLC |
| `EngineClaims` | what comments, an assertion and the README say of the serving loop and the code does not do |
| `Greedy` | greedy decoding, an abstract specification |
| `Beams`, `MCBeams` | `BeamSearchDecoder::decode`, one turn of its loop per step; an instance with a model without ties |
| `Speculation` | n-gram table, drafts and verification of `SpeculativeDecoder`, as functions |
| `PagedKernel` | `attention_kernel.rs`: its index arithmetic |
| `Packing` | `pack_i4`, `unpack_i4`, the layout of `Int4Linear`; words, groups and zero points of `AwqLinear` |
| `Scales` | the rounding of `Int4Linear` and `Int8Linear`, in exact arithmetic |
| `Stages` | layer ranges of pipeline stages, shards of a dimension |
| `Attention` | `forward` of the attention layers by the shapes of their tensors, with rotary positions and the KV cache; how `ModelInstance::forward` runs the models, the GGUF model's single context included |
| `Weights` | the tensors that Llama, Qwen2 and the loaders of GPTQ and AWQ layers ask a checkpoint for |
| `GraphCapture` | `EngineModel` of `engine.rs`: modes, capture, replay |
| `Sampling` | penalties, grammar mask and `sample_token`: from logits to the tokens that may be drawn |
| `Loading` | which model a checkpoint is loaded as; what a command line starts |
| `ChatCompletions` | the handler with the tokenizer: payload to request, tokens to events or body |
| `MCModelCode` | one call, or a few, of the operators of `Speculation`, `PagedKernel` and the modules below it per behaviour, for TLC; for `ChatCompletions`, the handler and an engine that generates, drops and expires as it likes, as two processes |
| `ModelCodeClaims` | what the README says of a stream and the code does not do |
| `PackingProofs` | the theorems about `Packing`, `Scales` and `Stages`, and about the calls of `MCModelCode` to them |
| `ModelCodeProofs` | the theorems about the other operators of `MCModelCode`, and about `MCModelCode` itself |
| `Queues` | selections from a queue that keep its order, as `Engine` makes them |
| `QueueProofs` | lemmas about `Queues`, for queues of any length |
| `EngineProofs` | the theorems about where requests are and what they own in `Engine`; that it implements `BlockManager` |
| `IterationProofs` | the theorems about batches and the budget of `Engine` |
| `ServingProofs` | the theorems about KV caches and decodes of `Engine`; that it implements `Serving` |
| `BeamsProofs` | the theorems about `Beams`; that it implements `Greedy` |

**RadixCache.** A node is added below an existing node or removed as a leaf, never split or
relabelled, so the tokens from the root to a node identify it for its whole life. The tree is
therefore a function from token strings to contents; parent, child and leaf are the prefix order.
`path_blocks` is what `match_prefix` collects on the way to a node, fixed when the node is made.
Access times enter only through comparisons and are the relation `older`; two readings of the clock
are taken to be distinct. `FoundLeaf` is `find_oldest_leaf`: the oldest leaf among the children of a
node, and only if none of them is a leaf, some child's subtree, in the unspecified order of a
`HashMap`. `evict_lru` is the set of removal sequences this allows, and an operator that calls it
returns the set of caches it may leave. `insert` keeps the code's walk, which enters a child on its
first token and skips the child's length uncompared.

**BlockManager.** `Attempts(tokens)` is everything `allocate_with_prefix` has computed and changed
when it compares the pool with the need for the second time: the hit, the counts raised for it, the
eviction with its decrements and pushes. `Grant` and `Refuse` are the two ends. A loop that
decrements counts and pushes blocks reaching zero pushes a block at the visit that brings its count
to zero: `ZeroingPlaces`, in the order of the loop. `FreeToCache` and `FreeToPool` are the two
branches of `free`; `free` of an unknown id is a stutter. A call for an id that still has blocks is
not made: ids are random 64-bit numbers.

**Engine.** The worker's program counter is `worker`. Between taking and releasing the lock the code
does not yield, so those stretches could be one step each; they are split at each call into the
block manager, so that the engine's steps can be compared with the manager's, and `Locked` keeps the
handlers out meanwhile. `StartSchedule` reads the clock once (`now_late`), `ExpireRunning` is one
turn of the first `retain`, `ListRunning` the second `retain` and the two loops over the running
queue, `Admit`/`AdmitRefused`/`AdmitEnd` the loop over the waiting queue. `Assemble` builds the
batch; with nothing to do `Sleep` releases the lock, and only the separate step `Wait` begins to
wait on the `Notify`, so that a handler can come in between; `Wake` takes the permit. `Forward` is
one item through the model, `Apply` and `Finish` the application of the results. `permit` is the
single permit of a `tokio::sync::Notify`: `notify_one` sets it, the waiting worker consumes it. A
panic or an error leaves the worker `dead`, everything else as it is. `ShutdownSignal` and
`ServerEnds` are the graceful shutdown of `main.rs`: no more requests are taken, the handlers at
work finish, then `main` returns and the worker goes with the runtime. Tokens are not represented: a
request records how many it has generated (and a decode item the number of the token it is fed),
stop sequences are a free choice at `Apply`. `num_layers` is a variable chosen at `Init`: the mock
has none. A request's fields that only shape the logits are left out.

**Serving.** Six variables and seven actions: requests arrive, wait in line, are started in the
order of the line, get a token each in every turn, and leave once they have a token or are late.
Blocks, cache, budget, chunks, lock and worker are behind the mapping: `served` are the requests of
the running queue, `limit` the `max_tokens` of those alive, `client` the handler's state.

**Model code.** `Beams` replaces `f64` scores by exact fractions and the model by a function from a
text and a next token to its log probability; that no two next tokens are equally likely is an
assumption, since the unstable sorts decide ties. `Speculation` follows the *shapes* of the tensors
between logits and token: an operator returns a token, or nothing where `get`, `squeeze` or
`to_scalar` is an error. `PagedKernel` keeps, in place of each score, the head and the token it was
computed for. `Packing` keeps four-bit values, and for each scale the row and group it is stored
for; AWQ words are 32-bit integers with their sign. `Stages` is all of `PipelineContext::new` and of
`shard_dim` but for the tensor. `Attention` follows shapes through the reshapes, products and cuts
of `LlamaAttention::forward`; a product or cut that does not fit is an error, as in candle, and so
is a product of two dtypes. `GraphCapture` gives each output as the text it was computed from, so
that an answer can be compared with its request. `Sampling` gives each logit a small natural number
as its weight (0 for the minus infinity of a mask) and returns the set of tokens that may be drawn,
the ends of the list included that a draw of exactly 0 or a rounding error picks. `Loading` knows a
name by the keywords it contains, and a tokenizer file by whether it is in the format of
`tokenizer.json`. `Weights` gives a tensor as its name and its shape; a model builds if all it asks
for is there. `Scales` replaces `f32` by fractions, so that half a step is exact; what rounding
errors of `f32` and `f16` add is left out. `ChatCompletions` takes a text as a sequence of letters
and a tokenizer as a token per letter, with one letter it cannot encode and one token it cannot
decode. A tokenizer may have, each with or without the others, one token for a pair of letters
(encoding uses it wherever the pair stands, a model may also generate the two letters one by one), a
space that encoding puts in front of a text and decoding takes off its start, and a special token
that encoding adds in front and decoding leaves out. So what a text is encoded as depends on what is
in front of it.

**The model behind `Engine`.** `Engine` takes a model that accepts every input of a registered
request. `Attention` shows how far the present one is from that (`HeadSizedInputsOnly` below): its
layers compute with inputs of exactly `n_heads` tokens, none of them a decode behind a context, and
only in `F32`, while the loader asks for `F16`. With such a model every real iteration of the worker
would end in `ForwardFails`. `Engine` therefore says what the serving loop does with a model that
works, or with one that fails: with no layers it is the mock that `main.rs` serves without a model
path, with some it appends to the KV cache as the attention layers do, and `ForwardFails` may happen
at any item.

## 3. Runs

`tlc -config <run>.cfg <module>`; each run's question is in `PROJECT.json`.

| Run | Module | Instance | Why this is enough |
|---|---|---|---|
| `pool_pressure` | MCBlockManager | 4 blocks of 2, 3 requests, four prompts of 1 to 4 tokens that repeat, extend and diverge, legacy allocation of 3 tokens, `MaxRefs` 3 | capacity 1: nearly every deposit evicts at once, most allocations evict or are refused; the only run with `FreeToPool` |
| `shared_prefixes` | MCBlockManager | 6 blocks of 2, 2 requests, prompts `1`, `2`, `3`, `11111`, `MaxRefs` 2 | capacity 2 holds two siblings; a third one, deposited or allocated, makes one of them go; the long prompt is allocated through a sibling while the other request deposits, and its node, deposited below that sibling, is evicted by the same call, one or two others before it |
| `engine_serving` | MCEngine | 3 requests, prompts of 1 and 4 tokens, 3 tokens wanted, budget 2, chunk 2, 4 blocks of 2, 0 or 2 layers, at most two requests late, failing model | a chunk or two decodes use the budget up, the long prompt takes two chunks with decodes before, between and after them; the cache keeps one block, memory holds two long prompts but not three, so that prefix hits, refusals, evictions and panics all occur |
| `engine_answers` | MCEngine | 3 requests, prompts of 1 and 4 tokens, 2 tokens wanted, budget 1, 9 blocks of 2, nobody late, no failures, a shutdown at any moment | memory for everybody, so that only scheduling and notification could keep a request from its answer |
| `beam_search` | MCBeams | 3 beams, 3 new tokens, 4 tokens of which one is eos, every prompt of 1 to 3 tokens | fewer beams than tokens, so that candidates are cut; texts that end early and texts that do not |
| `model_code` | MCModelCode | contexts to 7 tokens, blocks to 4, 4 heads, matrices to 3 by 5, pairs of weights within 33 and triples within 6 in whole numbers and quarters, AWQ layers of 3 rows, 2 words and 9 groups of 1, 3, 6 and 8 columns, 5 ranks, 11 layers, 3 drafts, orders to 3, models of up to 11 layers with two inputs of up to 4 tokens, GGUF models with four inputs of two requests, 5 calls of the execution engine for two requests, logits of 2 positions by 3 tokens, every pair of keywords in the names of a checkpoint, checkpoints with and without biases of models of up to 11 layers for 5 ranks, every set of tokenizer files, tokenizers of all kinds, answers of up to 3 tokens | every remainder of a block, a group, a byte and a division occurs, with one block and with several; groups of weights on both sides of 0 and on one, up to 33 steps away; an input meets an empty and a filled cache; a capture, a change of mode, a replay and a forward after it fit into the calls; stop strings of one letter and of the pair that ends in it, of one token to three, end before `max_tokens` |

`MaxRefs` bounds the reference counts, the one quantity of `BlockManager` that grows without limit
(depositing a cached prompt raises counts that nothing lowers): a step that would pass it is not
taken. In `pool_pressure` it lets a block be listed by two requests and a node, in `shared_prefixes`
by two of these. In `Engine` every request id is used once, which bounds the rest; `MaxLate` says
how many deadlines may pass, in `engine_serving` two of three, since a third adds states and no
case. The bounds of `MCModelCode` are those of the enumerated arguments. `CHECK_DEADLOCK FALSE`
everywhere: at the bound, when every request has been answered, or when the call has returned, the
system stops. The symmetry of `pool_pressure`, `shared_prefixes` and `engine_serving` permutes
requests, and in `shared_prefixes` the tokens 2 and 3 too, which none of the specifications tells
apart; all check safety only.

**What the passing runs show.**

*Manager:* `RefsCoverHolders` (a block's count covers all who list it, so no decrement wraps),
`FreeBlocksUnheld`, `NoDoubleFree`, `PromptsFit` (a grant covers its prompt, also with a partial
hit), `CacheWithinCapacity`, `SharingOnlyThroughCache` (what is shared comes from a prefix of the
request's own prompt), `LastReferenceFrees` (a block whose last reference goes is pushed to the pool
by the same call, but for one that a refused allocation had matched and then evicted),
`LeastRecentSiblingFirst` (when a leaf is evicted, its sibling leaves have
been used since, or are used by the very call that evicts: an allocated prompt goes through one of
them, or a deposit's node is hung below it and evicted together with the older leaf; of other leaves
nothing is said, and an older one elsewhere in the tree may stay).

*Engine:* `OneQueueOneOwner` (a live request is in one place of one queue and owns blocks exactly
while it runs), `BatchIsCurrent` (between schedule and application nobody removes or advances a
batched request, and none in the batch had expired), `IterationBudget` (at most one chunk beyond the budget unless
the decodes alone exceed it). `EveryRunningServed` says more than the code's comments do: although
`schedule` may stop listing prefills when the budget is reached, it never passes over a running one.
The reason is that a request is admitted only while the listed tokens are below the budget, and that
what a running request costs never grows: a chunk that is not the last is of maximal size, and a
decode costs one. `RegisteredBeforeUse` says exactly when `append_kv` panics: for a request that
starts behind a cached prefix or has an empty prompt, and for no other. `KVHoldsContext` relates the
cache length to cursor and generated tokens, per layer. `DecodedFromOwnToken`: a decode is fed the
token its client was sent last, and only a request whose prompt was found whole in the cache is fed
token 0, whatever its prompt (the worker's branch for it is never reached, since `schedule` lists it
for decode). `CachesLeftByDeadline`: a KV cache goes with its request on every way out but the
deadline of a running one, which leaves it for good. `ManagerSpec`: the engine's view of the manager
is a behaviour of `BlockManager!Spec`, so that what is proved of the latter holds inside the engine.
`Serves`: to its clients the engine is `Serving!Spec`, first come, first served, a token per turn
for everybody being served, none beyond `max_tokens` (but one for a request that asks for none),
nobody dropped without a token unless late, and no answer before the request has left.
`EveryRequestAnswered`: no wakeup is lost, nobody starves, and a shutdown cuts nobody off; a server
that is told to stop therefore does.

*Model code:* `BeamsAreCopies` and `DecodesGreedily` (a refinement of `Greedy!Spec`): all beams
begin as the same prompt and every copy contributes the same best token, so beam search, when the
model knows no ties, is greedy decoding at `num_beams` times the price; for the same reason no
finished beam is lost to a longer one. `ScoresStayInBlock`: the paged kernel reads every score once
and within its block, but it writes them head by head and reads them token by token, so that a head
weighs its tokens by its own scores exactly when blocks hold one token or the context is one token
(the kernel fails on a single KV head, and so on a single head); values come from the head's own
group. `Int4KeepsWeights`: an even number of input features is kept, an odd one is an error or, for
a single row, one feature more. `KeptNearZero`: of an int4 group exactly the weights within 15.5
steps of 0 come back within half a step. That is all of them if the group lies on both sides of 0;
of a group on one side the far part is cut off, since the zero point is cut to 0..15 (the row 5, 6,
7, 8 of the code's own test comes back as four times 3, within the bound the test sets). Int8 keeps
every weight. `RanksDivide`: layers are partitioned; shards are disjoint and miss the remainder
only. `OneTokenPerStep`: a speculative step returns one token or an error, never several, because
the drafts are looked for in the batch dimension. `DraftsFollowCorpus`: n-gram drafts are
continuations the corpus has, and stop only where it has none. `AwqOwnGroups`: every weight has the
scale and zero point of its own row and group, and a group without a scale is never read silently
from another row: the last row panics. `HeadSizedInputsOnly`: heads and positions stand in each
other's dimension in both products, so that only an input as long as the model has heads is
computed; one token behind a context never is. `PositionsRestart`: chunk by chunk the rotary
positions start over at 0, and each layer appends to the same cache. `AnswersExceptReplays`: outside
of replays a forward computes from its request's own context; a replay returns the last captured
output, whichever request asks, and its token never reaches the context. `SampledTokens`: a token is
sampled from the logits of all positions of an input, so it may lie beyond the vocabulary; with
logits in another dtype than `F32` (the mock's, or those of a model loaded in `F16`) it is an
arbitrary number unless the temperature is 0; a bias or a penalty fails on the logits of every
model, and a `top_k` of 0 panics when `top_p` cuts. `QwenRunsAsLlama`: of the seven architectures
only one, mixture of experts, makes a difference, and no Qwen checkpoint is recognised as such.
`InputsSeenAlone`: a GGUF model keeps one context for all requests, which the worker mixes; but
since every input is run with index 0, each is computed from itself alone, so that no request sees
another's tokens and no decode sees its prompt. `OnlyBiasedCheckpointsBuild`: the models ask for a
bias of every linear layer and for an `lm_head`, so that no published Llama or Qwen2 checkpoint in
safetensors can be built; on several ranks only one without layers can; the loaders of GPTQ and AWQ
layers ask for tensors without entries. `TokenizerFromJsonOnly`: a server has a tokenizer exactly if
the path given can be read, or, with none given, the model's directory has a `tokenizer.json`; in
all other cases it starts without and answers from a fixed prompt. `AnswerIsWhole`: although the
engine drops the channel with tokens in it, and by a deadline at any moment, the handler tells every
token once and in order. `StopStringsAtTokens`: the engine compares tokens, and a stop string is
encoded alone. An answer that ends early therefore ends with a stop string, but with the space or
the special token in front that the tokenizer begins a text with. The other way round a text may end
with a stop string and the answer go on: always if its tokens need not be those the tokenizer would
choose; and if they are, exactly where the string's first letter and the letter in front of it are
one token, or where the string waits for a special token.

`EveryRequestAnswered` needs its instance: memory for everybody and a model that does not fail;
otherwise see `deadline_ignored`. The leak of blocks described below is also the reason that three
requests need nine blocks.

**Fairness** (`FairSpec`): the worker and each handler keep being polled by the tokio runtime when
they can proceed (weak fairness of `Worker` and of each `Handler(r)`), time passes
(`DeadlinePasses`), and `main` returns once the handlers are done (`ServerEnds`). Nobody is obliged
to send a request or to stop the server. Weak fairness of the worker as a whole does not favour any
of its branches; in particular `ForwardFails` need never happen.

**Violations.** Each of these runs checks one statement of a comment, an assertion or the README
that the code does not keep; the module's comment quotes it and `PROJECT.json` names the line.

| Run | Statement | What happens |
|---|---|---|
| `eviction_leak` | eviction "manages when blocks are truly released" | a deposit larger than the cache evicts at once, and `insert` drops the blocks its eviction returns: they are lost for good |
| `wrong_prompt` | "physical block IDs corresponding to these tokens" | `insert` skips a child's tokens uncompared: blocks end up below another prompt's tokens |
| `cache_hit_panics` | "request must be registered" | a prefix hit makes `append_kv` panic, which ends the worker |
| `unread_prompt_cached` | "a new sequence of tokens and their computed blocks" | every prefill chunk yields a token, so `max_tokens` is reached within the prompt, and the blocks of the whole prompt are cached |
| `stream_deltas` | the README's stream of `I'm` and ` doing` | every delta repeats the answer from its start |
| `deadline_ignored` | "deadline for request cancellation" | a request that does not fit: a sleeping worker looks at no deadline |

The instance of `eviction_leak` is chosen so that the shortest trace is the one described: a single
prompt is larger than the cache.

Other deviations of this kind are in the models without a run of their own. Two more leaks would
violate `BlocksNeverLost` as well: the second deposit of a prompt counts its blocks once more
(`block_manager.rs:140`) although the cache keeps nothing of it, and the rollback of a refused
allocation pushes nothing (`block_manager.rs:84`), which `LastReferenceFrees` names as its only
exception. A worker that has returned with an error looks at no deadline either. Eviction is LRU
(`README.md:13`) among siblings only; a fully cached request is decoded from token 0; a running
request that expires leaves its KV cache registered, which `CachesLeftByDeadline` admits since
nothing in the repository says otherwise; and those the properties above state. Some concern what is not modelled: `--request-timeout-secs` (`README.md:76`)
is read by nobody, the deadline is 300 s in any case (`openai.rs:331`); `/health` answers `OK` with
a dead worker, and a shutdown then waits for ever for the requests the worker left behind; a
mixture-of-experts layer works in `F64` and with width 1 only.

Each property of a passing run is paired with a slip a programmer could make (`mutants`; the
definitions marked "A slip" in the modules): with the slip in place TLC finds the property violated.
Where a property says what an error of the code leads to, the slip is its repair (`OneTokenPerStep`,
`PositionsRestart`, `SampledTokens`, `KeptNearZero`, `InputsSeenAlone`, `StopStringsAtTokens`,
`OnlyBiasedCheckpointsBuild`).

## 4. Proofs

`BlockManagerProofs` (`tlapm BlockManagerProofs.tla`) proves, for every number of blocks, block
size, set of requests and of prompts allowed by `BlockManagerAssumption`:

| Theorem | Statement |
|---|---|
| `TypeCorrect` | `Spec => []TypeOK` |
| `ReferencesCovered` | `Spec => []RefsCoverHolders` |
| `PoolUnheld` | `Spec => []FreeBlocksUnheld` |
| `PoolDistinct` | `Spec => []NoDoubleFree` |
| `CacheBounded` | `Spec => []CacheWithinCapacity` |

None of the four safety invariants is inductive alone. That a popped block may have its count *set*
to 1 needs that nobody lists it; that nobody lists a block of the pool follows from its count being
zero (`FreeBlocksUnheld` from `RefsCoverHolders`), and the count of a pool block stays zero only if
what a request is handed from the cache is counted there. The inductive invariant `IInv` is the
conjunction of `TypeOK`, the shape of the cache (each node's `path_blocks` consist of blocks some
node on its path lists, so that a hit returns only blocks the cache holds), the exact value and the
bound of `num_cached_blocks`, `RefsCoverHolders`, "blocks of the pool have count zero", "the pool
has no duplicates", and "the blocks of a request without a prompt are distinct" (or `FreeToPool`
could push one twice). The proof goes method by method:

1. counting lemmas: listings are finite sets of places; what `Put`, `Removed` and concatenation do
to them;
2. the cache: `AfterEvictionOK`, `AddNodeOK`, `InsertOK` preserve its shape and the counter;
3. `EvictOK`: an eviction lowers each count by exactly the places it removes, and pushes the blocks
that reach zero, each once;
4. `AttemptsOK`: the state between the two halves of an allocation satisfies the invariant with the
matched blocks counted as one more holder;
5. `GrantStep`, `RefuseStep`, `AllocateStep`, `FreeToCacheStep`, `FreeToPoolStep`, and
`InductiveStep` over `Next`.

Upon these it proves, from the same assumptions, what a prompt is granted:

| Theorem | Statement |
|---|---|
| `PromptsHaveRoom` | `Spec => []PromptsFit` |
| `SharedThroughCache` | `Spec => SharingOnlyThroughCache` |
| `UnreferencedFreed` | `Spec => LastReferenceFrees` |
| `OlderSiblingsGo` | `Spec => LeastRecentSiblingFirst` |

`PromptsFit` needs a second invariant, `FitInv`: a node's `path_blocks` have room for the tokens of
its path (`PathsFit`). A hit ends at such a node, so the blocks of the hit have room for the tokens
it covers and `DivCeil` gives the rest room (`AttemptFits`); a deposit hangs the blocks of a
request, which have room for all of its prompt, below a path that may have room already
(`InsertFits`); an eviction only takes nodes away. For the second theorem, an element of the granted
list comes from the hit, and then a node on the prompt's path lists it (`HitFits`, from the cache's
shape in `IInv`), or from the pool, and then its count is zero, and a count of zero that covers all
listings means nobody lists it (`UncountedUnused`). The latter is applied to the state after the
eviction, where the counts cover the old tables and the blocks of the hit.

For the third, `EvictOK` is told more of the loop: among the places of a block that an eviction takes
there is a last one in the order of the visits (`LastPlace`); if the block's count goes to zero, this
is the place that brings it there, so that the loop, which visits every place (`AllVisited`), pushes
the block. A grant counts what it pops, so a block left at zero is still in the pool (`GrantFrees`);
after a refusal a block that is at zero and was not pushed had its last count from the hit
(`RefuseFrees`); `FreeToPool` is the same loop over one list (`FreeToPoolFrees`).

For the fourth, `find_oldest_leaf` has the evicted node and the sibling that stays before it at the
same parent, at whatever turn of `evict_lru`: the parent has not been evicted before, for it would
have had to be a leaf, and the sibling, once a leaf, remains one (`OlderSiblingGoes`). It remains to
follow the order of use into the cache that is evicted from. A touch leaves a sibling that the
prompt does not go through behind the others (`TouchedLater`). The node of a deposit is hung at a
vacant entry, so it comes between no node and its parent, and below a leaf only if it is hung there
(`NewNodeParts`). The proof of an earlier form of the property, which asked for a sibling that is
still a leaf after the step, failed at just this case: the new node can be evicted again by the same
call, which leaves the older sibling a leaf and the more recent one gone.

**The engine.** `EngineProofs`, `IterationProofs` and `ServingProofs` prove, for every number of
blocks and block size, every budget and chunk size, every set of prompts, of request ids, of numbers
of layers and of tokens wanted that `EngineAssumption` allows:

| Theorem | Statement |
|---|---|
| `EngineTypeCorrect` | `Spec => []TypeOK` |
| `RequestsOwned` | `Spec => []OneQueueOneOwner` |
| `CachesAccountedFor` | `Spec => []CachesLeftByDeadline` |
| `ManagerImplemented` | `Spec => ManagerSpec` |
| `MemorySafe` | `Spec => []MemoryOK`: the manager's counts, pool and cache, and room for the prompt of every running request |
| `ResultsFindTheirRequests` | `Spec => []BatchIsCurrent` |
| `BudgetKept` | `Spec => []IterationBudget` |
| `NobodyWaitsATurn` | `Spec => []EveryRunningServed` |
| `RegisteredInTime` | `Spec => []RegisteredBeforeUse` |
| `CachesHoldContext` | `Spec => []KVHoldsContext` |
| `DecodesContinue` | `Spec => []DecodedFromOwnToken` |
| `ServingImplemented` | `Spec => Serves` |

The invariant comes in three layers, each proved with those below it. `StateOK` has the queues
(`QueuesOK`: a live request is in one place of one queue, its cursor between its cached prefix and
the end of its prompt), the manager's tables (`TablesOK`: they list the running requests, with their
prompts), the clients (`ClientsOK`: an id not yet used has left no trace) and what the worker has in
hand (`WorkOK`). A grant needs more of the manager than its tables: that a hit is no longer than the
prompt (`HitLength`). So `StateOK` is proved together with the manager's own `IInv`, every step of
the engine being a step of the manager or none of its business (`StateStep`). This is
`ManagerImplemented` as well, and by it the theorems of `BlockManagerProofs` hold in the engine
(`MemorySafe`).

`IterationOK` says what is true from the schedule to the application of the results. `ListsOK`: the
two lists have every running request once, sorted by whether its prompt is finished, and nobody whom
the deadline check saw expire. That nobody running is missing is the hard part: the loop over the
running prefills breaks when the budget is used up. `RoomForAll` is why it never does so too early:
with everybody counted whom `schedule` counts before it, a request that still has some of its prompt
to go finds the budget unused. It holds when the request is admitted, for the check of the loop is
just that; it is kept since leaving requests and finished prompts only lower the load of those
counted before, and nobody's share grows. `CountOK` ties the counter `total_tokens` to the load and
bounds it by a chunk less one beyond the budget, from which `IterationBudget` follows when the batch
is made. Loads are cardinalities of sets of pairs (`Loads`), so that adding and comparing them is
counting, and no recursive sum is needed.

`ServingOK` says how far a request has come: the cursor of one that starts at its first token is a
multiple of the chunk for as long as it has some of its prompt to go, one chunk per token sent
(`ProgressOK`), so that cursor and generated tokens together tell how often the model was run and
with what (`Context`); caches hold just that in every layer, and in the middle of an iteration also
what the items computed so far have appended (`Fed`, `CachesOK`); requests that have had all their
tokens are on the list of those to be removed (`FinishedOK`). `Serves` follows step by step under
the mapping of `Engine`: `Apply` is a turn of `Serving`, `Admit` a start, the four ways out are its
departures, and all else is unseen.

**Beam search.** `BeamsProofs` proves `NothingButCopies` (`Spec => []BeamsAreCopies`) and
`BeamsDecodeGreedily` (`Spec => DecodesGreedily`) for every number of beams and of new tokens, every
finite vocabulary and every model that gives no two tokens the same probability after the same text
(`BeamsAssumption`). With the beams copies of one another, each contributes the same best token; a
candidate that is not the best is worse than `num_beams` others, which leaves it no place among the
`num_beams` that are kept (`CopiesSelected`). In the invariant, a beam has a token more than the
prompt for every turn taken, and is finished exactly if the last one is `eos`.

**The model code.** `PackingProofs` and `ModelCodeProofs` prove, without bounds on the arguments:

| Theorem | Statement |
|---|---|
| `StagesPartition`, `ShardsCoverMultiple` | for every `world_size > 0`, each layer is run by exactly one stage; the shards are disjoint and cover `dim_size - dim_size % world_size` indices |
| `PackUnpack`, `WordUnpack` | `UnpackI4(PackI4(values), Len(values)) = values` for every sequence of four-bit values; `unpack_i32_word` returns the eight nibbles a word was made of, negative words included |
| `Int4RoundTrip` | a layer of any size that is not refused comes back with each weight and the scale of its own group |
| `AwqLayerUnpacks` | a layer of any size panics exactly if a column's group has no scale, and otherwise each weight has the nibble, the scale and the zero point of its own row and group |
| `Int4GroupKeeps`, `Int8LayerKeeps` | for any weights, which of them come back within half a step |
| `TokenizerDetected`, `ExpertsInferred` | for any set of files and any set of names, what detection and inference find |
| `DraftsContinue` | for any corpus, order, lookahead and context, n-gram drafts continue the text as the corpus does, and end early only where it has no continuation |
| `StepIsOneToken` | a speculative step of any strategy, lookahead and models that succeeds returns one token |
| `TokenOfLogits` | for logits of any number, any grammar, `top_k` and `top_p`: which work items fail, and which tokens may be drawn |

and, of the behaviours of `MCModelCode`, for every value of its bounds:

| Theorem | Property |
|---|---|
| `EveryRankItsShare` | `RanksDivide` |
| `Int4Kept` | `Int4KeepsWeights`: which layers are refused, and that the others come back |
| `NearZeroKept` | `KeptNearZero` |
| `AwqUnpacked` | `AwqOwnGroups` |
| `KernelScores` | `ScoresStayInBlock` |
| `InputsComputedAlone` | `InputsSeenAlone` |
| `TokenizerFound` | `TokenizerFromJsonOnly` |
| `QwenIsLlama` | `QwenRunsAsLlama` |
| `EngineReplays` | `AnswersExceptReplays` |
| `WholeAnswers` | `AnswerIsWhole` |
| `BiasesNeeded` | `OnlyBiasedCheckpointsBuild` |
| `HeadsManyTokens` | `HeadSizedInputsOnly` |
| `EveryInputFromZero` | `PositionsRestart` |
| `OneTokenAStep` | `OneTokenPerStep` |
| `CorpusFollowed` | `DraftsFollowCorpus` |
| `TokensSampled` | `SampledTokens` |
| `StopsAtTokens` | `StopStringsAtTokens` |

The arguments: *Numbers.* Division with remainder, `OneInterval` (an index lies in exactly one of
the intervals of a length), and `Rounded` (rounding is within a half of the quotient) carry stages,
shards, nibbles and scales; a word's row and place are quotient and remainder of its index
(`WordOfRow`), so the words of a matrix give it back (`WordsOfMatrix`). *Kernel.* The concatenation
over blocks and heads has a closed form, the k-th score being that of head and token so and so
(`ScoresPlaced`); reading it back in the other order is comparing quotients and remainders.
*Execution engine.* The log determines the mode, whether a capture is under way, what was captured
last and what each context consists of; `EngineOf` says that the engine's state is what its log
determines. *Chat.* What is generated is what is read followed by what is in the channel, and the
events told so far are the deltas of what is read (`Handler`). *Checkpoints.* A rank with a layer
asks for a `q_proj` in a shape that the checkpoint does not have; one rank asks for just the tensors
that the biases and the `lm_head` are among. *Attention.* The two products have a row for each token
and head only if there are as many of the one as of the other (`HeadsByTokens`), so a layer's
outcome is known (`LayerComputed`), and each layer appends one more run of positions from 0
(`LayerAppended`, `LayersRun`). *Speculation.* An entry of the table is what follows its newest
window in the corpus, so every draft ends a window of some text; that the drafts made so far do, and
are as many as turns taken unless the corpus is at an end, is kept by each turn (`DraftedOK`).
Verification looks at one row of the logits, so at the first draft only. *Sampling.* The heaviest of
a set of tokens come first, so of a cut by `top_k` or `top_p` it is enough to know that nobody
outside is heavier than anybody inside, and that it is the shortest that is heavy enough
(`ShortestEnough`). Sums of weights are cardinalities of sets of pairs, which makes comparing them
counting. *Stop strings.* Tokens that end with those of a stop string spell the string as it is
led (`StopEncoded`), and decoding keeps that end but for a leading space (`EndOfPlain`). The pieces of
a text are those of its two parts wherever no pair lies across the cut, so a text that ends with a
stop string has its tokens at the end unless a pair does. `Stopping` says of every moment of a call
which endings there have been.

**Induction.** The library's induction theorems take an operator as a parameter, which the provers
cannot instantiate. Where a proof needs induction over numbers it argues from a least counterexample
instead: a finite set of integers has a least element (`LeastAndGreatest`), or a set that has 0 and
all successors has all naturals (`NatSetInduction`). That is also how the recursive functions of
`Attention`, `Speculation` and `FlattenSeq` are shown to exist (`Iterated`), and how what they
compute is found turn by turn (`StepByStep`). `Engine` selects from its queues by `Queues`, since
the provers cannot expand `SelectSeq`.

**Only model-checked.** `EveryRequestAnswered`, a liveness property, which is out of the prover's
reach. Every other property of a passing run is stated by a theorem. Of the model code, what is
proved about the operators holds for arguments of every size, and what is proved about the
behaviours of `MCModelCode` for every value of its bounds; the texts and corpora it enumerates
remain those of its definitions.

## 5. Plan

Done: `RadixCache`, `BlockManager` with its runs, claims and proofs; `Serving`, and `Engine` over
`BlockManager` with its runs, claims, both refinements and their proofs; `Beams` over `Greedy` with
its proofs; the operators of the model code and of the handler, and proofs about them. Worth doing
next: `RadixWalk`, the tree with its nodes, children and cursors step by step, against the operators
of `RadixCache`.

Not modelled: LoRA, mixture of experts, vision and the sums inside the layers are arithmetic on
tensors without control; `Fp8Linear` rounds by a library's number type; the metrics are counters
nothing in the program reads; choosing a device, reading files and HTTP framing are input and
output; the KV cache that draft and target of a speculative decoder share is used only where `step`
is called, and nothing calls it.
