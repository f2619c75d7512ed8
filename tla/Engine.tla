------------------------------- MODULE Engine -------------------------------
(***************************************************************************)
(* The serving loop: the HTTP handlers (api/openai.rs), the scheduler      *)
(* (scheduler/continuous_batching.rs), the worker task (worker.rs) and the *)
(* per-request KV caches (model/kv_cache.rs), over the block manager.      *)
(*                                                                         *)
(* The handlers and the worker are tasks that share the scheduler behind a *)
(* lock and a Notify.  The worker holds the lock for a whole schedule and  *)
(* for a whole application of results: here those are sequences of steps,  *)
(* one per call into the block manager, during which Locked holds.         *)
(***************************************************************************)
EXTENDS Queues

CONSTANTS
  num_gpu_blocks, block_size, Req, Token, Prompts,   \* see BlockManager
  max_tokens_per_iter,     \* SchedulerConfig
  max_prefill_chunk_size,
  MaxTokens,               \* the max_tokens a client may ask for
  LayerCounts,             \* attention layers of the models, 0 for the mock model
  MaxLate,                 \* how many deadlines may pass
  ForwardMayFail,          \* whether the model may return an error
  MayShutDown              \* whether the server may be told to stop

ASSUME EngineAssumption ==
  /\ num_gpu_blocks \in Nat
  /\ block_size \in Nat \ {0}
  /\ Prompts \subseteq Seq(Token)
  /\ max_tokens_per_iter \in Nat \ {0}
  /\ max_prefill_chunk_size \in Nat \ {0}
  /\ MaxTokens \subseteq Nat
  /\ LayerCounts \subseteq Nat
  /\ MaxLate \in Nat
  /\ ForwardMayFail \in BOOLEAN /\ MayShutDown \in BOOLEAN

VARIABLES
  block_table, prompt_table, ref_counts, free_gpu_blocks, radix_cache,
  waiting_queue, running_queue,   \* Scheduler, request ids
  requests,      \* the live requests, id -> the fields of Request the loop uses
  late,          \* the requests whose deadline lies in the past
  api,           \* what the handler of each request does
  sent,          \* tokens sent on each request's channel
  server,        \* "serving", "draining" (told to stop) or "ended"
  permit,        \* the permit a Notify stores
  worker,        \* where the worker is
  now_late,      \* late, as of the `now` of this schedule
  to_prefill, to_decode, total_tokens,   \* locals of schedule
  batch,         \* the work items of this iteration
  num_layers,    \* of the model the worker was started with
  computed,      \* how many of them have been through the model
  finished,      \* requests apply has found finished and not yet removed
  kv             \* request_caches: id -> num_cached_tokens

BM == INSTANCE BlockManager WITH LegacySizes <- {}

manager == <<block_table, prompt_table, ref_counts, free_gpu_blocks, radix_cache>>
queues == <<waiting_queue, running_queue, requests>>
client == <<late, api, sent, server>>
iteration == <<now_late, to_prefill, to_decode, total_tokens>>
work == <<num_layers, batch, computed, finished, kv>>
vars == <<manager, queues, client, permit, worker, iteration, work>>

Locked == worker \in {"expiring", "admitting", "assembling", "finishing"}

Init ==
  /\ BM!Init
  /\ waiting_queue = <<>> /\ running_queue = <<>>
  /\ requests = [r \in {} |-> 0]
  /\ late = {} /\ now_late = {}
  /\ api = [r \in Req |-> "idle"]
  /\ sent = [r \in Req |-> 0]
  /\ server = "serving"
  /\ permit = FALSE
  /\ worker = "ready"
  /\ to_prefill = <<>> /\ to_decode = <<>> /\ total_tokens = 0
  /\ num_layers \in LayerCounts
  /\ batch = <<>> /\ computed = 0 /\ finished = <<>>
  /\ kv = [r \in {} |-> 0]

Waiting == ToSet(waiting_queue)
Running == ToSet(running_queue)
Least(a, b) == IF a < b THEN a ELSE b
Without(f, S) == [r \in DOMAIN f \ S |-> f[r]]

\* A slip: the last chunk is counted in full.
AdvancedUnclamped(cursor, len) == cursor + max_prefill_chunk_size

\* advance_prefill_cursor
Advanced(cursor, len) == Least(cursor + max_prefill_chunk_size, len)

\* A slip: the limit itself does not end the request.
CompleteBeyond(req) == req.generated > req.max_tokens

\* `generated_tokens.len() >= max_tokens`
Complete(req) == req.generated >= req.max_tokens

PromptLen(r) == Len(requests[r].prompt_tokens)
Prefilled(r) == requests[r].prefill_cursor >= PromptLen(r)
Chunk(r) == Least(PromptLen(r) - requests[r].prefill_cursor, max_prefill_chunk_size)

-----------------------------------------------------------------------------
(* chat_completions: add the request under the lock, notify after it is    *)
(* released, then collect tokens until the channel closes.                 *)

AddRequest(r) ==
  /\ api[r] = "idle"
  /\ server = "serving"
  /\ ~Locked
  /\ \E tokens \in Prompts, max \in MaxTokens :
       requests' = [q \in DOMAIN requests \cup {r} |->
                      IF q = r THEN [prompt_tokens |-> tokens, max_tokens |-> max, generated |-> 0,
                                     prefill_cursor |-> 0, cached_prefix_len |-> 0]
                      ELSE requests[q]]
  /\ waiting_queue' = Append(waiting_queue, r)
  /\ api' = [api EXCEPT ![r] = "added"]
  /\ UNCHANGED <<manager, running_queue, late, sent, server, permit, worker, iteration, work>>

\* A slip: the notification is lost on a worker that is not waiting for it.
NotifyOneUnstored(r) ==
  /\ api[r] = "added"
  /\ permit' = (permit \/ worker = "asleep")
  /\ api' = [api EXCEPT ![r] = "receiving"]
  /\ UNCHANGED <<manager, queues, late, sent, server, worker, iteration, work>>

\* notify_one wakes the worker or leaves it a permit; at most one is kept.
NotifyOne(r) ==
  /\ api[r] = "added"
  /\ permit' = TRUE
  /\ api' = [api EXCEPT ![r] = "receiving"]
  /\ UNCHANGED <<manager, queues, late, sent, server, worker, iteration, work>>

\* The channel closes when the scheduler drops the request and its sender.
Respond(r) ==
  /\ api[r] = "receiving"
  /\ r \notin DOMAIN requests
  /\ api' = [api EXCEPT ![r] = "done"]
  /\ UNCHANGED <<manager, queues, late, sent, server, permit, worker, iteration, work>>

\* 300 s after the request was made.
DeadlinePasses(r) ==
  /\ Cardinality(late) < MaxLate
  /\ r \in DOMAIN requests \ late
  /\ late' = late \cup {r}
  /\ UNCHANGED <<manager, queues, api, sent, server, permit, worker, iteration, work>>

-----------------------------------------------------------------------------
(* main: axum::serve(..).with_graceful_shutdown(shutdown_signal())         *)

\* Ctrl+C or SIGTERM: no more requests are taken.
ShutdownSignal ==
  /\ MayShutDown
  /\ server = "serving"
  /\ server' = "draining"
  /\ UNCHANGED <<manager, queues, late, api, sent, permit, worker, iteration, work>>

\* A slip: nobody waits for the handlers.
NotDrained == server = "draining"

\* Every handler that was at work has answered.
Drained == server = "draining" /\ \A r \in Req : api[r] \in {"idle", "done"}

\* main returns, and the worker goes with the runtime.
ServerEnds ==
  /\ Drained
  /\ server' = "ended"
  /\ worker' = "dead"
  /\ UNCHANGED <<manager, queues, late, api, sent, permit, iteration, work>>

-----------------------------------------------------------------------------
(* Scheduler::schedule, under the lock                                     *)

\* Every `now >= deadline` below compares with the clock as read here.
StartSchedule ==
  /\ worker = "ready"
  /\ now_late' = late
  /\ worker' = "expiring"
  /\ UNCHANGED <<manager, queues, client, permit, to_prefill, to_decode, total_tokens, work>>

\* A slip: the schedule goes on with expired requests still running.
RunningExpiredUnchecked == TRUE

\* The retain over the running queue has been through all of it.
RunningExpired == \A i \in DOMAIN running_queue : running_queue[i] \notin now_late

\* The first expired request of the running queue is freed and dropped.
ExpireRunning ==
  /\ worker = "expiring"
  /\ \E i \in DOMAIN running_queue :
       LET r == running_queue[i]
       IN /\ r \in now_late
          /\ \A j \in 1..i - 1 : running_queue[j] \notin now_late
          /\ BM!FreeToCache(r)
          /\ running_queue' = Drop(running_queue, {r})
          /\ requests' = Without(requests, {r})
  /\ UNCHANGED <<waiting_queue, client, permit, worker, iteration, work>>

\* Tokens counted when the decodes and the first n of the running prefills
\* have been listed: one of each decode, and the k-th of the i-th prefill's chunk.
ChunkTokens(prefills, n) == UNION {{i} \X (1..Chunk(prefills[i])) : i \in 1..n}
TokensAt(decodes, prefills, n) == Len(decodes) + Cardinality(ChunkTokens(prefills, n))

\* A slip: a chunk must fit in whole.
WithinBudgetWhole(decodes, prefills) ==
  SubSeq(prefills, 1, Cardinality({n \in DOMAIN prefills :
                                     TokensAt(decodes, prefills, n) <= max_tokens_per_iter}))

\* The prefills listed before the budget is reached.
WithinBudget(decodes, prefills) ==
  SubSeq(prefills, 1, Cardinality({n \in DOMAIN prefills :
                                     TokensAt(decodes, prefills, n - 1) < max_tokens_per_iter}))

\* Lines 93-126: the expired waiting requests are dropped, every running request
\* that has its prompt is listed for decode, and the others for prefill.
ListRunning ==
  LET ready == {r \in Running : Prefilled(r)}
      decodes == Filter(running_queue, ready)
      prefills == WithinBudget(decodes, Drop(running_queue, ready))
  IN /\ worker = "expiring"
     /\ RunningExpired
     /\ waiting_queue' = Drop(waiting_queue, now_late)
     /\ requests' = Without(requests, now_late \cap Waiting)
     /\ to_decode' = decodes
     /\ to_prefill' = prefills
     /\ total_tokens' = TokensAt(decodes, prefills, Len(prefills))
     /\ worker' = "admitting"
     /\ UNCHANGED <<manager, running_queue, client, permit, now_late, work>>

\* A slip: the budget may be used up already.
MayAdmitInclusive == /\ worker = "admitting"
                     /\ waiting_queue # <<>>
                     /\ total_tokens <= max_tokens_per_iter
MayAdmit == /\ worker = "admitting"
            /\ waiting_queue # <<>>
            /\ total_tokens < max_tokens_per_iter

\* A slip: the admitted request stays at the front.
PopFrontForgotten == waiting_queue
PopFront == Tail(waiting_queue)

\* A slip: the last token of the prompt is left to the first decode.
TokensButLast(r) == Front(requests[r].prompt_tokens)
TokensToAllocate(r) == requests[r].prompt_tokens

\* The front of the waiting queue gets its blocks and runs.
Admit ==
  LET r == Head(waiting_queue)
      tokens == TokensToAllocate(r)
  IN /\ MayAdmit
     /\ \E t \in BM!Attempts(tokens) :
          LET remaining == Len(tokens) - t.hit_len
          IN /\ BM!Grant(r, tokens, t)
             /\ requests' = [requests EXCEPT ![r].cached_prefix_len = t.hit_len,
                                             ![r].prefill_cursor = t.hit_len]
             /\ \/ /\ remaining > 0
                   /\ to_prefill' = Append(to_prefill, r)
                   /\ total_tokens' = total_tokens + Least(remaining, max_prefill_chunk_size)
                   /\ UNCHANGED to_decode
                \/ /\ remaining = 0
                   /\ to_decode' = Append(to_decode, r)
                   /\ total_tokens' = total_tokens + 1
                   /\ UNCHANGED to_prefill
     /\ waiting_queue' = PopFront
     /\ running_queue' = Append(running_queue, r)
     /\ UNCHANGED <<client, permit, worker, now_late, work>>

\* There is no memory for it: the loop ends, behind it nobody is tried.
AdmitRefused ==
  /\ MayAdmit
  /\ \E t \in BM!Attempts(TokensToAllocate(Head(waiting_queue))) : BM!Refuse(t)
  /\ worker' = "assembling"
  /\ UNCHANGED <<queues, client, permit, iteration, work>>

AdmitEnd ==
  /\ worker = "admitting"
  /\ waiting_queue = <<>> \/ total_tokens >= max_tokens_per_iter
  /\ worker' = "assembling"
  /\ UNCHANGED <<manager, queues, client, permit, iteration, work>>

-----------------------------------------------------------------------------
(* Worker::run_loop                                                        *)

\* Slips: the chunk is not cut at the end of the prompt; the cache is registered
\* on later chunks only; it is registered on every chunk.
PrefillItemUncut(r) ==
  [req |-> r, input |-> max_prefill_chunk_size, is_prefill |-> TRUE,
   needs_cache_lookup |-> requests[r].prefill_cursor = 0]
PrefillItemLate(r) ==
  [req |-> r, input |-> Chunk(r), is_prefill |-> TRUE,
   needs_cache_lookup |-> requests[r].prefill_cursor > 0]
PrefillItemAlways(r) ==
  [req |-> r, input |-> Chunk(r), is_prefill |-> TRUE, needs_cache_lookup |-> TRUE]

PrefillItem(r) ==
  [req |-> r, input |-> Chunk(r), is_prefill |-> TRUE,
   needs_cache_lookup |-> requests[r].prefill_cursor = 0]

\* last is the number of the generated token the model is fed, 0 for the token 0
\* a request that has generated nothing decodes from (unwrap_or(0)).
DecodeItem(r) ==
  [req |-> r, input |-> 1, is_prefill |-> FALSE, needs_cache_lookup |-> FALSE,
   last |-> requests[r].generated]

Items == [i \in DOMAIN to_prefill |-> PrefillItem(to_prefill[i])]
           \o [i \in DOMAIN to_decode |-> DecodeItem(to_decode[i])]

\* KVCacheManager: register_request replaces what the request had.
RegisterRequests(S) == [r \in DOMAIN kv \cup S |-> IF r \in S THEN 0 ELSE kv[r]]
AppendKV(r, tokens) == [kv EXCEPT ![r] = @ + tokens]

\* A slip: the cache of a finished request is kept.
UnregisterNothing(r) == kv
UnregisterRequest(r) == Without(kv, {r})

\* The batch is built and the lock released; the requests at the start of
\* their prompt are then registered with an empty KV cache.
Assemble ==
  LET fresh == {Items[i].req : i \in {j \in DOMAIN Items : Items[j].needs_cache_lookup}}
  IN /\ worker = "assembling"
     /\ Items # <<>>
     /\ batch' = Items
     /\ computed' = 0
     /\ kv' = RegisterRequests(fresh)
     /\ worker' = "computing"
     /\ UNCHANGED <<manager, queues, client, permit, iteration, num_layers, finished>>

\* Nothing to do: the lock is released.
Sleep ==
  /\ worker = "assembling"
  /\ Items = <<>>
  /\ worker' = "idle"
  /\ now_late' = {}
  /\ UNCHANGED <<manager, queues, client, permit, to_prefill, to_decode, total_tokens, work>>

\* Only then does the worker start to wait on the Notify; with a permit it goes
\* on at once.
Wait ==
  /\ worker = "idle"
  /\ worker' = "asleep"
  /\ UNCHANGED <<manager, queues, client, permit, iteration, work>>

Wake ==
  /\ worker = "asleep"
  /\ permit
  /\ permit' = FALSE
  /\ worker' = "ready"
  /\ UNCHANGED <<manager, queues, client, iteration, work>>

AtItem == worker = "computing" /\ computed < Len(batch)
Item == batch[computed + 1]

\* Every attention layer appends the K and V of the input to the request's cache.
Forward ==
  /\ AtItem
  /\ computed' = computed + 1
  /\ \/ num_layers = 0 /\ UNCHANGED kv
     \/ /\ num_layers > 0
        /\ Item.req \in DOMAIN kv
        /\ kv' = AppendKV(Item.req, num_layers * Item.input)
  /\ UNCHANGED <<manager, queues, client, permit, worker, iteration, num_layers, batch, finished>>

\* append_kv on a request that is not registered panics: the task is gone, the
\* scheduler and the handlers stay.
ForwardPanics ==
  /\ AtItem
  /\ num_layers > 0 /\ Item.req \notin DOMAIN kv
  /\ worker' = "dead"
  /\ UNCHANGED <<manager, queues, client, permit, iteration, work>>

\* An error of the model or of the sampling ends run_loop.
ForwardFails ==
  /\ AtItem
  /\ ForwardMayFail
  /\ worker' = "dead"
  /\ UNCHANGED <<manager, queues, client, permit, iteration, work>>

Batched == {batch[i].req : i \in DOMAIN batch}

\* A slip: a prefill yields no token, the last chunk of a prompt included.
ServedByDecode == {batch[i].req : i \in {j \in DOMAIN batch : ~batch[j].is_prefill}}
Served == Batched

\* Under the lock: every item's request gets and sends a token, the prefill
\* cursors advance, and the finished requests are collected.  stopped are those
\* whose tokens now end with one of their stop sequences.
Apply ==
  LET Prefills == {to_prefill[i] : i \in DOMAIN to_prefill}
      after == [r \in DOMAIN requests |->
                  [requests[r] EXCEPT
                     !.generated = @ + (IF r \in Served THEN 1 ELSE 0),
                     !.prefill_cursor = IF r \in Prefills THEN Advanced(@, PromptLen(r)) ELSE @]]
  IN /\ worker = "computing" /\ computed = Len(batch)
     /\ requests' = after
     /\ sent' = [r \in Req |-> sent[r] + (IF r \in Served THEN 1 ELSE 0)]
     /\ \E stopped \in SUBSET Served :
          finished' = Filter(running_queue, {r \in Running : Complete(after[r])} \cup stopped)
     /\ worker' = "finishing"
     /\ batch' = <<>> /\ computed' = 0
     /\ now_late' = {} /\ to_prefill' = <<>> /\ to_decode' = <<>> /\ total_tokens' = 0
     /\ UNCHANGED <<manager, waiting_queue, running_queue, late, api, server, permit, num_layers, kv>>

\* finish_request and unregister_request, still under the lock.
Finish ==
  LET r == Head(finished)
  IN /\ worker = "finishing"
     /\ finished # <<>>
     /\ BM!FreeToCache(r)
     /\ running_queue' = Drop(running_queue, {r})
     /\ requests' = Without(requests, {r})
     /\ kv' = UnregisterRequest(r)
     /\ finished' = Tail(finished)
     /\ UNCHANGED <<waiting_queue, client, permit, worker, iteration, num_layers, batch, computed>>

\* The lock is released; yield_now lets the handlers run.
EndIteration ==
  /\ worker = "finishing"
  /\ finished = <<>>
  /\ worker' = "ready"
  /\ UNCHANGED <<manager, queues, client, permit, iteration, work>>

-----------------------------------------------------------------------------

Schedule == StartSchedule \/ ExpireRunning \/ ListRunning \/ Admit \/ AdmitRefused \/ AdmitEnd
Compute == Assemble \/ Forward \/ ForwardPanics \/ ForwardFails
Worker == Schedule \/ Compute \/ Sleep \/ Wait \/ Wake \/ Apply \/ Finish \/ EndIteration
Handler(r) == NotifyOne(r) \/ Respond(r)

Next == \/ Worker \/ ShutdownSignal \/ ServerEnds
        \/ \E r \in Req : AddRequest(r) \/ Handler(r) \/ DeadlinePasses(r)

Spec == Init /\ [][Next]_vars

\* The runtime keeps polling the tasks that can proceed, and time passes.
Fairness == /\ WF_vars(Worker) /\ WF_vars(ServerEnds)
            /\ \A r \in Req : WF_vars(Handler(r)) /\ WF_vars(DeadlinePasses(r))

FairSpec == Spec /\ Fairness

-----------------------------------------------------------------------------
(* Properties                                                              *)

\* The shape of the engine's own state.
TypeOK ==
  /\ waiting_queue \in Seq(Req) /\ running_queue \in Seq(Req)
  /\ \A r \in DOMAIN requests :
        /\ requests[r].prompt_tokens \in Prompts /\ requests[r].max_tokens \in MaxTokens
        /\ requests[r].generated \in Nat
        /\ requests[r].cached_prefix_len \in 0..PromptLen(r)
        /\ requests[r].prefill_cursor \in requests[r].cached_prefix_len..PromptLen(r)
  /\ late \subseteq Req /\ now_late \subseteq Req
  /\ api \in [Req -> {"idle", "added", "receiving", "done"}]
  /\ sent \in [Req -> Nat] /\ server \in {"serving", "draining", "ended"}
  /\ permit \in BOOLEAN
  /\ worker \in {"ready", "expiring", "admitting", "assembling", "idle", "asleep",
                 "computing", "finishing", "dead"}
  /\ to_prefill \in Seq(Req) /\ to_decode \in Seq(Req) /\ finished \in Seq(Req)
  /\ total_tokens \in Nat
  /\ computed \in 0..Len(batch)
  /\ num_layers \in LayerCounts
  /\ DOMAIN kv \subseteq Req

\* A request is alive in exactly one place of one queue, and exactly the running
\* ones own blocks: whatever way a request ends, its blocks go with it.
OneQueueOneOwner ==
  /\ DOMAIN requests = Waiting \cup Running
  /\ Waiting \cap Running = {}
  /\ Cardinality(Waiting) = Len(waiting_queue) /\ Cardinality(Running) = Len(running_queue)
  /\ Running = DOMAIN block_table
  /\ \A r \in Running : prompt_table[r] = requests[r].prompt_tokens

\* The results of a batch find their requests: between the schedule that built it
\* and its application nobody else removes or advances a request, and none whose
\* deadline that schedule has seen pass gets model time or a token.
BatchIsCurrent ==
  worker = "computing" =>
    \A i \in DOMAIN batch :
       /\ batch[i].req \in Running \ now_late
       /\ batch[i].is_prefill <=> ~Prefilled(batch[i].req)
       /\ batch[i].is_prefill => batch[i].input = Chunk(batch[i].req)
       /\ \A j \in DOMAIN batch : batch[i].req = batch[j].req => i = j

\* An iteration takes at most one chunk more than the budget, unless the decodes
\* alone exceed it.
Decodes == {i \in DOMAIN batch : ~batch[i].is_prefill}
BatchTokens == Cardinality(UNION {{i} \X (1..batch[i].input) : i \in DOMAIN batch})
IterationBudget ==
  \/ BatchTokens <= max_tokens_per_iter - 1 + max_prefill_chunk_size
  \/ Decodes = DOMAIN batch

\* Every iteration serves every running request, and the worker sleeps only when
\* there is none: admission keeps the budget such that schedule never has to pass
\* over a running prefill, although its loop allows for it.
EveryRunningServed ==
  /\ worker = "computing" => Batched = Running
  /\ worker \in {"idle", "asleep"} => Running = {}

\* A request that starts at its first token is registered when the model sees it,
\* whatever chunk it is at and whoever else finished meanwhile: append_kv panics for
\* no other reason than a start behind a cached prefix (or an empty prompt).
RegisteredBeforeUse ==
  worker = "computing" =>
    \A r \in Batched : r \in DOMAIN kv \/ requests[r].cached_prefix_len > 0 \/ PromptLen(r) = 0

\* Between iterations the KV cache of a request that started at its first token
\* holds, per layer, what the model has been fed: the prefilled part of the prompt
\* and one token per decode.  Each chunk and each decode generated one token.
KVHoldsContext ==
  worker \in {"ready", "idle", "asleep"} =>
    \A r \in Running \cap DOMAIN kv :
       LET cursor == requests[r].prefill_cursor
           chunks == BM!DivCeil(cursor, max_prefill_chunk_size)
       IN kv[r] = num_layers * (cursor + requests[r].generated - chunks)

\* A decode continues from the token its client was sent last.  Only a request that
\* found its whole prompt in the cache has none: the worker means to feed such a
\* request the end of its prompt (worker.rs:82), but schedule lists it for decode,
\* and the model is fed the token 0, whatever the prompt.
DecodedFromOwnToken ==
  worker = "computing" =>
    \A i \in DOMAIN batch :
       LET r == batch[i].req
       IN ~batch[i].is_prefill =>
            /\ batch[i].last = sent[r]
            /\ sent[r] = 0 <=> requests[r].cached_prefix_len = PromptLen(r) /\ requests[r].generated = 0

\* The KV cache a request leaves behind is removed with it on every way out but one:
\* a running request whose deadline passes leaves its own for good.
CachesLeftByDeadline == DOMAIN kv \subseteq Running \cup late

\* The engine uses the block manager only as its methods allow: this is BM!Spec, with
\* the steps that leave the manager alone told apart first.
ManagerSpec == BM!Init /\ [][manager' # manager => BM!Next]_manager

\* To its clients the engine is the server of the module Serving: first come, first
\* served, a token per turn for everybody being served, nothing beyond max_tokens,
\* and no answer before the request has left.
S == INSTANCE Serving WITH
       queue <- waiting_queue, served <- Running, tokens <- sent,
       limit <- [r \in DOMAIN requests |-> requests[r].max_tokens],
       client <- [r \in Req |-> CASE api[r] = "idle" -> "new"
                                 [] api[r] = "done" -> "answered"
                                 [] OTHER -> "waiting"]
Serves == S!Spec

\* Every client gets its answer: no wakeup is lost between add_request and
\* notify_one, neither the budget nor the queue starves a request, and a shutdown cuts
\* nobody off.  A server that is told to stop therefore does.
EveryRequestAnswered ==
  /\ \A r \in Req : api[r] = "added" ~> api[r] = "done"
  /\ server = "draining" ~> server = "ended"
=============================================================================
