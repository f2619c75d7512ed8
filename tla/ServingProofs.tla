--------------------------- MODULE ServingProofs ---------------------------
(***************************************************************************)
(* Proofs about Engine: what the KV cache of a request holds, which token   *)
(* a decode continues from, and that the clients are served as the module   *)
(* Serving promises.                                                        *)
(***************************************************************************)
EXTENDS IterationProofs

-----------------------------------------------------------------------------
(* The invariant                                                           *)

\* How far a request has come.  Chunks are taken from the cached prefix on, each
\* gives one token, and every chunk but the last is a whole one.
ProgressOK ==
  /\ \A r \in Waiting : /\ requests[r].cached_prefix_len = 0
                        /\ requests[r].prefill_cursor = 0
                        /\ requests[r].generated = 0
  /\ \A r \in DOMAIN requests :
       /\ requests[r].generated = 0 => requests[r].prefill_cursor = requests[r].cached_prefix_len
       /\ requests[r].cached_prefix_len = 0 /\ ~Prefilled(r) =>
            requests[r].prefill_cursor = requests[r].generated * max_prefill_chunk_size

\* Who has had all its tokens is on the list of those to be removed.
FinishedOK ==
  /\ worker # "dead" =>
       \A r \in Running : \/ r \in ToSet(finished)
                          \/ requests[r].generated = 0
                          \/ requests[r].generated < requests[r].max_tokens
  /\ worker = "finishing" =>
       /\ IsInjective(finished)
       /\ \A r \in ToSet(finished) : r \in Running /\ requests[r].generated > 0
  /\ worker \notin {"finishing", "dead"} => finished = <<>>
  /\ worker = "computing" => Running # {}

\* What the model has been fed of r in this iteration.
Fed(r) == IF worker = "computing" /\ \E i \in 1..computed : batch[i].req = r THEN Share[r] ELSE 0

\* What the model has been fed of r before this iteration.
Context(r) == requests[r].prefill_cursor + requests[r].generated
                - BM!DivCeil(requests[r].prefill_cursor, max_prefill_chunk_size)

\* The registered requests started at their first token, their caches have what the
\* model has been fed, and whoever starts at its first token gets registered.
CachesOK ==
  /\ DOMAIN kv \cap Waiting = {}
  /\ worker # "dead" =>
       \A r \in Running :
         /\ r \in DOMAIN kv => /\ requests[r].cached_prefix_len = 0
                               /\ kv[r] = num_layers * (Context(r) + Fed(r))
         /\ /\ requests[r].cached_prefix_len = 0 /\ PromptLen(r) > 0
            /\ requests[r].generated > 0 \/ (worker = "computing" /\ ~Prefilled(r))
            => r \in DOMAIN kv

ServingOK == ProgressOK /\ FinishedOK /\ CachesOK

-----------------------------------------------------------------------------
(* Chunks                                                                  *)

LEMMA Quotient ==
  ASSUME NEW k \in Nat \ {0}, NEW q \in Nat, NEW c \in 0..k - 1
  PROVE  (q * k + c) \div k = q
OBVIOUS

\* A chunk behind q whole ones is the next chunk, whole or not.
LEMMA ChunkCount ==
  ASSUME NEW k \in Nat \ {0}, NEW q \in Nat
  PROVE  /\ BM!DivCeil(q * k, k) = q
         /\ \A c \in 1..k : BM!DivCeil(q * k + c, k) = q + 1
<1>1. BM!DivCeil(q * k, k) = q
  <2>1. q * k + k - 1 = q * k + (k - 1) /\ k - 1 \in 0..k - 1
    OBVIOUS
  <2>2. (q * k + (k - 1)) \div k = q
    BY <2>1, Quotient
  <2> QED BY <2>1, <2>2 DEF BM!DivCeil
<1>2. ASSUME NEW c \in 1..k
      PROVE  BM!DivCeil(q * k + c, k) = q + 1
  <2>1. q * k + c + k - 1 = (q + 1) * k + (c - 1)
    OBVIOUS
  <2>2. c - 1 \in 0..k - 1 /\ q + 1 \in Nat
    OBVIOUS
  <2>3. ((q + 1) * k + (c - 1)) \div k = q + 1
    BY <2>2, Quotient
  <2> QED BY <2>1, <2>3 DEF BM!DivCeil
<1> QED BY <1>1, <1>2

-----------------------------------------------------------------------------
(* The steps                                                               *)

\* Steps that leave the running requests and their caches alone.
LEMMA ServingFrame ==
  ASSUME StateOK, ServingOK,
         UNCHANGED <<running_queue, finished, kv, num_layers>>,
         Waiting' \subseteq Waiting, \A r \in DOMAIN requests' : r \in DOMAIN requests /\ requests'[r] = requests[r],
         DOMAIN requests' = Waiting' \cup Running,
         \/ worker' = "dead"
         \/ worker' = worker /\ UNCHANGED <<computed, batch>>
         \/ worker' \in {"ready", "expiring", "admitting", "assembling", "idle", "asleep"}
            /\ worker \notin {"computing", "dead"} /\ finished = <<>>
  PROVE  ServingOK'
<1>1. /\ Running' = Running
      /\ \A r \in Running : r \in DOMAIN requests' /\ r \in DOMAIN requests /\ requests'[r] = requests[r]
  BY DEF Running, StateOK, QueuesOK
<1>2. /\ \A r \in DOMAIN requests' : /\ Prefilled(r)' <=> Prefilled(r)
                                     /\ PromptLen(r)' = PromptLen(r)
                                     /\ Context(r)' = Context(r)
                                     /\ Chunk(r)' = Chunk(r)
  BY DEF Prefilled, PromptLen, Context, Chunk
<1>3. Share' = Share
  BY <1>1, <1>2 DEF Share
<1>4. \A r \in Waiting' : r \in Waiting /\ r \in DOMAIN requests'
  OBVIOUS
<1>5. ProgressOK'
  BY <1>2, <1>4 DEF ServingOK, ProgressOK
<1>6. FinishedOK'
  BY <1>1 DEF ServingOK, FinishedOK
<1>7. CachesOK'
  <2>1. DOMAIN kv' \cap Waiting' = {}
    BY DEF ServingOK, CachesOK
  <2>2. CASE worker' = "dead"
    BY <2>1, <2>2 DEF CachesOK
  <2>3. CASE worker' # "dead"
    <3>1. worker # "dead" /\ (worker' = "computing" <=> worker = "computing")
      BY <2>3
    <3>2. \A r \in Running : Fed(r)' = Fed(r)
      BY <1>3, <2>3 DEF Fed
    <3> QED BY <1>1, <1>2, <2>1, <3>1, <3>2 DEF ServingOK, CachesOK
  <2> QED BY <2>2, <2>3
<1> QED BY <1>5, <1>6, <1>7 DEF ServingOK

LEMMA QueuesUnchanged ==
  ASSUME StateOK, ServingOK, UNCHANGED <<queues, finished, kv, num_layers>>,
         \/ worker' = "dead"
         \/ worker' = worker /\ UNCHANGED <<computed, batch>>
         \/ worker' \in {"ready", "expiring", "admitting", "assembling", "idle", "asleep"}
            /\ worker \notin {"computing", "dead"} /\ finished = <<>>
  PROVE  ServingOK'
<1>1. /\ UNCHANGED <<running_queue, requests>> /\ Waiting' = Waiting
      /\ DOMAIN requests' = Waiting' \cup Running
  BY DEF queues, Waiting, StateOK, QueuesOK
<1> QED BY <1>1, ServingFrame

LEMMA AddRequestServing ==
  ASSUME StateOK, ServingOK, NEW r \in Req, AddRequest(r)
  PROVE  ServingOK'
<1>1. /\ Waiting' = Waiting \cup {r} /\ Running' = Running
      /\ r \notin DOMAIN requests /\ r \notin late
      /\ UNCHANGED <<worker, finished, kv, num_layers, computed, batch>>
  BY AddRequestStep DEF AddRequest, work, StateOK, ClientsOK
<1>2. PICK tokens \in Prompts, max \in MaxTokens :
        requests' = [q \in DOMAIN requests \cup {r} |->
                       IF q = r THEN [prompt_tokens |-> tokens, max_tokens |-> max, generated |-> 0,
                                      prefill_cursor |-> 0, cached_prefix_len |-> 0]
                       ELSE requests[q]]
  BY DEF AddRequest
<1>3. /\ DOMAIN requests' = DOMAIN requests \cup {r}
      /\ requests'[r].generated = 0 /\ requests'[r].prefill_cursor = 0
      /\ requests'[r].cached_prefix_len = 0
      /\ \A q \in DOMAIN requests : requests'[q] = requests[q]
  BY <1>1, <1>2
<1>4. \A q \in DOMAIN requests : /\ Prefilled(q)' <=> Prefilled(q)
                                 /\ PromptLen(q)' = PromptLen(q)
                                 /\ Context(q)' = Context(q)
                                 /\ Chunk(q)' = Chunk(q)
  BY <1>3 DEF Prefilled, PromptLen, Context, Chunk
<1>5. \A q \in Running : q \in DOMAIN requests
  BY DEF StateOK, QueuesOK
<1>6. Share' = Share
  BY <1>1, <1>4, <1>5 DEF Share
<1>7. ProgressOK'
  <2>1. 0 = 0 * max_prefill_chunk_size
    BY EngineAssumption
  <2>2. \A q \in Waiting : q \in DOMAIN requests
    BY DEF StateOK, QueuesOK
  <2> QED BY <1>1, <1>3, <1>4, <2>1, <2>2 DEF ServingOK, ProgressOK
<1>8. FinishedOK'
  BY <1>1, <1>3, <1>5 DEF ServingOK, FinishedOK
<1>9. CachesOK'
  <2>1. r \notin DOMAIN kv
    BY <1>1, <1>5 DEF StateOK, WorkOK
  <2>2. \A q \in Running : Fed(q)' = Fed(q)
    BY <1>1, <1>6 DEF Fed
  <2> QED BY <1>1, <1>3, <1>4, <1>5, <2>1, <2>2 DEF ServingOK, CachesOK
<1> QED BY <1>7, <1>8, <1>9 DEF ServingOK

LEMMA ExpireRunningServing ==
  ASSUME StateOK, ServingOK, ExpireRunning
  PROVE  ServingOK'
<1>1. /\ Waiting' = Waiting /\ Running' \subseteq Running
      /\ \A q \in DOMAIN requests' : q \in DOMAIN requests /\ requests'[q] = requests[q]
      /\ StateOK'
  BY ExpireRunningStep
<1>2. /\ worker = "expiring" /\ UNCHANGED <<worker, finished, kv, num_layers>>
  BY DEF ExpireRunning, work
<1>3. \A r \in DOMAIN requests' : /\ Prefilled(r)' <=> Prefilled(r)
                                  /\ PromptLen(r)' = PromptLen(r)
                                  /\ Context(r)' = Context(r)
  BY <1>1 DEF Prefilled, PromptLen, Context
<1>4. \A r \in Waiting' \cup Running' : r \in DOMAIN requests'
  BY <1>1 DEF StateOK, QueuesOK
<1>5. ProgressOK'
  BY <1>1, <1>3, <1>4 DEF ServingOK, ProgressOK
<1>6. FinishedOK'
  BY <1>1, <1>2, <1>4 DEF ServingOK, FinishedOK
<1>7. CachesOK'
  <2>1. \A r : Fed(r)' = 0 /\ Fed(r) = 0
    BY <1>2 DEF Fed
  <2> QED BY <1>1, <1>2, <1>3, <1>4, <2>1 DEF ServingOK, CachesOK
<1> QED BY <1>5, <1>6, <1>7 DEF ServingOK

LEMMA FinishServing ==
  ASSUME StateOK, ServingOK, Finish, NEW x, x = Head(finished)
  PROVE  ServingOK' /\ x \in Running /\ requests[x].generated > 0
<1>1. /\ StateOK'
      /\ Waiting' = Waiting
      /\ finished # <<>> /\ finished' = Tail(finished)
      /\ x \in Running /\ Running' = Running \ {x}
      /\ DOMAIN requests' = DOMAIN requests \ {x}
      /\ \A q \in DOMAIN requests' : requests'[q] = requests[q]
  BY FinishStep
<1>2. /\ worker = "finishing" /\ UNCHANGED <<worker, num_layers>>
      /\ kv' = Without(kv, {x})
  BY DEF Finish, UnregisterRequest
<1>3. /\ ToSet(finished) = ToSet(finished') \cup {x}
      /\ IsInjective(finished') /\ x \notin ToSet(finished')
  <2> DEFINE rest == Tail(finished)
  <2>1. finished \in Seq(Req) /\ IsInjective(finished)
    BY <1>2 DEF StateOK, WorkOK, ServingOK, FinishedOK
  <2>2. /\ ToSet(finished) = ToSet(rest) \cup {x}
        /\ IsInjective(rest) /\ x \notin ToSet(rest)
    BY <1>1, <2>1, TailElements
  <2>3. finished' = rest
    BY <1>1
  <2> HIDE DEF rest
  <2> QED BY <2>2, <2>3
<1>4. \A r \in DOMAIN requests' : /\ Prefilled(r)' <=> Prefilled(r)
                                  /\ PromptLen(r)' = PromptLen(r)
                                  /\ Context(r)' = Context(r)
  BY <1>1 DEF Prefilled, PromptLen, Context
<1>5. /\ \A r \in Waiting' \cup Running' : r \in DOMAIN requests'
      /\ \A r \in DOMAIN requests' : r \in DOMAIN requests /\ r # x
  BY <1>1 DEF StateOK, QueuesOK
<1>6. ProgressOK'
  BY <1>1, <1>4, <1>5 DEF ServingOK, ProgressOK
<1>7. FinishedOK'
  BY <1>1, <1>2, <1>3, <1>5 DEF ServingOK, FinishedOK
<1>8. CachesOK'
  <2>1. \A r : Fed(r)' = 0 /\ Fed(r) = 0
    BY <1>2 DEF Fed
  <2>2. /\ DOMAIN kv' = DOMAIN kv \ {x}
        /\ \A r \in DOMAIN kv' : kv'[r] = kv[r]
    BY <1>2 DEF Without
  <2>3. DOMAIN kv' \cap Waiting' = {}
    BY <1>1, <2>2 DEF ServingOK, CachesOK
  <2>4. ASSUME NEW r \in Running'
        PROVE  /\ r \in DOMAIN kv' => /\ requests'[r].cached_prefix_len = 0
                                     /\ kv'[r] = num_layers' * (Context(r)' + Fed(r)')
               /\ /\ requests'[r].cached_prefix_len = 0 /\ PromptLen(r)' > 0
                  /\ requests'[r].generated > 0 \/ (worker' = "computing" /\ ~Prefilled(r)')
                  => r \in DOMAIN kv'
    <3>1. /\ r \in Running /\ r # x /\ r \in DOMAIN requests' /\ requests'[r] = requests[r]
      BY <1>1, <1>5
    <3>2. /\ r \in DOMAIN kv => /\ requests[r].cached_prefix_len = 0
                                /\ kv[r] = num_layers * (Context(r) + Fed(r))
          /\ /\ requests[r].cached_prefix_len = 0 /\ PromptLen(r) > 0
             /\ requests[r].generated > 0 \/ (worker = "computing" /\ ~Prefilled(r))
             => r \in DOMAIN kv
      BY <1>2, <3>1 DEF ServingOK, CachesOK
    <3>3. r \in DOMAIN kv' <=> r \in DOMAIN kv
      BY <2>2, <3>1
    <3> QED BY <1>2, <1>4, <2>1, <2>2, <3>1, <3>2, <3>3
  <2> QED BY <2>3, <2>4 DEF CachesOK
<1>9. requests[x].generated > 0
  BY <1>2, <1>3 DEF ServingOK, FinishedOK
<1> QED BY <1>1, <1>6, <1>7, <1>8, <1>9 DEF ServingOK

LEMMA AdmitServing ==
  ASSUME StateOK, BMP!IInv, ServingOK, Admit, NEW x, x = Head(waiting_queue)
  PROVE  ServingOK'
<1>1. /\ StateOK'
      /\ x \in Waiting
      /\ Waiting' = Waiting \ {x} /\ Running' = Running \cup {x}
      /\ DOMAIN requests' = DOMAIN requests
      /\ \A q \in DOMAIN requests \ {x} : requests'[q] = requests[q]
  BY AdmitStep
<1>2. PICK hit_len \in 0..PromptLen(x) :
        requests'[x] = [requests[x] EXCEPT !.cached_prefix_len = hit_len, !.prefill_cursor = hit_len]
  BY AdmitStep
<1>3. /\ worker = "admitting" /\ UNCHANGED <<worker, finished, kv, num_layers>>
  BY DEF Admit, MayAdmit, work
<1>4. /\ x \notin Running /\ x \in DOMAIN requests /\ requests[x] \in Request
      /\ \A r \in Waiting' \cup Running' : r \in DOMAIN requests'
      /\ \A r \in Waiting' : r \in Waiting /\ r # x
      /\ \A r \in Running' : r = x \/ (r \in Running /\ r # x)
  BY <1>1 DEF StateOK, QueuesOK
<1>5. /\ requests'[x].prefill_cursor = hit_len
      /\ requests'[x].cached_prefix_len = hit_len
      /\ requests'[x].generated = 0
  <2> DEFINE old == requests[x]
  <2>1. old \in Request /\ old.generated = 0
    BY <1>1, <1>4 DEF ServingOK, ProgressOK
  <2> HIDE DEF old
  <2>2. requests'[x] = [old EXCEPT !.cached_prefix_len = hit_len, !.prefill_cursor = hit_len]
    BY <1>2 DEF old
  <2> QED BY <2>1, <2>2 DEF Request
<1>6. \A r \in DOMAIN requests \ {x} : /\ Prefilled(r)' <=> Prefilled(r)
                                       /\ PromptLen(r)' = PromptLen(r)
                                       /\ Context(r)' = Context(r)
  BY <1>1 DEF Prefilled, PromptLen, Context
<1>7. ProgressOK'
  <2>1. 0 = 0 * max_prefill_chunk_size
    BY EngineAssumption
  <2>2. ASSUME NEW r \in DOMAIN requests'
        PROVE  /\ requests'[r].generated = 0 => requests'[r].prefill_cursor = requests'[r].cached_prefix_len
               /\ requests'[r].cached_prefix_len = 0 /\ ~Prefilled(r)' =>
                    requests'[r].prefill_cursor = requests'[r].generated * max_prefill_chunk_size
    <3>1. CASE r = x
      BY <1>5, <2>1, <3>1
    <3>2. CASE r # x
      BY <1>1, <1>6, <3>2 DEF ServingOK, ProgressOK
    <3> QED BY <3>1, <3>2
  <2>3. \A r \in Waiting' : requests'[r] = requests[r]
    BY <1>1, <1>4
  <2> QED BY <1>4, <2>2, <2>3 DEF ServingOK, ProgressOK
<1>8. FinishedOK'
  <2>1. ASSUME NEW r \in Running'
        PROVE  \/ r \in ToSet(finished')
               \/ requests'[r].generated = 0
               \/ requests'[r].generated < requests'[r].max_tokens
    <3>1. CASE r = x
      BY <1>5, <3>1
    <3>2. CASE r # x
      <4>1. r \in Running /\ requests'[r] = requests[r]
        BY <1>1, <1>4, <3>2
      <4> QED BY <1>3, <4>1 DEF ServingOK, FinishedOK
    <3> QED BY <3>1, <3>2
  <2> QED BY <1>3, <2>1 DEF ServingOK, FinishedOK
<1>9. CachesOK'
  <2>1. \A r : Fed(r)' = 0 /\ Fed(r) = 0
    BY <1>3 DEF Fed
  <2>2. x \notin DOMAIN kv
    BY <1>1 DEF ServingOK, CachesOK
  <2>3. DOMAIN kv' \cap Waiting' = {}
    BY <1>1, <1>3 DEF ServingOK, CachesOK
  <2>4. ASSUME NEW r \in Running'
        PROVE  /\ r \in DOMAIN kv' => /\ requests'[r].cached_prefix_len = 0
                                     /\ kv'[r] = num_layers' * (Context(r)' + Fed(r)')
               /\ /\ requests'[r].cached_prefix_len = 0 /\ PromptLen(r)' > 0
                  /\ requests'[r].generated > 0 \/ (worker' = "computing" /\ ~Prefilled(r)')
                  => r \in DOMAIN kv'
    <3>1. CASE r = x
      BY <1>3, <1>5, <2>2, <3>1
    <3>2. CASE r # x
      <4>1. r \in Running /\ requests'[r] = requests[r] /\ r \in DOMAIN requests \ {x}
        BY <1>1, <1>4, <3>2
      <4>2. /\ r \in DOMAIN kv => /\ requests[r].cached_prefix_len = 0
                                  /\ kv[r] = num_layers * (Context(r) + Fed(r))
            /\ /\ requests[r].cached_prefix_len = 0 /\ PromptLen(r) > 0
               /\ requests[r].generated > 0 \/ (worker = "computing" /\ ~Prefilled(r))
               => r \in DOMAIN kv
        BY <1>3, <4>1 DEF ServingOK, CachesOK
      <4> QED BY <1>3, <1>6, <2>1, <4>1, <4>2
    <3> QED BY <3>1, <3>2
  <2> QED BY <2>3, <2>4 DEF CachesOK
<1> QED BY <1>7, <1>8, <1>9 DEF ServingOK

LEMMA ListRunningServing ==
  ASSUME StateOK, ServingOK, ListRunning
  PROVE  ServingOK'
<1>1. /\ Waiting' = Waiting \ now_late /\ running_queue' = running_queue
      /\ DOMAIN requests' = DOMAIN requests \ (now_late \cap Waiting)
      /\ \A q \in DOMAIN requests' : requests'[q] = requests[q]
  BY ListRunningStep
<1>2. /\ worker = "expiring" /\ worker' = "admitting" /\ UNCHANGED work
  BY DEF ListRunning
<1>3. finished = <<>>
  BY <1>2 DEF ServingOK, FinishedOK
<1>4. DOMAIN requests' = Waiting' \cup Running
  BY <1>1 DEF StateOK, QueuesOK
<1> QED BY <1>1, <1>2, <1>3, <1>4, ServingFrame DEF work

\* Those at the start of their prompt get an empty cache, and they had none or such a one.
LEMMA AssembleServing ==
  ASSUME StateOK, IterationOK, ServingOK, Assemble
  PROVE  ServingOK'
<1> DEFINE fresh == {Items[i].req : i \in {j \in DOMAIN Items : Items[j].needs_cache_lookup}}
<1>1. /\ worker = "assembling" /\ worker' = "computing" /\ Items # <<>>
      /\ computed' = 0 /\ kv' = RegisterRequests(fresh)
      /\ UNCHANGED <<queues, num_layers, finished>>
  BY DEF Assemble
<1>2. /\ Items \in Seq(BatchItem) /\ DOMAIN Items = 1..Len(Items)
      /\ \A i \in DOMAIN Items :
           /\ Items[i].req \in Running
           /\ Items[i] = IF Prefilled(Items[i].req) THEN DecodeItem(Items[i].req)
                                                    ELSE PrefillItem(Items[i].req)
      /\ \A r \in Running : \E i \in DOMAIN Items : Items[i].req = r
  BY <1>1, BatchOfRunning DEF IterationOK
<1>3. \A r : /\ PrefillItem(r).needs_cache_lookup <=> requests[r].prefill_cursor = 0
             /\ DecodeItem(r).needs_cache_lookup <=> FALSE
  BY DEF PrefillItem, DecodeItem
<1>4. fresh = {r \in Running : ~Prefilled(r) /\ requests[r].prefill_cursor = 0}
  <2> HIDE DEF Items
  <2>1. ASSUME NEW i \in DOMAIN Items
        PROVE  Items[i].needs_cache_lookup <=>
                 ~Prefilled(Items[i].req) /\ requests[Items[i].req].prefill_cursor = 0
    BY <1>2, <1>3
  <2> QED BY <1>2, <2>1
<1>5. Running # {}
  <2> HIDE DEF Items
  <2>1. 1 \in DOMAIN Items
    BY <1>1, <1>2, EmptySeq, LenProperties
  <2> QED BY <1>2, <2>1
<1> HIDE DEF fresh
<1>6. /\ Waiting' = Waiting /\ Running' = Running /\ requests' = requests
      /\ \A r \in Running : r \in DOMAIN requests /\ r \notin Waiting
  BY <1>1 DEF queues, Waiting, Running, StateOK, QueuesOK
<1>7. \A r \in DOMAIN requests : /\ Prefilled(r)' <=> Prefilled(r)
                                 /\ PromptLen(r)' = PromptLen(r)
                                 /\ Context(r)' = Context(r)
  BY <1>6 DEF Prefilled, PromptLen, Context
<1>8. ProgressOK'
  BY <1>6, <1>7 DEF ServingOK, ProgressOK
<1>9. FinishedOK'
  BY <1>1, <1>5, <1>6 DEF ServingOK, FinishedOK
<1>10. CachesOK'
  <2>1. /\ DOMAIN kv' = DOMAIN kv \cup fresh
        /\ \A r \in DOMAIN kv' : kv'[r] = IF r \in fresh THEN 0 ELSE kv[r]
    BY <1>1 DEF RegisterRequests
  <2>2. \A r : Fed(r)' = 0 /\ Fed(r) = 0
    BY <1>1 DEF Fed
  <2>3. DOMAIN kv' \cap Waiting' = {}
    BY <1>4, <1>6, <2>1 DEF ServingOK, CachesOK
  <2>4. ASSUME NEW r \in Running
        PROVE  /\ r \in DOMAIN kv' => /\ requests[r].cached_prefix_len = 0
                                      /\ kv'[r] = num_layers * (Context(r) + 0)
               /\ /\ requests[r].cached_prefix_len = 0 /\ PromptLen(r) > 0
                  /\ requests[r].generated > 0 \/ ~Prefilled(r)
                  => r \in DOMAIN kv'
    <3>1. /\ r \in DOMAIN requests /\ requests[r] \in Request
          /\ requests[r].cached_prefix_len <= requests[r].prefill_cursor
          /\ requests[r].generated \in Nat
      BY <1>6 DEF StateOK, QueuesOK, Request
    <3>2. /\ r \in DOMAIN kv => /\ requests[r].cached_prefix_len = 0
                                /\ kv[r] = num_layers * (Context(r) + 0)
          /\ /\ requests[r].cached_prefix_len = 0 /\ PromptLen(r) > 0
             /\ requests[r].generated > 0
             => r \in DOMAIN kv
      BY <1>1, <2>2 DEF ServingOK, CachesOK
    <3>3. CASE r \in fresh
      <4>1. requests[r].prefill_cursor = 0 /\ ~Prefilled(r) /\ requests[r].cached_prefix_len = 0
        BY <1>4, <3>1, <3>3 DEF Request
      <4>2. requests[r].generated * max_prefill_chunk_size = 0
        BY <3>1, <4>1 DEF ServingOK, ProgressOK
      <4>3. BM!DivCeil(requests[r].generated * max_prefill_chunk_size, max_prefill_chunk_size)
              = requests[r].generated
        BY <3>1, ChunkCount, EngineAssumption
      <4>4. Context(r) = 0
        BY <3>1, <4>1, <4>2, <4>3 DEF Context
      <4>5. num_layers \in Nat
        BY EngineAssumption DEF StateOK, WorkOK
      <4>6. num_layers * (Context(r) + 0) = 0
        BY <4>4, <4>5
      <4> QED BY <2>1, <3>3, <4>1, <4>6
    <3>4. CASE r \notin fresh
      <4>1. requests[r].cached_prefix_len = 0 /\ ~Prefilled(r) => requests[r].generated > 0
        <5>1. requests[r].generated = 0 => requests[r].prefill_cursor = requests[r].cached_prefix_len
          BY <3>1 DEF ServingOK, ProgressOK
        <5> QED BY <1>4, <3>1, <3>4, <5>1
      <4> QED BY <2>1, <3>2, <3>4, <4>1
    <3> QED BY <3>3, <3>4
  <2> QED BY <1>1, <1>6, <1>7, <2>2, <2>3, <2>4 DEF CachesOK
<1> QED BY <1>8, <1>9, <1>10 DEF ServingOK

LEMMA ContextType ==
  ASSUME StateOK, NEW r \in DOMAIN requests
  PROVE  /\ Context(r) \in Int
         /\ PromptLen(r) \in Nat
         /\ requests[r].generated \in Nat
         /\ requests[r].max_tokens \in Nat
         /\ requests[r].prefill_cursor \in Nat
         /\ requests[r].cached_prefix_len \in Nat
         /\ max_prefill_chunk_size \in Nat \ {0}
<1>1. requests[r] \in Request /\ PromptLen(r) \in Nat
  BY ChunkType DEF StateOK, QueuesOK
<1>2. max_prefill_chunk_size \in Nat \ {0} /\ MaxTokens \subseteq Nat
  BY EngineAssumption
<1>3. BM!DivCeil(requests[r].prefill_cursor, max_prefill_chunk_size) \in Int
  BY <1>1, <1>2 DEF Request, BM!DivCeil
<1>4. Context(r) \in Int
  BY <1>1, <1>3 DEF Request, Context
<1> QED BY <1>1, <1>2, <1>4 DEF Request

\* What the batch says of the requests in it while the model works on it.
LEMMA BatchInWork ==
  ASSUME StateOK, IterationOK, worker = "computing"
  PROVE  /\ DOMAIN batch = 1..Len(batch) /\ Len(batch) \in Nat
         /\ \A i \in DOMAIN batch : /\ batch[i].req \in Running
                                    /\ batch[i].input = Share[batch[i].req]
         /\ \A i, j \in DOMAIN batch : batch[i].req = batch[j].req => i = j
         /\ \A r \in Running : \E i \in DOMAIN batch : batch[i].req = r
         /\ Batched = Running
<1>1. batch = Items
  BY DEF IterationOK, ListsOK
<1>2. /\ DOMAIN batch = 1..Len(batch)
      /\ \A i \in DOMAIN batch :
           /\ batch[i].req \in Running
           /\ batch[i] = IF Prefilled(batch[i].req) THEN DecodeItem(batch[i].req)
                                                    ELSE PrefillItem(batch[i].req)
      /\ \A i, j \in DOMAIN batch : batch[i].req = batch[j].req => i = j
      /\ \A r \in Running : \E i \in DOMAIN batch : batch[i].req = r
  BY <1>1, BatchOfRunning DEF IterationOK
<1>3. Len(batch) \in Nat
  BY LenProperties DEF StateOK, WorkOK
<1>4. \A i \in DOMAIN batch : batch[i].input = Share[batch[i].req]
  BY <1>2 DEF DecodeItem, PrefillItem, Share
<1>5. Batched = Running
  BY <1>2 DEF Batched
<1> QED BY <1>2, <1>3, <1>4, <1>5

\* The tokens of an item are added to the cache of its request, layer by layer.
LEMMA ForwardServing ==
  ASSUME StateOK, IterationOK, ServingOK, Forward
  PROVE  ServingOK'
<1> DEFINE n == computed + 1
           x == batch[n].req
<1>1. /\ worker = "computing" /\ computed' = n /\ computed \in Nat /\ computed < Len(batch)
      /\ UNCHANGED <<worker, queues, num_layers, batch, finished>>
      /\ \/ num_layers = 0 /\ UNCHANGED kv
         \/ /\ num_layers > 0 /\ x \in DOMAIN kv
            /\ kv' = AppendKV(x, num_layers * batch[n].input)
  BY DEF Forward, AtItem, Item, StateOK, WorkOK
<1>2. /\ DOMAIN batch = 1..Len(batch) /\ Len(batch) \in Nat
      /\ \A i \in DOMAIN batch : /\ batch[i].req \in Running
                                 /\ batch[i].input = Share[batch[i].req]
      /\ \A i, j \in DOMAIN batch : batch[i].req = batch[j].req => i = j
  BY <1>1, BatchInWork
<1>3. /\ n \in DOMAIN batch /\ computed \in Nat
      /\ \A i \in 1..computed : i \in DOMAIN batch /\ i # n /\ i \in 1..n
      /\ \A i \in 1..n : i \in 1..computed \/ i = n
  BY <1>1, <1>2
<1>4. x \in Running /\ batch[n].input = Share[x]
  BY <1>2, <1>3
<1>4a. PICK y \in Running : y = x
  BY <1>4
<1>5. /\ Waiting' = Waiting /\ Running' = Running /\ requests' = requests
      /\ \A r \in Running : r \in DOMAIN requests
  BY <1>1 DEF queues, Waiting, Running, StateOK, QueuesOK
<1>6. \A r : /\ Prefilled(r)' <=> Prefilled(r)
             /\ PromptLen(r)' = PromptLen(r)
             /\ Context(r)' = Context(r)
             /\ Chunk(r)' = Chunk(r)
  BY <1>5 DEF Prefilled, PromptLen, Context, Chunk
<1>7. Share' = Share
  BY <1>5, <1>6 DEF Share
<1>8. ProgressOK' /\ FinishedOK'
  BY <1>1, <1>5, <1>6 DEF ServingOK, ProgressOK, FinishedOK
<1>9. Fed(y) = 0 /\ Fed(y)' = Share[y]
  <2>1. \A i \in 1..computed : batch[i].req # y
    BY <1>4a, <1>2, <1>3
  <2>2. n \in 1..n
    BY <1>3
  <2>3. \E i \in 1..computed' : batch'[i].req = y
    BY <1>4a, <1>1, <2>2
  <2> QED BY <1>1, <1>7, <2>1, <2>3 DEF Fed
<1> HIDE DEF n
<1>10. ASSUME NEW r \in Running, r # y
       PROVE  Fed(r)' = Fed(r)
  <2>1. (\E i \in 1..n : batch[i].req = r) <=> (\E i \in 1..computed : batch[i].req = r)
    BY <1>4a, <1>3, <1>10
  <2> QED BY <1>1, <1>7, <2>1 DEF Fed
<1>11. DOMAIN kv' = DOMAIN kv /\ DOMAIN kv' \cap Waiting' = {}
  BY <1>1, <1>5 DEF AppendKV, ServingOK, CachesOK
<1>12. ASSUME NEW r \in Running, r \in DOMAIN kv
       PROVE  requests[r].cached_prefix_len = 0 /\ kv'[r] = num_layers * (Context(r) + Fed(r)')
  <2>1. /\ requests[r].cached_prefix_len = 0 /\ kv[r] = num_layers * (Context(r) + Fed(r))
        /\ num_layers \in Nat
    BY <1>1, <1>12, EngineAssumption DEF ServingOK, CachesOK, StateOK, WorkOK
  <2>2. Context(r) \in Int /\ Share[r] \in Nat
    <3>1. r \in DOMAIN requests /\ QueuesOK
      BY <1>5 DEF StateOK
    <3>2. Context(r) \in Int
      BY <3>1, ContextType
    <3>3. Share[r] \in 1..max_prefill_chunk_size
      BY <3>1, ShareType DEF SharesOK
    <3> QED BY <3>2, <3>3
  <2>3. CASE r = y
    <3>1. Fed(r) = 0 /\ Fed(r)' = Share[r]
      BY <1>9, <2>3
    <3>2. CASE num_layers = 0
      <4>1. kv[r] = 0 /\ num_layers * (Context(r) + Fed(r)') = 0
        BY <2>1, <2>2, <3>1, <3>2
      <4> QED BY <1>1, <2>1, <3>2, <4>1
    <3>3. CASE num_layers > 0
      <4>1. kv'[r] = kv[r] + num_layers * Share[r]
        BY <1>4a, <1>1, <1>4, <1>12, <2>1, <2>3, <3>3 DEF AppendKV
      <4>2. kv[r] = num_layers * (Context(r) + 0)
        BY <2>1, <3>1
      <4>3. \A a \in Int, s \in Nat, l \in Nat : l * (a + 0) + l * s = l * (a + s)
        OBVIOUS
      <4> QED BY <2>1, <2>2, <3>1, <4>1, <4>2, <4>3
    <3> QED BY <2>1, <3>2, <3>3
  <2>4. CASE r # y
    <3>1. kv'[r] = kv[r]
      BY <1>4a, <1>1, <1>12, <2>4 DEF AppendKV
    <3> QED BY <1>10, <2>1, <2>4, <3>1
  <2> QED BY <2>3, <2>4
<1>13. CachesOK'
  BY <1>1, <1>5, <1>6, <1>11, <1>12 DEF ServingOK, CachesOK
<1> QED BY <1>8, <1>13 DEF ServingOK

\* Everybody running has been fed its share, and has come as far.
LEMMA ApplyServing ==
  ASSUME StateOK, IterationOK, ServingOK, Apply
  PROVE  ServingOK'
<1>1. /\ StateOK'
      /\ Waiting' = Waiting /\ Running' = Running
      /\ DOMAIN requests' = DOMAIN requests
      /\ \A r \in DOMAIN requests :
           /\ requests'[r].prompt_tokens = requests[r].prompt_tokens
           /\ requests'[r].max_tokens = requests[r].max_tokens
           /\ requests'[r].cached_prefix_len = requests[r].cached_prefix_len
           /\ requests'[r].generated = requests[r].generated + (IF r \in Batched THEN 1 ELSE 0)
           /\ requests'[r].prefill_cursor =
                requests[r].prefill_cursor + (IF r \in ToSet(to_prefill) THEN Chunk(r) ELSE 0)
      /\ IsInjective(finished') /\ ToSet(finished') \subseteq Running
      /\ \A r \in Running : requests'[r].generated >= requests'[r].max_tokens
                              => r \in ToSet(finished')
  BY ApplyStep
<1>2. /\ worker = "computing" /\ computed = Len(batch) /\ worker' = "finishing"
      /\ UNCHANGED <<num_layers, kv>>
  BY DEF Apply
<1>3. /\ Batched = Running
      /\ ToSet(to_prefill) = {r \in Running : ~Prefilled(r)}
      /\ \A r \in Running : Fed(r) = Share[r]
      /\ DOMAIN batch = 1..Len(batch)
  <2>1. /\ Batched = Running /\ DOMAIN batch = 1..Len(batch)
        /\ \A r \in Running : \E i \in DOMAIN batch : batch[i].req = r
    BY <1>2, BatchInWork
  <2>2. \A r \in Running : Fed(r) = Share[r]
    BY <1>2, <2>1 DEF Fed
  <2> QED BY <1>2, <2>1, <2>2 DEF IterationOK, ListsOK, Scheduled
<1>4. /\ \A r \in Running : r \in DOMAIN requests /\ r \notin Waiting
      /\ \A r \in Waiting : r \in DOMAIN requests /\ r \notin Running
      /\ \A r \in DOMAIN requests : r \in Waiting \/ r \in Running
  BY DEF StateOK, QueuesOK
<1>5. ASSUME NEW r \in Running
      PROVE  /\ requests'[r].generated = requests[r].generated + 1
             /\ requests'[r].cached_prefix_len = requests[r].cached_prefix_len
             /\ PromptLen(r)' = PromptLen(r)
             /\ Prefilled(r) => /\ requests'[r].prefill_cursor = requests[r].prefill_cursor
                                /\ Share[r] = 1 /\ Prefilled(r)'
             /\ ~Prefilled(r) =>
                  /\ requests'[r].prefill_cursor = requests[r].prefill_cursor + Chunk(r)
                  /\ Share[r] = Chunk(r) /\ Chunk(r) \in 1..max_prefill_chunk_size
                  /\ ~Prefilled(r)' => Chunk(r) = max_prefill_chunk_size
  <2>1. r \in DOMAIN requests /\ QueuesOK
    BY <1>4 DEF StateOK
  <2>2. /\ Chunk(r) \in 0..max_prefill_chunk_size /\ (~Prefilled(r) => Chunk(r) > 0)
        /\ PromptLen(r) \in Nat /\ requests[r].prefill_cursor \in Nat
        /\ max_prefill_chunk_size \in Nat \ {0}
    BY <2>1, ChunkType, ContextType
  <2>3. PromptLen(r)' = PromptLen(r)
    BY <1>1, <2>1 DEF PromptLen
  <2>4. requests'[r].prefill_cursor = requests[r].prefill_cursor
                                        + (IF ~Prefilled(r) THEN Chunk(r) ELSE 0)
    BY <1>1, <1>3, <2>1
  <2>5. Share[r] = IF Prefilled(r) THEN 1 ELSE Chunk(r)
    BY DEF Share
  <2>6. Prefilled(r)' <=> requests'[r].prefill_cursor >= PromptLen(r)
    BY <2>3 DEF Prefilled
  <2>7. Prefilled(r) <=> requests[r].prefill_cursor >= PromptLen(r)
    BY DEF Prefilled
  <2>8. ASSUME ~Prefilled(r), ~Prefilled(r)'
        PROVE  Chunk(r) = max_prefill_chunk_size
    <3>1. requests[r].prefill_cursor + Chunk(r) < PromptLen(r)
      BY <2>2, <2>4, <2>6, <2>8
    <3> QED BY <2>2, <3>1 DEF Chunk, Least
  <2> QED BY <1>1, <1>3, <2>1, <2>2, <2>3, <2>4, <2>5, <2>6, <2>7, <2>8
<1>6. ProgressOK'
  <2>1. \A r \in Waiting : /\ requests'[r].cached_prefix_len = requests[r].cached_prefix_len
                           /\ requests'[r].prefill_cursor = 0
                           /\ requests'[r].generated = 0
    BY <1>1, <1>3, <1>4 DEF ServingOK, ProgressOK
  <2>2. ASSUME NEW r \in DOMAIN requests
        PROVE  /\ requests'[r].generated = 0 =>
                    requests'[r].prefill_cursor = requests'[r].cached_prefix_len
               /\ requests'[r].cached_prefix_len = 0 /\ ~Prefilled(r)' =>
                    requests'[r].prefill_cursor = requests'[r].generated * max_prefill_chunk_size
    <3>1. /\ requests[r].cached_prefix_len = 0 /\ ~Prefilled(r) =>
               requests[r].prefill_cursor = requests[r].generated * max_prefill_chunk_size
          /\ requests[r].generated \in Nat /\ max_prefill_chunk_size \in Nat
      BY ContextType DEF ServingOK, ProgressOK
    <3>2. CASE r \in Waiting
      <4>1. /\ requests'[r].cached_prefix_len = 0 /\ requests'[r].prefill_cursor = 0
            /\ requests'[r].generated = 0
        BY <2>1, <3>2 DEF ServingOK, ProgressOK
      <4>2. 0 = 0 * max_prefill_chunk_size
        BY <3>1
      <4> QED BY <4>1, <4>2
    <3>3. CASE r \in Running
      <4>1. requests'[r].generated = requests[r].generated + 1
        BY <1>5, <3>3
      <4>2. ASSUME requests'[r].cached_prefix_len = 0, ~Prefilled(r)'
            PROVE  requests'[r].prefill_cursor = requests'[r].generated * max_prefill_chunk_size
        <5>1. /\ ~Prefilled(r) /\ requests[r].cached_prefix_len = 0
              /\ requests'[r].prefill_cursor = requests[r].prefill_cursor + max_prefill_chunk_size
          BY <1>5, <3>3, <4>2
        <5>2. \A g, k \in Nat : g * k + k = (g + 1) * k
          OBVIOUS
        <5> QED BY <3>1, <4>1, <5>1, <5>2
      <4>3. requests'[r].generated # 0
        BY <3>1, <4>1
      <4> QED BY <4>2, <4>3
    <3> QED BY <1>4, <3>2, <3>3
  <2> QED BY <1>1, <2>1, <2>2 DEF ServingOK, ProgressOK
<1>7. FinishedOK'
  <2>1. ASSUME NEW r \in Running
        PROVE  /\ \/ r \in ToSet(finished')
                  \/ requests'[r].generated < requests'[r].max_tokens
               /\ requests'[r].generated > 0
    <3>1. r \in DOMAIN requests
      BY <1>4
    <3>2. requests[r].generated \in Nat /\ requests[r].max_tokens \in Nat
      BY <3>1, ContextType
    <3>3. /\ requests'[r].max_tokens = requests[r].max_tokens
          /\ requests'[r].generated = requests[r].generated + 1
      BY <1>1, <1>5, <3>1
    <3> QED BY <1>1, <3>2, <3>3
  <2> QED BY <1>1, <1>2, <2>1 DEF FinishedOK
<1>8. CachesOK'
  <2>1. \A r : Fed(r)' = 0
    BY <1>2 DEF Fed
  <2>2. ASSUME NEW r \in Running
        PROVE  /\ r \in DOMAIN kv => /\ requests'[r].cached_prefix_len = 0
                                     /\ kv[r] = num_layers * (Context(r)' + 0)
               /\ requests'[r].cached_prefix_len = 0 /\ PromptLen(r)' > 0
                  => r \in DOMAIN kv
    <3>1. r \in DOMAIN requests
      BY <1>4
    <3>2. /\ Context(r) \in Int /\ PromptLen(r) \in Nat
          /\ requests[r].generated \in Nat /\ requests[r].prefill_cursor \in Nat
          /\ max_prefill_chunk_size \in Nat \ {0}
      BY <3>1, ContextType
    <3>3. /\ r \in DOMAIN kv => /\ requests[r].cached_prefix_len = 0
                                /\ kv[r] = num_layers * (Context(r) + Share[r])
          /\ /\ requests[r].cached_prefix_len = 0 /\ PromptLen(r) > 0
             /\ requests[r].generated > 0 \/ ~Prefilled(r)
             => r \in DOMAIN kv
      BY <1>2, <1>3 DEF ServingOK, CachesOK
    <3>4. requests[r].cached_prefix_len = 0 => Context(r)' = Context(r) + Share[r]
      <4> SUFFICES ASSUME requests[r].cached_prefix_len = 0
                   PROVE  Context(r)' = Context(r) + Share[r]
        OBVIOUS
      <4>1. CASE Prefilled(r)
        <5>1. BM!DivCeil(requests[r].prefill_cursor, max_prefill_chunk_size) \in Int
          BY <3>2 DEF BM!DivCeil
        <5>2. Context(r)' = requests'[r].prefill_cursor + requests'[r].generated
                - BM!DivCeil(requests'[r].prefill_cursor, max_prefill_chunk_size)
          BY DEF Context, BM!DivCeil
        <5> QED BY <1>5, <3>2, <4>1, <5>1, <5>2 DEF Context
      <4>2. CASE ~Prefilled(r)
        <5> DEFINE k == max_prefill_chunk_size
                   g == requests[r].generated
                   c == Chunk(r)
        <5>1. requests[r].prefill_cursor = g * k
          BY <3>1, <4>2 DEF ServingOK, ProgressOK
        <5>2. /\ requests'[r].prefill_cursor = g * k + c /\ requests'[r].generated = g + 1
              /\ c \in 1..k /\ Share[r] = c
          BY <1>5, <4>2, <5>1
        <5>3. BM!DivCeil(g * k, k) = g /\ BM!DivCeil(g * k + c, k) = g + 1
          BY <3>2, <5>2, ChunkCount
        <5>4. Context(r) = g * k + g - g
          BY <5>1, <5>3 DEF Context
        <5>5. Context(r)' = requests'[r].prefill_cursor + requests'[r].generated
                - BM!DivCeil(requests'[r].prefill_cursor, k)
          BY DEF Context, BM!DivCeil
        <5>6. Context(r)' = g * k + c + (g + 1) - (g + 1)
          BY <5>2, <5>3, <5>5
        <5>7. g \in Nat /\ k \in Nat /\ c \in Int /\ g * k \in Int
          BY <3>2, <5>2
        <5> HIDE DEF k, g, c
        <5> QED BY <5>2, <5>4, <5>6, <5>7
      <4> QED BY <4>1, <4>2
    <3>5. ASSUME requests[r].cached_prefix_len = 0, PromptLen(r) > 0, Prefilled(r)
          PROVE  requests[r].generated > 0
      <4>1. requests[r].generated = 0 => requests[r].prefill_cursor = 0
        BY <3>1, <3>5 DEF ServingOK, ProgressOK
      <4>2. requests[r].prefill_cursor >= PromptLen(r)
        BY <3>5 DEF Prefilled
      <4> QED BY <3>2, <3>5, <4>1, <4>2
    <3>6. Context(r) + Share[r] = Context(r) + Share[r] + 0
      <4>1. Share[r] \in 1..max_prefill_chunk_size
        BY ShareType DEF SharesOK, StateOK
      <4> QED BY <3>2, <4>1
    <3> QED BY <1>5, <3>3, <3>4, <3>5, <3>6
  <2>3. DOMAIN kv' \cap Waiting' = {}
    BY <1>1, <1>2 DEF ServingOK, CachesOK
  <2> QED BY <1>1, <1>2, <2>1, <2>2, <2>3 DEF CachesOK
<1> QED BY <1>6, <1>7, <1>8 DEF ServingOK

LEMMA ServingStep ==
  ASSUME StateOK, BMP!IInv, IterationOK, ServingOK, [Next]_vars
  PROVE  ServingOK'
<1>1. ASSUME NEW r \in Req, AddRequest(r)
      PROVE  ServingOK'
  BY <1>1, AddRequestServing
<1>2. CASE ExpireRunning
  BY <1>2, ExpireRunningServing
<1>3. CASE ListRunning
  BY <1>3, ListRunningServing
<1>4. CASE Admit
  BY <1>4, AdmitServing
<1>5. CASE AdmitRefused
  <2>1. worker = "admitting" /\ worker' = "assembling" /\ UNCHANGED <<queues, work>>
    BY <1>5 DEF AdmitRefused, MayAdmit
  <2>2. finished = <<>>
    BY <2>1 DEF ServingOK, FinishedOK
  <2> QED BY <2>1, <2>2, QueuesUnchanged DEF work
<1>6. CASE Assemble
  BY <1>6, AssembleServing
<1>7. CASE Forward
  BY <1>7, ForwardServing
<1>8. CASE Apply
  BY <1>8, ApplyServing
<1>9. CASE Finish
  BY <1>9, FinishServing
<1>10. CASE Quiet
  <2>1. UNCHANGED queues
    BY <1>10, QuietStep
  <2>2. CASE AdmitEnd \/ StartSchedule \/ Sleep \/ Wait \/ Wake \/ EndIteration
    <3>1. /\ worker \notin {"computing", "dead"} /\ UNCHANGED work
          /\ worker' \in {"ready", "expiring", "admitting", "assembling", "idle", "asleep"}
      BY <2>2 DEF AdmitEnd, StartSchedule, Sleep, Wait, Wake, EndIteration
    <3>2. finished = <<>>
      BY <2>2 DEF AdmitEnd, StartSchedule, Sleep, Wait, Wake, EndIteration, ServingOK, FinishedOK
    <3> QED BY <2>1, <3>1, <3>2, QueuesUnchanged DEF work
  <2>3. CASE ServerEnds \/ ForwardPanics \/ ForwardFails
    BY <2>1, <2>3, QueuesUnchanged DEF ServerEnds, ForwardPanics, ForwardFails, work
  <2>4. CASE \/ ShutdownSignal \/ UNCHANGED vars
             \/ \E r \in Req : Handler(r) \/ DeadlinePasses(r)
    BY <2>1, <2>4, QueuesUnchanged DEF ShutdownSignal, Handler, NotifyOne, Respond, DeadlinePasses,
       vars, work
  <2> QED BY <1>10, <2>2, <2>3, <2>4 DEF Quiet
<1> QED BY <1>1, <1>2, <1>3, <1>4, <1>5, <1>6, <1>7, <1>8, <1>9, <1>10, Steps

THEOREM ServingInvariant == Spec => []ServingOK
<1>1. Init => ServingOK
  <2> SUFFICES ASSUME Init
               PROVE  ServingOK
    OBVIOUS
  <2>1. Running = {} /\ Waiting = {} /\ DOMAIN requests = {} /\ DOMAIN kv = {} /\ finished = <<>>
        /\ worker = "ready"
    BY DEF Init, Running, Waiting, ToSet
  <2> QED BY <2>1 DEF ServingOK, ProgressOK, FinishedOK, CachesOK
<1>2. StateOK /\ BMP!IInv /\ IterationOK /\ ServingOK /\ [Next]_vars => ServingOK'
  BY ServingStep
<1> QED BY <1>1, <1>2, StateInvariant, IterationInvariant, PTL DEF Spec

-----------------------------------------------------------------------------
(* What follows                                                            *)

\* append_kv finds the cache of every request that started at its first token, in
\* whatever order the requests were admitted, chunked and finished.
THEOREM RegisteredInTime == Spec => []RegisteredBeforeUse
<1>1. StateOK /\ IterationOK /\ ServingOK => RegisteredBeforeUse
  <2> SUFFICES ASSUME StateOK, IterationOK, ServingOK, worker = "computing", NEW r \in Batched,
                      ~(requests[r].cached_prefix_len > 0), PromptLen(r) # 0
               PROVE  r \in DOMAIN kv
    BY DEF RegisteredBeforeUse
  <2>1. r \in Running /\ r \in DOMAIN requests
    BY BatchInWork DEF StateOK, QueuesOK
  <2>2. /\ PromptLen(r) \in Nat /\ requests[r].generated \in Nat
        /\ requests[r].cached_prefix_len \in Nat /\ requests[r].prefill_cursor \in Nat
    BY <2>1, ContextType
  <2>3. requests[r].cached_prefix_len = 0 /\ PromptLen(r) > 0
    BY <2>2
  <2>4. requests[r].generated > 0 \/ ~Prefilled(r)
    <3>1. requests[r].generated = 0 => requests[r].prefill_cursor = 0
      BY <2>1, <2>3 DEF ServingOK, ProgressOK
    <3> QED BY <2>2, <2>3, <3>1 DEF Prefilled
  <2> QED BY <2>1, <2>3, <2>4 DEF ServingOK, CachesOK
<1> QED BY <1>1, StateInvariant, IterationInvariant, ServingInvariant, PTL

\* The cache of a request has, in every layer, the part of its prompt that is prefilled
\* and one token for every decode: all that the model has been fed, and nothing twice.
THEOREM CachesHoldContext == Spec => []KVHoldsContext
<1>1. StateOK /\ ServingOK => KVHoldsContext
  <2> SUFFICES ASSUME StateOK, ServingOK, worker \in {"ready", "idle", "asleep"},
                      NEW r \in Running \cap DOMAIN kv
               PROVE  kv[r] = num_layers * (requests[r].prefill_cursor + requests[r].generated
                                 - BM!DivCeil(requests[r].prefill_cursor, max_prefill_chunk_size))
    BY DEF KVHoldsContext
  <2>1. r \in DOMAIN requests /\ Fed(r) = 0
    BY DEF StateOK, QueuesOK, Fed
  <2>2. kv[r] = num_layers * (Context(r) + Fed(r))
    BY DEF ServingOK, CachesOK
  <2>3. Context(r) + 0 = Context(r)
    BY <2>1, ContextType
  <2> QED BY <2>1, <2>2, <2>3 DEF Context
<1> QED BY <1>1, StateInvariant, ServingInvariant, PTL

\* A decode continues from the token its client was sent last, unless the request found
\* its whole prompt in the cache and has none.
THEOREM DecodesContinue == Spec => []DecodedFromOwnToken
<1>1. StateOK /\ IterationOK /\ ServingOK => DecodedFromOwnToken
  <2> SUFFICES ASSUME StateOK, IterationOK, ServingOK, worker = "computing",
                      NEW i \in DOMAIN batch, NEW r, r = batch[i].req, ~batch[i].is_prefill
               PROVE  /\ batch[i].last = sent[r]
                      /\ sent[r] = 0 <=> /\ requests[r].cached_prefix_len = PromptLen(r)
                                         /\ requests[r].generated = 0
    BY DEF DecodedFromOwnToken
  <2>1. batch = Items
    BY DEF IterationOK, ListsOK
  <2>2. /\ r \in Running /\ Prefilled(r) /\ batch[i] = DecodeItem(r)
    <3>1. /\ batch[i].req \in Running
          /\ batch[i].is_prefill <=> ~Prefilled(batch[i].req)
          /\ batch[i] = IF Prefilled(batch[i].req) THEN DecodeItem(batch[i].req)
                                                   ELSE PrefillItem(batch[i].req)
      BY <2>1, BatchOfRunning DEF IterationOK
    <3> QED BY <3>1
  <2>3. r \in DOMAIN requests
    BY <2>2 DEF StateOK, QueuesOK
  <2>4. sent[r] = requests[r].generated /\ batch[i].last = requests[r].generated
    BY <2>2, <2>3 DEF StateOK, ClientsOK, DecodeItem
  <2>5. requests[r].generated = 0 => requests[r].cached_prefix_len = PromptLen(r)
    <3>1. requests[r].prefill_cursor = PromptLen(r)
      BY <2>2, <2>3, ChunkType DEF StateOK
    <3> QED BY <2>3, <3>1 DEF ServingOK, ProgressOK
  <2> QED BY <2>4, <2>5
<1> QED BY <1>1, StateInvariant, IterationInvariant, ServingInvariant, PTL

-----------------------------------------------------------------------------
(* The clients are served                                                  *)

\* What Engine calls limit and client when it speaks of Serving.
Limits == [r \in DOMAIN requests |-> requests[r].max_tokens]
Clients == [r \in Req |-> CASE api[r] = "idle" -> "new"
                            [] api[r] = "done" -> "answered"
                            [] OTHER -> "waiting"]

\* The steps Serving does not see.
LEMMA UnseenByClients ==
  ASSUME UNCHANGED <<waiting_queue, running_queue, requests, late, sent, api>>
  PROVE  UNCHANGED S!vars
<1>1. Running' = Running /\ Limits' = Limits /\ Clients' = Clients
  BY DEF Running, Limits, Clients
<1> QED BY <1>1 DEF S!vars, Limits, Clients

\* A request leaves for its deadline, or because it has had a token.
LEMMA LeaveServing ==
  ASSUME StateOK, NEW r \in Req, r \in Running, sent[r] > 0 \/ r \in late,
         Running' = Running \ {r}, DOMAIN requests' = DOMAIN requests \ {r},
         \A q \in DOMAIN requests' : requests'[q] = requests[q],
         UNCHANGED <<waiting_queue, client>>
  PROVE  S!Leave(r)
<1>1. Limits' = [q \in DOMAIN Limits \ {r} |-> Limits[q]]
  BY DEF Limits
<1>2. Clients' = Clients /\ UNCHANGED <<late, sent>>
  BY DEF client, Clients
<1> QED BY <1>1, <1>2 DEF S!Leave, S!LimitsWithout, Limits, Clients

LEMMA ArriveServing ==
  ASSUME StateOK, NEW r \in Req, AddRequest(r)
  PROVE  S!Arrive(r)
<1>1. /\ api[r] = "idle" /\ api' = [api EXCEPT ![r] = "added"]
      /\ api \in [Req -> {"idle", "added", "receiving", "done"}]
      /\ waiting_queue' = Append(waiting_queue, r)
      /\ Running' = Running /\ UNCHANGED <<late, sent>>
  BY AddRequestStep DEF AddRequest, StateOK, ClientsOK
<1>2. PICK tokens \in Prompts, max \in MaxTokens :
        requests' = [q \in DOMAIN requests \cup {r} |->
                       IF q = r THEN [prompt_tokens |-> tokens, max_tokens |-> max, generated |-> 0,
                                      prefill_cursor |-> 0, cached_prefix_len |-> 0]
                       ELSE requests[q]]
  BY DEF AddRequest
<1>3. Limits' = [q \in DOMAIN Limits \cup {r} |-> IF q = r THEN max ELSE Limits[q]]
  BY <1>2 DEF Limits
<1>4. Clients[r] = "new" /\ Clients' = [Clients EXCEPT ![r] = "waiting"]
  BY <1>1 DEF Clients
<1> QED BY <1>1, <1>3, <1>4 DEF S!Arrive, Limits, Clients

LEMMA AnswerServing ==
  ASSUME StateOK, NEW r \in Req, Respond(r)
  PROVE  S!Answer(r)
<1>1. /\ api[r] = "receiving" /\ api' = [api EXCEPT ![r] = "done"]
      /\ api \in [Req -> {"idle", "added", "receiving", "done"}]
      /\ r \notin DOMAIN requests
      /\ UNCHANGED <<waiting_queue, running_queue, requests, late, sent>>
  BY DEF Respond, queues, StateOK, ClientsOK
<1>2. Limits' = Limits /\ Running' = Running /\ r \notin DOMAIN Limits
  BY <1>1 DEF Limits, Running
<1>3. Clients[r] = "waiting" /\ Clients' = [Clients EXCEPT ![r] = "answered"]
  BY <1>1 DEF Clients
<1> QED BY <1>1, <1>2, <1>3 DEF S!Answer, Limits, Clients

LEMMA NotifyServing ==
  ASSUME StateOK, NEW r \in Req, NotifyOne(r)
  PROVE  UNCHANGED S!vars
<1>1. /\ api[r] = "added" /\ api' = [api EXCEPT ![r] = "receiving"]
      /\ api \in [Req -> {"idle", "added", "receiving", "done"}]
      /\ UNCHANGED <<waiting_queue, running_queue, requests, late, sent>>
  BY DEF NotifyOne, queues, StateOK, ClientsOK
<1>2. Limits' = Limits /\ Running' = Running /\ Clients' = Clients
  BY <1>1 DEF Limits, Running, Clients
<1> QED BY <1>1, <1>2 DEF S!vars, Limits, Clients

LEMMA ExpireServing ==
  ASSUME NEW r \in Req, DeadlinePasses(r)
  PROVE  S!Expire(r)
<1>1. /\ r \in DOMAIN requests /\ late' = late \cup {r}
      /\ UNCHANGED <<waiting_queue, running_queue, requests, sent, api>>
  BY DEF DeadlinePasses, queues
<1>2. r \in DOMAIN Limits /\ Limits' = Limits /\ Running' = Running /\ Clients' = Clients
  BY <1>1 DEF Limits, Running, Clients
<1> QED BY <1>1, <1>2 DEF S!Expire, Limits, Clients

LEMMA AbandonServing ==
  ASSUME StateOK, ListRunning, NEW gone, gone = now_late
  PROVE  gone \in SUBSET late /\ S!Abandon(gone)
<1>1. /\ waiting_queue' = Drop(waiting_queue, gone)
      /\ Running' = Running /\ gone \subseteq late
      /\ DOMAIN requests' = DOMAIN requests \ (now_late \cap Waiting)
      /\ \A q \in DOMAIN requests' : requests'[q] = requests[q]
      /\ UNCHANGED <<late, sent, api>>
  BY ListRunningStep DEF ListRunning, client, StateOK, ClientsOK
<1>2. Running \cap now_late = {} /\ DOMAIN requests = Waiting \cup Running
  BY DEF ListRunning, RunningExpired, Running, ToSet, StateOK, QueuesOK
<1>3. Limits' = [q \in DOMAIN Limits \ gone |-> Limits[q]]
  <2>1. DOMAIN requests' = DOMAIN requests \ now_late
    BY <1>1, <1>2
  <2> QED BY <1>1, <2>1 DEF Limits
<1>4. Clients' = Clients
  BY <1>1 DEF Clients
<1>5. S!Drop(waiting_queue, gone) = Drop(waiting_queue, gone)
  BY DEF S!Drop, S!Filter, S!ToSet, S!InOrder, S!Cardinality,
         Drop, Filter, ToSet, InOrder, Cardinality
<1>6. S!Abandon(gone)
  BY <1>1, <1>3, <1>4, <1>5 DEF S!Abandon, S!LimitsWithout, Limits, Clients
<1> QED BY <1>1, <1>6

LEMMA StartServing ==
  ASSUME StateOK, BMP!IInv, Admit, NEW x, x = Head(waiting_queue)
  PROVE  S!Start
<1>1. /\ x \in Waiting /\ waiting_queue # <<>> /\ waiting_queue' = Tail(waiting_queue)
      /\ Running' = Running \cup {x}
      /\ DOMAIN requests' = DOMAIN requests
      /\ \A q \in DOMAIN requests \ {x} : requests'[q] = requests[q]
  BY AdmitStep
<1>2. requests'[x].max_tokens = requests[x].max_tokens
  <2> DEFINE old == requests[x]
  <2>1. old \in Request
    BY <1>1 DEF StateOK, QueuesOK
  <2>2. PICK hit_len \in 0..PromptLen(x) :
          requests'[x] = [old EXCEPT !.cached_prefix_len = hit_len, !.prefill_cursor = hit_len]
    BY AdmitStep
  <2> HIDE DEF old
  <2>3. requests'[x].max_tokens = old.max_tokens
    BY <2>1, <2>2 DEF Request
  <2> QED BY <2>3 DEF old
<1>3. Limits' = Limits
  BY <1>1, <1>2 DEF Limits
<1>4. Clients' = Clients /\ UNCHANGED <<late, sent>>
  BY DEF Admit, client, Clients
<1> QED BY <1>1, <1>3, <1>4 DEF S!Start, Limits, Clients

LEMMA TurnServing ==
  ASSUME StateOK, IterationOK, ServingOK, Apply
  PROVE  S!Turn
<1>1. worker = "computing"
  BY DEF Apply
<1>2. Batched = Running /\ Running # {} /\ finished = <<>>
  BY <1>1, BatchInWork DEF ServingOK, FinishedOK
<1>3. \A r \in Running : /\ r \in DOMAIN requests /\ sent[r] = requests[r].generated
                         /\ Limits[r] = requests[r].max_tokens
  BY DEF Limits, StateOK, QueuesOK, ClientsOK
<1>4. \A r \in Running : sent[r] = 0 \/ sent[r] < Limits[r]
  <2>1. ToSet(finished) = {}
    BY <1>2 DEF ToSet
  <2> QED BY <1>1, <1>3, <2>1 DEF ServingOK, FinishedOK
<1>5. /\ sent' = [r \in Req |-> sent[r] + (IF r \in Running THEN 1 ELSE 0)]
      /\ UNCHANGED <<waiting_queue, running_queue, late, api>>
  BY <1>2 DEF Apply, Served
<1>6. Limits' = Limits /\ Clients' = Clients /\ Running' = Running
  BY <1>5, ApplyStep DEF Limits, Clients
<1> QED BY <1>2, <1>4, <1>5, <1>6 DEF S!Turn, Limits, Clients

LEMMA ServesStep ==
  ASSUME StateOK, BMP!IInv, IterationOK, ServingOK, [Next]_vars
  PROVE  [S!Next]_(S!vars)
<1>1. ASSUME NEW r \in Req, AddRequest(r)
      PROVE  S!Next
  BY <1>1, ArriveServing DEF S!Next
<1>2. CASE ExpireRunning
  <2>1. /\ UNCHANGED <<waiting_queue, client>>
        /\ \E r \in Running \cap now_late :
             /\ Running' = Running \ {r}
             /\ DOMAIN requests' = DOMAIN requests \ {r}
             /\ \A q \in DOMAIN requests' : requests'[q] = requests[q]
    BY <1>2, ExpireRunningStep DEF ExpireRunning
  <2>2. \E r \in Req : S!Leave(r)
    BY <2>1, LeaveServing DEF StateOK, ClientsOK
  <2> QED BY <2>2 DEF S!Next
<1>3. CASE ListRunning
  <2>1. PICK gone : gone = now_late
    OBVIOUS
  <2>2. gone \in SUBSET late /\ S!Abandon(gone)
    BY <1>3, <2>1, AbandonServing
  <2> QED BY <2>2 DEF S!Next
<1>4. CASE Admit
  BY <1>4, StartServing DEF S!Next
<1>5. CASE AdmitRefused \/ Assemble \/ Forward
  BY <1>5, UnseenByClients DEF AdmitRefused, Assemble, Forward, queues, client
<1>6. CASE Apply
  BY <1>6, TurnServing DEF S!Next
<1>7. CASE Finish
  <2>1. PICK x : x = Head(finished)
    OBVIOUS
  <2>2. /\ x \in Running /\ requests[x].generated > 0
        /\ Running' = Running \ {x} /\ DOMAIN requests' = DOMAIN requests \ {x}
        /\ \A q \in DOMAIN requests' : requests'[q] = requests[q]
        /\ UNCHANGED <<waiting_queue, client>>
    BY <1>7, <2>1, FinishStep, FinishServing DEF Finish
  <2>3. x \in Req /\ sent[x] > 0
    BY <2>2 DEF StateOK, QueuesOK, ClientsOK, Running, ToSet
  <2>4. S!Leave(x)
    BY <2>2, <2>3, LeaveServing
  <2> QED BY <2>3, <2>4 DEF S!Next
<1>8. CASE Quiet
  <2>1. CASE ShutdownSignal \/ ServerEnds
    BY <2>1, UnseenByClients DEF ShutdownSignal, ServerEnds, queues
  <2>2. CASE \/ StartSchedule \/ AdmitEnd \/ ForwardPanics \/ ForwardFails
             \/ Sleep \/ Wait \/ Wake \/ EndIteration \/ UNCHANGED vars
    BY <2>2, UnseenByClients DEF StartSchedule, AdmitEnd, ForwardPanics, ForwardFails,
       Sleep, Wait, Wake, EndIteration, vars, queues, client
  <2>3. ASSUME NEW r \in Req, NotifyOne(r)
        PROVE  UNCHANGED S!vars
    BY <2>3, NotifyServing
  <2>4. ASSUME NEW r \in Req, Respond(r) \/ DeadlinePasses(r)
        PROVE  S!Next
    BY <2>4, AnswerServing, ExpireServing DEF S!Next
  <2> QED BY <1>8, <2>1, <2>2, <2>3, <2>4 DEF Quiet, Handler
<1> QED BY <1>1, <1>2, <1>3, <1>4, <1>5, <1>6, <1>7, <1>8, Steps

\* To its clients the engine is the server of the module Serving, whatever the blocks,
\* the budget, the chunks and the caches do: who has waited longest starts first, a turn
\* gives everybody being served one token and nobody more than asked for, and a request
\* leaves with a token or for its deadline, and is answered only then.
THEOREM ServingImplemented == Spec => Serves
<1>1. Init => S!Init
  <2> SUFFICES ASSUME Init
               PROVE  S!Init
    OBVIOUS
  <2>1. Running = {} /\ Limits = [r \in {} |-> 0] /\ Clients = [r \in Req |-> "new"]
    BY DEF Init, Running, ToSet, Limits, Clients
  <2> QED BY <2>1 DEF Init, S!Init, Limits, Clients
<1>2. StateOK /\ BMP!IInv /\ IterationOK /\ ServingOK /\ [Next]_vars => [S!Next]_(S!vars)
  BY ServesStep
<1> QED BY <1>1, <1>2, StateInvariant, IterationInvariant, ServingInvariant, PTL DEF Spec, Serves, S!Spec
=============================================================================
