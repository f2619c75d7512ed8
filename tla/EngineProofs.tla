---------------------------- MODULE EngineProofs ----------------------------
(***************************************************************************)
(* Proofs about Engine: where the requests are, what they own, and what    *)
(* the clients have seen of them.                                          *)
(*                                                                         *)
(* BM is the block manager the engine calls.  Its operators are those of   *)
(* BlockManager, and so are those of BMP, which brings the theorems about  *)
(* them: what is proved of every sequence of calls the manager's methods   *)
(* allow holds in the engine once its steps are shown to be such calls.    *)
(***************************************************************************)
EXTENDS Engine, QueueProofs

BMP == INSTANCE BlockManagerProofs WITH LegacySizes <- {}

LEMMA ManagerAssumption == BMP!BlockManagerAssumption
BY EngineAssumption DEF BMP!BlockManagerAssumption

-----------------------------------------------------------------------------
(* The invariant                                                           *)

Request == [prompt_tokens : Prompts, max_tokens : MaxTokens, generated : Nat,
            prefill_cursor : Nat, cached_prefix_len : Nat]

\* Each request is in one place, with a cursor between its cached prefix and
\* the end of its prompt.
QueuesOK ==
  /\ waiting_queue \in Seq(Req) /\ running_queue \in Seq(Req)
  /\ IsInjective(waiting_queue) /\ IsInjective(running_queue)
  /\ Waiting \cap Running = {}
  /\ DOMAIN requests = Waiting \cup Running
  /\ \A r \in DOMAIN requests : requests[r] \in Request
  /\ \A r \in DOMAIN requests : /\ requests[r].cached_prefix_len <= requests[r].prefill_cursor
                                /\ requests[r].prefill_cursor <= PromptLen(r)

\* The tables of the manager are those of the running requests.
TablesOK ==
  /\ DOMAIN block_table = Running
  /\ DOMAIN prompt_table = Running
  /\ \A r \in Running : prompt_table[r] = requests[r].prompt_tokens

\* An id that is not in use has left no trace.
ClientsOK ==
  /\ api \in [Req -> {"idle", "added", "receiving", "done"}]
  /\ sent \in [Req -> Nat]
  /\ late \subseteq Req /\ now_late \subseteq late
  /\ server \in {"serving", "draining", "ended"} /\ permit \in BOOLEAN
  /\ \A r \in Req : api[r] = "idle" => r \notin DOMAIN requests /\ r \notin late /\ sent[r] = 0
  /\ \A r \in DOMAIN requests : sent[r] = requests[r].generated

BatchItem == [req : Req, input : Nat, is_prefill : BOOLEAN, needs_cache_lookup : BOOLEAN]
               \cup [req : Req, input : Nat, is_prefill : BOOLEAN, needs_cache_lookup : BOOLEAN,
                     last : Nat]

\* The shape of what the worker has in hand.
WorkOK ==
  /\ worker \in {"ready", "expiring", "admitting", "assembling", "idle", "asleep",
                 "computing", "finishing", "dead"}
  /\ to_prefill \in Seq(Req) /\ to_decode \in Seq(Req) /\ finished \in Seq(Req)
  /\ worker \in {"admitting", "assembling"} =>
       ToSet(to_prefill) \subseteq Running /\ ToSet(to_decode) \subseteq Running
  /\ total_tokens \in Nat
  /\ batch \in Seq(BatchItem) /\ computed \in 0..Len(batch)
  /\ worker = "computing" => Batched \subseteq Running
  /\ num_layers \in LayerCounts
  /\ DOMAIN kv \subseteq Running \cup late
  /\ \A r \in DOMAIN kv : kv[r] \in Nat

StateOK == QueuesOK /\ TablesOK /\ ClientsOK /\ WorkOK

-----------------------------------------------------------------------------
(* What the steps leave alone                                              *)

LEMMA QueuesFrame ==
  ASSUME QueuesOK, UNCHANGED queues
  PROVE  QueuesOK' /\ Waiting' = Waiting /\ Running' = Running
BY DEF queues, QueuesOK, Waiting, Running, PromptLen

LEMMA TablesFrame ==
  ASSUME TablesOK, UNCHANGED <<manager, queues>>
  PROVE  TablesOK'
BY DEF manager, queues, TablesOK, Running

LEMMA ClientsFrame ==
  ASSUME ClientsOK, UNCHANGED <<client, permit, now_late, requests>>
  PROVE  ClientsOK'
BY DEF client, ClientsOK

LEMMA WorkFrame ==
  ASSUME WorkOK, UNCHANGED <<to_prefill, to_decode, total_tokens, work, running_queue, late>>,
         \/ worker' \in {"ready", "expiring", "idle", "asleep", "finishing", "dead"}
         \/ worker' = worker
         \/ worker' = "assembling" /\ worker = "admitting"
  PROVE  WorkOK'
BY DEF work, WorkOK, Running, Batched

-----------------------------------------------------------------------------
(* The operators of the steps                                              *)

\* A chunk of a request has a length, and one that is not prefilled has one left.
LEMMA ChunkType ==
  ASSUME QueuesOK, NEW r \in DOMAIN requests
  PROVE  /\ PromptLen(r) \in Nat
         /\ Chunk(r) \in 0..max_prefill_chunk_size
         /\ requests[r].prefill_cursor + Chunk(r) <= PromptLen(r)
         /\ Prefilled(r) <=> requests[r].prefill_cursor = PromptLen(r)
         /\ Prefilled(r) => Chunk(r) = 0
         /\ ~Prefilled(r) => Chunk(r) > 0
         /\ Advanced(requests[r].prefill_cursor, PromptLen(r)) = requests[r].prefill_cursor + Chunk(r)
<1>1. /\ requests[r] \in Request
      /\ requests[r].prefill_cursor <= PromptLen(r)
  BY DEF QueuesOK
<1>2. requests[r].prompt_tokens \in Seq(Token) /\ requests[r].prefill_cursor \in Nat
  BY <1>1, EngineAssumption DEF Request
<1>3. PromptLen(r) \in Nat
  BY <1>2, LenProperties DEF PromptLen
<1>4. max_prefill_chunk_size \in Nat \ {0}
  BY EngineAssumption
<1> QED BY <1>1, <1>2, <1>3, <1>4 DEF Chunk, Least, Prefilled, Advanced

\* The tokens of the listed prefills are finitely many.
LEMMA TokensType ==
  ASSUME QueuesOK, NEW prefills \in Seq(DOMAIN requests), NEW n \in 0..Len(prefills)
  PROVE  /\ IsFiniteSet(ChunkTokens(prefills, n))
         /\ Cardinality(ChunkTokens(prefills, n)) \in Nat
<1> DEFINE all == (1..n) \X (1..max_prefill_chunk_size)
<1>1. n \in Nat /\ 1..n \subseteq 1..Len(prefills) /\ max_prefill_chunk_size \in Nat
  BY EngineAssumption, LenProperties
<1>2. IsFiniteSet(all)
  <2>1. IsFiniteSet(1..n) /\ IsFiniteSet(1..max_prefill_chunk_size)
    BY <1>1, FS_Interval
  <2> QED BY <2>1, FS_Product
<1>3. ChunkTokens(prefills, n) \in SUBSET all
  <2> SUFFICES ASSUME NEW i \in 1..n, NEW k \in 1..Chunk(prefills[i])
               PROVE  k \in 1..max_prefill_chunk_size
    BY DEF ChunkTokens
  <2>1. prefills[i] \in DOMAIN requests
    BY <1>1, LenProperties
  <2>2. Chunk(prefills[i]) \in 0..max_prefill_chunk_size
    BY <2>1, ChunkType
  <2> QED BY <2>2, <1>1
<1> QED BY <1>2, <1>3, FS_Subset, FS_CardinalityType

\* The loop over the running prefills lists them from the first on.
LEMMA WithinBudgetPrefix ==
  ASSUME NEW decodes, NEW T, NEW prefills \in Seq(T),
         NEW listed, listed = WithinBudget(decodes, prefills)
  PROVE  /\ listed \in Seq(T)
         /\ Len(listed) <= Len(prefills)
         /\ \A i \in DOMAIN listed : i \in DOMAIN prefills /\ listed[i] = prefills[i]
         /\ ToSet(listed) \subseteq ToSet(prefills)
         /\ IsInjective(prefills) => IsInjective(listed)
<1> DEFINE N == {n \in DOMAIN prefills : TokensAt(decodes, prefills, n - 1) < max_tokens_per_iter}
           c == Cardinality(N)
<1>1. Len(prefills) \in Nat /\ DOMAIN prefills = 1..Len(prefills)
  BY LenProperties
<1>2. c \in Nat /\ c <= Len(prefills)
  <2>1. N \in SUBSET (1..Len(prefills))
    BY <1>1
  <2>2. IsFiniteSet(1..Len(prefills)) /\ Cardinality(1..Len(prefills)) = Len(prefills)
    BY <1>1, FS_Interval
  <2> HIDE DEF N
  <2> QED BY <2>1, <2>2, FS_Subset, FS_CardinalityType
<1>3. listed = SubSeq(prefills, 1, c)
  BY DEF WithinBudget
<1> HIDE DEF c, N
<1>4. /\ listed \in Seq(T) /\ Len(listed) = c
      /\ \A i \in 1..c : listed[i] = prefills[i]
  BY <1>1, <1>2, <1>3
<1>5. DOMAIN listed = 1..c
  BY <1>4, LenProperties
<1> QED BY <1>1, <1>2, <1>4, <1>5 DEF ToSet, IsInjective

\* A prefix hit is no longer than the prompt.
LEMMA HitLength ==
  ASSUME BMP!IInv, NEW tokens \in Seq(Token), NEW t \in BM!Attempts(tokens)
  PROVE  t.hit_len \in 0..Len(tokens)
<1> DEFINE cached(h) == BM!PathBlocks(radix_cache.nodes, h)
           needed(h) == BM!DivCeil(Len(tokens) - Len(h), block_size)
           touched == BM!Touch(radix_cache, tokens)
           held(h) == [b \in BM!Block |-> ref_counts[b] + BM!Occurrences(cached(h), b)]
           outcomes(h) == IF Len(free_gpu_blocks) < needed(h)
                            THEN BM!Evict(touched, held(h), free_gpu_blocks)
                            ELSE {[cache |-> touched, refs |-> held(h), pool |-> free_gpu_blocks]}
<1>1. PICK h \in BM!Hits(radix_cache, tokens) :
        \E o \in outcomes(h) :
          t = [cached |-> cached(h), hit_len |-> Len(h), needed |-> needed(h),
               cache |-> o.cache, refs |-> o.refs, pool |-> o.pool]
  BY DEF BM!Attempts
<1> HIDE DEF cached, needed, outcomes
<1>2. CASE h = BM!Root
  BY <1>1, <1>2, LenProperties DEF BM!Root
<1>3. CASE h \in DOMAIN radix_cache.nodes /\ BM!IsPrefix(h, tokens)
  <2>1. h \in Seq(Token)
    BY <1>3 DEF BMP!IInv, BMP!TypeOK, BMP!Nodes
  <2> QED BY <1>1, <1>3, <2>1, LenProperties DEF BM!IsPrefix
<1> QED BY <1>2, <1>3 DEF BM!Hits, BM!Matched

-----------------------------------------------------------------------------
(* BM and BMP are the same block manager                                   *)

USE DEF BM!IsFiniteSet, BMP!IsFiniteSet, BM!Cardinality, BMP!Cardinality,
        BM!IsPrefix, BMP!IsPrefix, BM!IsStrictPrefix, BMP!IsStrictPrefix,
        BM!SetToSeqs, BMP!SetToSeqs, BM!SetToAllKPermutations, BMP!SetToAllKPermutations,
        BM!EmptyCache, BMP!EmptyCache, BM!Root, BMP!Root, BM!IsChild, BMP!IsChild,
        BM!Children, BMP!Children, BM!IsLeaf, BMP!IsLeaf, BM!PathBlocks, BMP!PathBlocks,
        BM!Slots, BMP!Slots, BM!Matched, BMP!Matched, BM!Hits, BMP!Hits,
        BM!Touch, BMP!Touch, BM!FoundLeaf, BMP!FoundLeaf, BM!Remaining, BMP!Remaining,
        BM!BlocksLeft, BMP!BlocksLeft, BM!EvictionRuns, BMP!EvictionRuns,
        BM!AfterEviction, BMP!AfterEviction, BM!EvictedLists, BMP!EvictedLists,
        BM!Entered, BMP!Entered, BM!VacantAt, BMP!VacantAt, BM!AddNode, BMP!AddNode,
        BM!Grown, BMP!Grown, BM!Insert, BMP!Insert, BM!vars, BMP!vars, BM!Block, BMP!Block,
        BM!Occurrences, BMP!Occurrences, BM!DivCeil, BMP!DivCeil, BM!Put, BMP!Put,
        BM!Removed, BMP!Removed, BM!Places, BMP!Places, BM!Visited, BMP!Visited,
        BM!PlacesOf, BMP!PlacesOf, BM!InVisitOrder, BMP!InVisitOrder,
        BM!ZeroingPlaces, BMP!ZeroingPlaces, BM!Popped, BMP!Popped, BM!Top, BMP!Top,
        BM!Evict, BMP!Evict, BM!Attempts, BMP!Attempts, BM!Grant, BMP!Grant,
        BM!Refuse, BMP!Refuse, BM!AllocateWithPrefix, BMP!AllocateWithPrefix,
        BM!AllocateRefused, BMP!AllocateRefused, BM!Allocate, BMP!Allocate,
        BM!Dropped, BMP!Dropped, BM!Deposited, BMP!Deposited,
        BM!PromptsLeft, BMP!PromptsLeft, BM!FreeToCache, BMP!FreeToCache,
        BM!FreeToPool, BMP!FreeToPool, BM!Init, BMP!Init, BM!Next, BMP!Next

LEMMA SameInit == BM!Init => BMP!Init
BY ZenonT(120)

LEMMA SameNext == [BM!Next]_manager => [BMP!Next]_(BMP!vars)
BY ZenonT(120) DEF manager

HIDE DEF BM!IsFiniteSet, BMP!IsFiniteSet, BM!Cardinality, BMP!Cardinality,
         BM!IsPrefix, BMP!IsPrefix, BM!IsStrictPrefix, BMP!IsStrictPrefix,
         BM!SetToSeqs, BMP!SetToSeqs, BM!SetToAllKPermutations, BMP!SetToAllKPermutations,
         BM!EmptyCache, BMP!EmptyCache, BM!Root, BMP!Root, BM!IsChild, BMP!IsChild,
         BM!Children, BMP!Children, BM!IsLeaf, BMP!IsLeaf, BM!PathBlocks, BMP!PathBlocks,
         BM!Slots, BMP!Slots, BM!Matched, BMP!Matched, BM!Hits, BMP!Hits,
         BM!Touch, BMP!Touch, BM!FoundLeaf, BMP!FoundLeaf, BM!Remaining, BMP!Remaining,
         BM!BlocksLeft, BMP!BlocksLeft, BM!EvictionRuns, BMP!EvictionRuns,
         BM!AfterEviction, BMP!AfterEviction, BM!EvictedLists, BMP!EvictedLists,
         BM!Entered, BMP!Entered, BM!VacantAt, BMP!VacantAt, BM!AddNode, BMP!AddNode,
         BM!Grown, BMP!Grown, BM!Insert, BMP!Insert, BM!vars, BMP!vars,
         BM!Block, BMP!Block, BM!Occurrences, BMP!Occurrences, BM!DivCeil, BMP!DivCeil,
         BM!Put, BMP!Put, BM!Removed, BMP!Removed, BM!Places, BMP!Places,
         BM!Visited, BMP!Visited, BM!PlacesOf, BMP!PlacesOf,
         BM!InVisitOrder, BMP!InVisitOrder, BM!ZeroingPlaces, BMP!ZeroingPlaces,
         BM!Popped, BMP!Popped, BM!Top, BMP!Top, BM!Evict, BMP!Evict,
         BM!Attempts, BMP!Attempts, BM!Grant, BMP!Grant, BM!Refuse, BMP!Refuse,
         BM!AllocateWithPrefix, BMP!AllocateWithPrefix,
         BM!AllocateRefused, BMP!AllocateRefused, BM!Allocate, BMP!Allocate,
         BM!Dropped, BMP!Dropped, BM!Deposited, BMP!Deposited,
         BM!PromptsLeft, BMP!PromptsLeft, BM!FreeToCache, BMP!FreeToCache,
         BM!FreeToPool, BMP!FreeToPool, BM!Init, BMP!Init, BM!Next, BMP!Next

\* A step of the manager keeps its invariant.
LEMMA ManagerKept ==
  ASSUME BMP!IInv, [BM!Next]_manager
  PROVE  BMP!IInv'
BY SameNext, ManagerAssumption, BMP!InductiveStep

-----------------------------------------------------------------------------
(* The initial state                                                       *)

LEMMA InitOK == Init => StateOK /\ BMP!IInv
<1> SUFFICES ASSUME Init
             PROVE  StateOK /\ BMP!IInv
  OBVIOUS
<1>1. BMP!IInv
  BY SameInit, ManagerAssumption, BMP!InitIInv DEF Init
<1>2. Waiting = {} /\ Running = {}
  BY DEF Init, Waiting, Running, ToSet
<1>3. DOMAIN requests = {}
  BY DEF Init
<1>4. QueuesOK
  BY <1>2, <1>3 DEF Init, QueuesOK, IsInjective
<1>5. TablesOK
  BY <1>2 DEF Init, BM!Init, TablesOK
<1>6. ClientsOK
  BY <1>3 DEF Init, ClientsOK
<1>7. WorkOK
  BY <1>2 DEF Init, WorkOK
<1> QED BY <1>1, <1>4, <1>5, <1>6, <1>7 DEF StateOK

-----------------------------------------------------------------------------
(* Steps that add or remove a request                                      *)

LEMMA AddRequestStep ==
  ASSUME StateOK, NEW r \in Req, AddRequest(r)
  PROVE  /\ StateOK'
         /\ Waiting' = Waiting \cup {r} /\ Running' = Running
         /\ r \notin DOMAIN requests
<1> USE DEF StateOK
<1>1. PICK tokens \in Prompts, max \in MaxTokens :
        requests' = [q \in DOMAIN requests \cup {r} |->
                       IF q = r THEN [prompt_tokens |-> tokens, max_tokens |-> max, generated |-> 0,
                                      prefill_cursor |-> 0, cached_prefix_len |-> 0]
                       ELSE requests[q]]
  BY DEF AddRequest
<1>2. r \notin DOMAIN requests /\ r \notin late /\ sent[r] = 0
  BY DEF AddRequest, ClientsOK
<1>3. /\ waiting_queue' \in Seq(Req) /\ Waiting' = Waiting \cup {r}
      /\ IsInjective(waiting_queue')
  BY <1>2, AppendElements DEF AddRequest, QueuesOK, Waiting
<1>4. running_queue' = running_queue /\ Running' = Running
  BY DEF AddRequest, Running
<1>5. /\ DOMAIN requests' = DOMAIN requests \cup {r}
      /\ requests'[r] = [prompt_tokens |-> tokens, max_tokens |-> max, generated |-> 0,
                         prefill_cursor |-> 0, cached_prefix_len |-> 0]
      /\ \A q \in DOMAIN requests : requests'[q] = requests[q]
  BY <1>1, <1>2
<1>6. QueuesOK'
  <2>1. tokens \in Seq(Token) /\ Len(tokens) \in Nat
    BY EngineAssumption, LenProperties
  <2>2. requests'[r] \in Request /\ Len(requests'[r].prompt_tokens) \in Nat
    BY <1>5, <2>1 DEF Request
  <2>3. r \notin Running
    BY <1>2 DEF QueuesOK
  <2> QED BY <1>3, <1>4, <1>5, <2>2, <2>3 DEF QueuesOK, PromptLen
<1>7. TablesOK'
  <2>1. UNCHANGED <<block_table, prompt_table>>
    BY DEF AddRequest, manager
  <2>2. \A q \in Running : q \in DOMAIN requests
    BY DEF QueuesOK
  <2> QED BY <1>4, <1>5, <2>1, <2>2 DEF TablesOK
<1>8. ClientsOK'
  <2>1. UNCHANGED <<late, now_late, sent, server, permit>> /\ api' = [api EXCEPT ![r] = "added"]
    BY DEF AddRequest, iteration
  <2>2. api' \in [Req -> {"idle", "added", "receiving", "done"}]
    BY <2>1 DEF ClientsOK
  <2>3. \A q \in Req : api'[q] = "idle" => q # r /\ api[q] = "idle"
    BY <2>1 DEF ClientsOK
  <2> QED BY <1>2, <1>5, <2>1, <2>2, <2>3 DEF ClientsOK
<1>9. WorkOK'
  BY <1>4 DEF AddRequest, iteration, work, WorkOK, Batched
<1> QED BY <1>2, <1>3, <1>4, <1>6, <1>7, <1>8, <1>9

\* finish_request, and the retain over the running queue.
LEMMA RemoveStep ==
  ASSUME StateOK, NEW r, BM!FreeToCache(r), UNCHANGED waiting_queue,
         running_queue' = Drop(running_queue, {r}), requests' = Without(requests, {r})
  PROVE  /\ QueuesOK' /\ TablesOK'
         /\ r \in Running /\ r \in Req
         /\ Waiting' = Waiting /\ Running' = Running \ {r}
         /\ DOMAIN requests' = DOMAIN requests \ {r}
         /\ \A q \in DOMAIN requests' : requests'[q] = requests[q]
         /\ [BM!Next]_manager
<1> USE DEF StateOK
<1>1. r \in Running /\ r \in Req
  <2>1. r \in Running
    BY DEF BM!FreeToCache, TablesOK
  <2> QED BY <2>1, LenProperties DEF QueuesOK, Running, ToSet
<1>2. /\ running_queue' \in Seq(Req) /\ Running' = Running \ {r}
      /\ IsInjective(running_queue')
  BY DropElements DEF QueuesOK, Running
<1>3. Waiting' = Waiting
  BY DEF Waiting
<1>4. /\ DOMAIN requests' = DOMAIN requests \ {r}
      /\ \A q \in DOMAIN requests' : requests'[q] = requests[q]
  BY DEF Without
<1>5. QueuesOK'
  BY <1>1, <1>2, <1>3, <1>4 DEF QueuesOK, PromptLen
<1>6. TablesOK'
  <2>1. /\ DOMAIN block_table' = DOMAIN block_table \ {r}
        /\ DOMAIN prompt_table' = DOMAIN prompt_table \ {r}
        /\ \A q \in DOMAIN prompt_table' : prompt_table'[q] = prompt_table[q]
    BY DEF BM!FreeToCache, BM!PromptsLeft, BM!Removed
  <2>2. \A q \in Running' : q \in DOMAIN requests'
    BY <1>2, <1>4 DEF QueuesOK
  <2> QED BY <1>2, <1>4, <2>1, <2>2 DEF TablesOK
<1>7. [BM!Next]_manager
  BY <1>1 DEF BM!Next
<1> QED BY <1>1, <1>2, <1>3, <1>4, <1>5, <1>6, <1>7

LEMMA ExpireRunningStep ==
  ASSUME StateOK, ExpireRunning
  PROVE  /\ StateOK' /\ [BM!Next]_manager
         /\ \E r \in Running \cap now_late :
              /\ Waiting' = Waiting /\ Running' = Running \ {r}
              /\ running_queue' = Drop(running_queue, {r})
              /\ DOMAIN requests' = DOMAIN requests \ {r}
              /\ \A q \in DOMAIN requests' : requests'[q] = requests[q]
<1> USE DEF StateOK
<1>1. PICK r \in now_late : /\ BM!FreeToCache(r)
                            /\ running_queue' = Drop(running_queue, {r})
                            /\ requests' = Without(requests, {r})
  BY DEF ExpireRunning
<1>2. /\ QueuesOK' /\ TablesOK'
      /\ r \in Running
      /\ Waiting' = Waiting /\ Running' = Running \ {r}
      /\ DOMAIN requests' = DOMAIN requests \ {r}
      /\ \A q \in DOMAIN requests' : requests'[q] = requests[q]
      /\ [BM!Next]_manager
  BY <1>1, RemoveStep DEF ExpireRunning
<1>3. ClientsOK'
  BY <1>2 DEF ExpireRunning, client, iteration, ClientsOK
<1>4. WorkOK'
  BY <1>2 DEF ExpireRunning, client, iteration, work, WorkOK, ClientsOK
<1> QED BY <1>1, <1>2, <1>3, <1>4

LEMMA FinishStep ==
  ASSUME StateOK, Finish
  PROVE  /\ StateOK' /\ [BM!Next]_manager
         /\ Waiting' = Waiting
         /\ finished # <<>> /\ finished' = Tail(finished)
         /\ Head(finished) \in Running /\ Running' = Running \ {Head(finished)}
         /\ running_queue' = Drop(running_queue, {Head(finished)})
         /\ DOMAIN requests' = DOMAIN requests \ {Head(finished)}
         /\ \A q \in DOMAIN requests' : requests'[q] = requests[q]
<1> USE DEF StateOK
<1> DEFINE r == Head(finished)
<1>1. /\ BM!FreeToCache(r)
      /\ running_queue' = Drop(running_queue, {r})
      /\ requests' = Without(requests, {r})
      /\ finished # <<>> /\ finished' = Tail(finished)
      /\ kv' = Without(kv, {r})
  BY DEF Finish, UnregisterRequest
<1> HIDE DEF r
<1>2. /\ QueuesOK' /\ TablesOK'
      /\ r \in Running
      /\ Waiting' = Waiting /\ Running' = Running \ {r}
      /\ DOMAIN requests' = DOMAIN requests \ {r}
      /\ \A q \in DOMAIN requests' : requests'[q] = requests[q]
      /\ [BM!Next]_manager
  BY <1>1, RemoveStep DEF Finish
<1>3. ClientsOK'
  BY <1>2 DEF Finish, client, iteration, ClientsOK
<1>4. WorkOK'
  <2>1. finished' \in Seq(Req)
    BY <1>1, TailElements DEF WorkOK
  <2>2. DOMAIN kv' = DOMAIN kv \ {r} /\ \A q \in DOMAIN kv' : kv'[q] = kv[q]
    BY <1>1 DEF Without
  <2> QED BY <1>2, <2>1, <2>2 DEF Finish, client, iteration, WorkOK
<1> QED BY <1>1, <1>2, <1>3, <1>4 DEF r

-----------------------------------------------------------------------------
(* The steps of the schedule                                               *)

\* What ListRunning lists, and what it leaves of the queue.
LEMMA ListRunningStep ==
  ASSUME StateOK, ListRunning
  PROVE  /\ StateOK'
         /\ Waiting' = Waiting \ now_late /\ Running' = Running
         /\ running_queue' = running_queue
         /\ DOMAIN requests' = DOMAIN requests \ (now_late \cap Waiting)
         /\ \A q \in DOMAIN requests' : requests'[q] = requests[q]
         /\ IsInjective(to_decode') /\ ToSet(to_decode') = {r \in Running : Prefilled(r)}
         /\ IsInjective(to_prefill') /\ ToSet(to_prefill') \subseteq {r \in Running : ~Prefilled(r)}
<1> USE DEF StateOK
<1> DEFINE ready == {r \in Running : Prefilled(r)}
           rest == Drop(running_queue, ready)
<1>1. /\ to_decode' = Filter(running_queue, ready)
      /\ to_prefill' = WithinBudget(to_decode', rest)
      /\ total_tokens' = TokensAt(to_decode', to_prefill', Len(to_prefill'))
      /\ waiting_queue' = Drop(waiting_queue, now_late)
      /\ requests' = Without(requests, now_late \cap Waiting)
      /\ worker' = "admitting" /\ running_queue' = running_queue
  BY DEF ListRunning
<1>2. to_decode' \in Seq(Req) /\ ToSet(to_decode') = ready /\ IsInjective(to_decode')
  <2>1. ToSet(to_decode') = Running \cap ready
    BY <1>1, FilterElements DEF QueuesOK, Running
  <2> QED BY <1>1, <2>1, FilterElements DEF QueuesOK
<1>3. rest \in Seq(Req) /\ ToSet(rest) = Running \ ready /\ IsInjective(rest)
  BY DropElements DEF QueuesOK, Running
<1>4. to_prefill' \in Seq(Req) /\ ToSet(to_prefill') \subseteq Running \ ready /\ IsInjective(to_prefill')
  <2> HIDE DEF rest
  <2> QED BY <1>1, <1>3, WithinBudgetPrefix
<1> HIDE DEF rest
<1>5. total_tokens' \in Nat
  <2>1. to_prefill' \in Seq(DOMAIN requests)
    BY <1>4, LenProperties DEF ToSet, QueuesOK
  <2>2. Len(to_prefill') \in 0..Len(to_prefill') /\ Len(to_decode') \in Nat
    BY <1>2, <1>4, LenProperties
  <2>3. Cardinality(ChunkTokens(to_prefill', Len(to_prefill'))) \in Nat
    BY <2>1, <2>2, TokensType
  <2> QED BY <1>1, <2>2, <2>3 DEF TokensAt
<1>6. /\ waiting_queue' \in Seq(Req) /\ Waiting' = Waiting \ now_late
      /\ IsInjective(waiting_queue')
  BY <1>1, DropElements DEF QueuesOK, Waiting
<1>7. Running' = Running
  BY <1>1 DEF Running
<1>8. /\ DOMAIN requests' = DOMAIN requests \ (now_late \cap Waiting)
      /\ \A q \in DOMAIN requests' : requests'[q] = requests[q]
  BY <1>1 DEF Without
<1>9. QueuesOK'
  BY <1>1, <1>6, <1>7, <1>8 DEF QueuesOK, PromptLen
<1>10. TablesOK'
  <2>1. \A q \in Running : q \in DOMAIN requests'
    BY <1>8 DEF QueuesOK
  <2> QED BY <1>7, <1>8, <2>1 DEF ListRunning, manager, TablesOK
<1>11. ClientsOK'
  BY <1>8 DEF ListRunning, client, ClientsOK
<1>12. WorkOK'
  BY <1>1, <1>2, <1>4, <1>5, <1>7 DEF ListRunning, client, work, WorkOK
<1> QED BY <1>1, <1>2, <1>4, <1>6, <1>7, <1>8, <1>9, <1>10, <1>11, <1>12

\* What Admit does to the front of the waiting queue.
LEMMA AdmitStep ==
  ASSUME StateOK, BMP!IInv, Admit, NEW r, r = Head(waiting_queue)
  PROVE  /\ StateOK' /\ [BM!Next]_manager
         /\ r \in Waiting /\ waiting_queue # <<>> /\ waiting_queue' = Tail(waiting_queue)
         /\ Waiting' = Waiting \ {r} /\ Running' = Running \cup {r}
         /\ running_queue' = Append(running_queue, r)
         /\ DOMAIN requests' = DOMAIN requests
         /\ \A q \in DOMAIN requests \ {r} : requests'[q] = requests[q]
         /\ \E hit_len \in 0..PromptLen(r) :
              requests'[r] = [requests[r] EXCEPT !.cached_prefix_len = hit_len,
                                                 !.prefill_cursor = hit_len]
         /\ PromptLen(r) \in Nat /\ PromptLen(r)' = PromptLen(r)
         /\ Prefilled(r)' =>
              /\ to_decode' = Append(to_decode, r) /\ to_prefill' = to_prefill
              /\ total_tokens' = total_tokens + 1
         /\ ~Prefilled(r)' =>
              /\ to_prefill' = Append(to_prefill, r) /\ to_decode' = to_decode
              /\ total_tokens' = total_tokens + Chunk(r)'
<1> USE DEF StateOK
<1> DEFINE tokens == requests[r].prompt_tokens
<1>1. waiting_queue # <<>> /\ worker = "admitting" /\ total_tokens < max_tokens_per_iter
  BY DEF Admit, MayAdmit
<1>2. PICK t \in BM!Attempts(tokens) :
        /\ BM!Grant(r, tokens, t)
        /\ requests' = [requests EXCEPT ![r].cached_prefix_len = t.hit_len,
                                        ![r].prefill_cursor = t.hit_len]
        /\ \/ /\ Len(tokens) - t.hit_len > 0
              /\ to_prefill' = Append(to_prefill, r)
              /\ total_tokens' = total_tokens
                                   + Least(Len(tokens) - t.hit_len, max_prefill_chunk_size)
              /\ UNCHANGED to_decode
           \/ /\ Len(tokens) - t.hit_len = 0
              /\ to_decode' = Append(to_decode, r)
              /\ total_tokens' = total_tokens + 1
              /\ UNCHANGED to_prefill
  BY DEF Admit, TokensToAllocate
<1>3. /\ r \in Req /\ r \in Waiting
      /\ waiting_queue' \in Seq(Req) /\ Waiting' = Waiting \ {r} /\ IsInjective(waiting_queue')
  <2> DEFINE rest == Tail(waiting_queue)
  <2>1. waiting_queue' = rest
    BY DEF Admit, PopFront
  <2>2. /\ r \in Req /\ rest \in Seq(Req)
        /\ Waiting = ToSet(rest) \cup {r} /\ IsInjective(rest) /\ r \notin ToSet(rest)
    BY <1>1, TailElements DEF QueuesOK, Waiting
  <2>3. Waiting' = ToSet(rest)
    BY <2>1 DEF Waiting
  <2> QED BY <2>1, <2>2, <2>3
<1>4. r \in DOMAIN requests /\ r \notin Running /\ requests[r] \in Request
  BY <1>3 DEF QueuesOK
<1>5. /\ running_queue' = Append(running_queue, r)
      /\ running_queue' \in Seq(Req) /\ Running' = Running \cup {r} /\ IsInjective(running_queue')
  <2>1. running_queue' = Append(running_queue, r)
    BY DEF Admit
  <2> QED BY <2>1, <1>3, <1>4, AppendElements DEF QueuesOK, Running
<1>6. tokens \in Prompts /\ tokens \in Seq(Token) /\ Len(tokens) \in Nat
  BY <1>4, EngineAssumption, LenProperties DEF Request
<1>7. t.hit_len \in 0..Len(tokens)
  BY <1>6, HitLength
<1>8. /\ DOMAIN requests' = DOMAIN requests
      /\ \A q \in DOMAIN requests \ {r} : requests'[q] = requests[q]
      /\ requests'[r] = [requests[r] EXCEPT !.cached_prefix_len = t.hit_len,
                                            !.prefill_cursor = t.hit_len]
  BY <1>2, <1>4
<1>9. /\ requests'[r] \in Request
      /\ requests'[r].prompt_tokens = tokens /\ requests'[r].generated = requests[r].generated
      /\ requests'[r].cached_prefix_len = t.hit_len /\ requests'[r].prefill_cursor = t.hit_len
  <2> DEFINE old == requests[r]
  <2>1. /\ old \in Request /\ t.hit_len \in Nat
        /\ requests'[r] = [old EXCEPT !.cached_prefix_len = t.hit_len, !.prefill_cursor = t.hit_len]
        /\ tokens = old.prompt_tokens
    BY <1>4, <1>6, <1>7, <1>8
  <2> HIDE DEF old, tokens
  <2>2. requests'[r] = [prompt_tokens |-> tokens, max_tokens |-> old.max_tokens,
                        generated |-> old.generated, prefill_cursor |-> t.hit_len,
                        cached_prefix_len |-> t.hit_len]
    BY <2>1 DEF Request
  <2>3. old.generated = requests[r].generated
    BY DEF old
  <2> QED BY <2>1, <2>2, <2>3 DEF Request
<1>10. QueuesOK'
  <2>1. \A q \in DOMAIN requests' : requests'[q] \in Request
    BY <1>8, <1>9 DEF QueuesOK
  <2>2. \A q \in DOMAIN requests' : /\ requests'[q].cached_prefix_len <= requests'[q].prefill_cursor
                                    /\ requests'[q].prefill_cursor <= Len(requests'[q].prompt_tokens)
    <3> SUFFICES ASSUME NEW q \in DOMAIN requests'
                 PROVE  /\ requests'[q].cached_prefix_len <= requests'[q].prefill_cursor
                        /\ requests'[q].prefill_cursor <= Len(requests'[q].prompt_tokens)
      OBVIOUS
    <3>1. CASE q = r
      <4> HIDE DEF tokens
      <4> QED BY <3>1, <1>6, <1>7, <1>9
    <3>2. CASE q # r
      <4>1. requests'[q] = requests[q] /\ q \in DOMAIN requests
        BY <3>2, <1>8
      <4> QED BY <4>1 DEF QueuesOK, PromptLen
    <3> QED BY <3>1, <3>2
  <2>3. DOMAIN requests' = Waiting' \cup Running' /\ Waiting' \cap Running' = {}
    BY <1>3, <1>4, <1>5, <1>8 DEF QueuesOK
  <2> QED BY <1>3, <1>5, <2>1, <2>2, <2>3 DEF QueuesOK, PromptLen
<1>11. TablesOK' /\ [BM!Next]_manager
  <2>1. /\ block_table' = BM!Put(block_table, r, t.cached \o BM!Top(t.pool, t.needed))
        /\ prompt_table' = BM!Put(prompt_table, r, tokens)
    BY <1>2 DEF BM!Grant
  <2>2. /\ DOMAIN block_table' = DOMAIN block_table \cup {r}
        /\ DOMAIN prompt_table' = DOMAIN prompt_table \cup {r}
        /\ prompt_table'[r] = tokens
        /\ \A q \in DOMAIN prompt_table \ {r} : prompt_table'[q] = prompt_table[q]
    BY <2>1 DEF BM!Put
  <2>3. TablesOK'
    BY <1>4, <1>5, <1>8, <1>9, <2>2 DEF TablesOK, QueuesOK
  <2>4. r \notin DOMAIN block_table
    BY <1>4 DEF TablesOK
  <2>5. BM!AllocateWithPrefix(r, tokens)
    BY <1>2, <2>4 DEF BM!AllocateWithPrefix
  <2>6. BM!Next
    BY <1>3, <1>6, <2>5 DEF BM!Next
  <2> QED BY <2>3, <2>6
<1>12. ClientsOK'
  BY <1>8, <1>9 DEF Admit, client, ClientsOK
<1>13. Prefilled(r)' <=> Len(tokens) - t.hit_len = 0
  BY <1>6, <1>7, <1>9 DEF Prefilled, PromptLen
<1>14. Chunk(r)' = Least(Len(tokens) - t.hit_len, max_prefill_chunk_size)
  BY <1>9 DEF Chunk, PromptLen
<1>15. /\ Prefilled(r)' =>
            /\ to_decode' = Append(to_decode, r) /\ to_prefill' = to_prefill
            /\ total_tokens' = total_tokens + 1
       /\ ~Prefilled(r)' =>
            /\ to_prefill' = Append(to_prefill, r) /\ to_decode' = to_decode
            /\ total_tokens' = total_tokens + Chunk(r)'
  BY <1>2, <1>6, <1>7, <1>13, <1>14
<1>16. WorkOK'
  <2>1. total_tokens' \in Nat
    <3>1. Chunk(r)' \in Nat
      BY <1>6, <1>7, <1>14, EngineAssumption DEF Least
    <3> QED BY <1>15, <3>1 DEF WorkOK
  <2>2. /\ to_prefill' \in Seq(Req) /\ to_decode' \in Seq(Req)
        /\ ToSet(to_prefill') \subseteq Running' /\ ToSet(to_decode') \subseteq Running'
    <3>1. ToSet(to_prefill) \subseteq Running /\ ToSet(to_decode) \subseteq Running
      BY <1>1 DEF WorkOK
    <3>2. /\ Append(to_prefill, r) \in Seq(Req)
          /\ ToSet(Append(to_prefill, r)) = ToSet(to_prefill) \cup {r}
      BY <1>3, AppendElements DEF WorkOK
    <3>3. /\ Append(to_decode, r) \in Seq(Req)
          /\ ToSet(Append(to_decode, r)) = ToSet(to_decode) \cup {r}
      BY <1>3, AppendElements DEF WorkOK
    <3> QED BY <1>5, <1>15, <3>1, <3>2, <3>3 DEF WorkOK
  <2>3. UNCHANGED <<worker, finished, batch, computed, num_layers, kv, late>>
    BY DEF Admit, client, work
  <2> QED BY <1>1, <1>5, <2>1, <2>2, <2>3 DEF WorkOK
<1>17. waiting_queue' = Tail(waiting_queue)
  BY DEF Admit, PopFront
<1>18. PromptLen(r) = Len(tokens) /\ PromptLen(r)' = Len(tokens)
  BY <1>9 DEF PromptLen
<1> QED BY <1>1, <1>3, <1>5, <1>6, <1>7, <1>8, <1>10, <1>11, <1>12, <1>15, <1>16, <1>17, <1>18

LEMMA AdmitRefusedStep ==
  ASSUME StateOK, AdmitRefused, NEW r, r = Head(waiting_queue)
  PROVE  StateOK' /\ [BM!Next]_manager
<1> USE DEF StateOK
<1> DEFINE tokens == requests[r].prompt_tokens
<1>1. waiting_queue # <<>> /\ worker = "admitting" /\ worker' = "assembling"
  BY DEF AdmitRefused, MayAdmit
<1>2. PICK t \in BM!Attempts(tokens) : BM!Refuse(t)
  BY DEF AdmitRefused, TokensToAllocate
<1>3. r \in Req /\ r \in Waiting
  <2> DEFINE rest == Tail(waiting_queue)
  <2>1. r \in Req /\ Waiting = ToSet(rest) \cup {r}
    BY <1>1, TailElements DEF QueuesOK, Waiting
  <2> QED BY <2>1
<1>4. tokens \in Prompts /\ r \notin DOMAIN block_table
  BY <1>3 DEF QueuesOK, TablesOK, Request
<1>5. BM!AllocateRefused(r, tokens)
  BY <1>2, <1>4 DEF BM!AllocateRefused
<1>6. BM!Next
  BY <1>3, <1>4, <1>5 DEF BM!Next
<1>7. QueuesOK' /\ Running' = Running
  BY QueuesFrame DEF AdmitRefused
<1>8. TablesOK'
  BY <1>2, <1>7 DEF AdmitRefused, queues, BM!Refuse, TablesOK
<1>9. ClientsOK'
  BY ClientsFrame DEF AdmitRefused, queues, iteration
<1>10. WorkOK'
  <2>1. UNCHANGED <<to_prefill, to_decode, total_tokens, work, running_queue, late>>
    BY DEF AdmitRefused, queues, client, iteration
  <2> QED BY <1>1, <2>1 DEF work, WorkOK, Running
<1> QED BY <1>6, <1>7, <1>8, <1>9, <1>10

-----------------------------------------------------------------------------
(* The steps of an iteration                                               *)

\* The batch: the items of the prefills, then those of the decodes.
LEMMA ItemsType ==
  ASSUME QueuesOK, to_prefill \in Seq(Req), to_decode \in Seq(Req),
         ToSet(to_prefill) \subseteq Running, ToSet(to_decode) \subseteq Running,
         NEW m, m = Len(to_prefill), NEW n, n = Len(to_decode)
  PROVE  /\ m \in Nat /\ n \in Nat
         /\ Items \in Seq(BatchItem) /\ Len(Items) = m + n
         /\ \A i \in 1..m : Items[i] = PrefillItem(to_prefill[i]) /\ to_prefill[i] \in Running
         /\ \A i \in 1..n : Items[m + i] = DecodeItem(to_decode[i]) /\ to_decode[i] \in Running
         /\ \A i \in 1..m + n : i \in 1..m \/ \E j \in 1..n : i = m + j
<1> DEFINE P == [i \in DOMAIN to_prefill |-> PrefillItem(to_prefill[i])]
           D == [i \in DOMAIN to_decode |-> DecodeItem(to_decode[i])]
<1>1. /\ m \in Nat /\ DOMAIN to_prefill = 1..m /\ n \in Nat /\ DOMAIN to_decode = 1..n
      /\ \A i \in 1..m : to_prefill[i] \in Running /\ to_prefill[i] \in Req
      /\ \A i \in 1..n : to_decode[i] \in Running /\ to_decode[i] \in Req
  BY LenProperties DEF ToSet
<1>2. ASSUME NEW r \in Running, r \in Req
      PROVE  PrefillItem(r) \in BatchItem /\ DecodeItem(r) \in BatchItem
  <2>1. r \in DOMAIN requests
    BY DEF QueuesOK
  <2>2. Chunk(r) \in Nat /\ requests[r].generated \in Nat
    BY <2>1, ChunkType, EngineAssumption DEF QueuesOK, Request
  <2> QED BY <1>2, <2>2 DEF PrefillItem, DecodeItem, BatchItem
<1>3. P \in Seq(BatchItem) /\ Len(P) = m /\ \A i \in 1..m : P[i] = PrefillItem(to_prefill[i])
  BY <1>1, <1>2
<1>4. D \in Seq(BatchItem) /\ Len(D) = n /\ \A i \in 1..n : D[i] = DecodeItem(to_decode[i])
  BY <1>1, <1>2
<1>5. Items = P \o D
  BY DEF Items
<1> HIDE DEF P, D
<1>6. /\ Items \in Seq(BatchItem) /\ Len(Items) = m + n
      /\ \A i \in 1..m : Items[i] = P[i]
      /\ \A i \in 1..n : Items[m + i] = D[i]
      /\ \A i \in 1..m + n : i \in 1..m \/ \E j \in 1..n : i = m + j
  <2>0. P \in Seq(BatchItem) /\ D \in Seq(BatchItem)
    BY <1>3, <1>4
  <2>1. /\ P \o D \in Seq(BatchItem) /\ Len(P \o D) = Len(P) + Len(D)
        /\ \A i \in 1..Len(P) : (P \o D)[i] = P[i]
        /\ \A i \in 1..Len(D) : (P \o D)[Len(P) + i] = D[i]
    BY <2>0, ConcatPlaces
  <2>2. ASSUME NEW i \in 1..m + n, i \notin 1..m
        PROVE  \E j \in 1..n : i = m + j
    <3>1. i - m \in 1..n /\ i = m + (i - m)
      BY <1>1, <2>2
    <3> QED BY <3>1
  <2> QED BY <1>3, <1>4, <1>5, <2>1, <2>2
<1> QED BY <1>1, <1>3, <1>4, <1>6

\* What Apply makes of the requests.
LEMMA ApplyStep ==
  ASSUME StateOK, Apply
  PROVE  /\ StateOK'
         /\ Waiting' = Waiting /\ Running' = Running
         /\ DOMAIN requests' = DOMAIN requests
         /\ \A r \in DOMAIN requests :
              /\ requests'[r].prompt_tokens = requests[r].prompt_tokens
              /\ requests'[r].max_tokens = requests[r].max_tokens
              /\ requests'[r].cached_prefix_len = requests[r].cached_prefix_len
              /\ requests'[r].generated = requests[r].generated + (IF r \in Batched THEN 1 ELSE 0)
              /\ requests'[r].prefill_cursor =
                   requests[r].prefill_cursor + (IF r \in ToSet(to_prefill) THEN Chunk(r) ELSE 0)
         /\ finished' \in Seq(Req) /\ IsInjective(finished')
         /\ ToSet(finished') \subseteq Running
         /\ \A r \in Running : requests'[r].generated >= requests'[r].max_tokens
                                 => r \in ToSet(finished')
         /\ \A r \in ToSet(finished') : r \in Batched \/ requests'[r].generated >= requests'[r].max_tokens
<1> USE DEF StateOK
<1>1. PICK stopped \in SUBSET Batched :
        finished' = Filter(running_queue, {r \in Running : Complete(requests'[r])} \cup stopped)
  BY DEF Apply, Served
<1> DEFINE gained(r) == IF r \in Batched THEN 1 ELSE 0
           moved(r) == IF r \in ToSet(to_prefill) THEN Chunk(r) ELSE 0
<1>2. worker = "computing" /\ Batched \subseteq Running
  BY DEF Apply, WorkOK
<1>3. /\ DOMAIN requests' = DOMAIN requests
      /\ \A r \in DOMAIN requests :
           requests'[r] = [requests[r] EXCEPT
                             !.generated = @ + gained(r),
                             !.prefill_cursor = IF r \in ToSet(to_prefill)
                                                  THEN Advanced(@, PromptLen(r)) ELSE @]
  BY DEF Apply, Served, ToSet
<1>4. ASSUME NEW r \in DOMAIN requests
      PROVE  /\ requests'[r].prompt_tokens = requests[r].prompt_tokens
             /\ requests'[r].max_tokens = requests[r].max_tokens
             /\ requests'[r].cached_prefix_len = requests[r].cached_prefix_len
             /\ requests'[r].generated = requests[r].generated + gained(r)
             /\ requests'[r].prefill_cursor = requests[r].prefill_cursor + moved(r)
             /\ requests'[r] \in Request
             /\ requests'[r].cached_prefix_len <= requests'[r].prefill_cursor
             /\ requests'[r].prefill_cursor <= Len(requests'[r].prompt_tokens)
  <2>1. /\ requests[r] \in Request
        /\ requests[r].cached_prefix_len <= requests[r].prefill_cursor
        /\ requests[r].prefill_cursor <= PromptLen(r)
    BY DEF QueuesOK
  <2>2. /\ Chunk(r) \in Nat /\ PromptLen(r) \in Nat
        /\ requests[r].prefill_cursor + Chunk(r) <= PromptLen(r)
        /\ Advanced(requests[r].prefill_cursor, PromptLen(r)) = requests[r].prefill_cursor + Chunk(r)
    BY ChunkType, EngineAssumption
  <2>3. moved(r) \in Nat /\ requests[r].prefill_cursor + moved(r) <= PromptLen(r)
    BY <2>1, <2>2 DEF Request
  <2>4. gained(r) \in Nat
    OBVIOUS
  <2>5. requests'[r] = [requests[r] EXCEPT
                          !.generated = requests[r].generated + gained(r),
                          !.prefill_cursor = requests[r].prefill_cursor + moved(r)]
    <3>1. (IF r \in ToSet(to_prefill) THEN Advanced(requests[r].prefill_cursor, PromptLen(r))
             ELSE requests[r].prefill_cursor) = requests[r].prefill_cursor + moved(r)
      BY <2>1, <2>2 DEF Request
    <3> HIDE DEF gained, moved
    <3> QED BY <1>3, <3>1
  <2> HIDE DEF gained, moved
  <2>6. requests'[r] = [prompt_tokens |-> requests[r].prompt_tokens,
                        max_tokens |-> requests[r].max_tokens,
                        generated |-> requests[r].generated + gained(r),
                        prefill_cursor |-> requests[r].prefill_cursor + moved(r),
                        cached_prefix_len |-> requests[r].cached_prefix_len]
    BY <2>1, <2>5 DEF Request
  <2>7. requests'[r] \in Request
    BY <2>1, <2>3, <2>4, <2>6 DEF Request
  <2>8. /\ requests'[r].cached_prefix_len <= requests'[r].prefill_cursor
        /\ requests'[r].prefill_cursor <= Len(requests'[r].prompt_tokens)
    BY <2>1, <2>3, <2>6 DEF Request, PromptLen
  <2> QED BY <2>6, <2>7, <2>8
<1>5. UNCHANGED <<waiting_queue, running_queue>> /\ Waiting' = Waiting /\ Running' = Running
  BY DEF Apply, Waiting, Running
<1>6. QueuesOK'
  BY <1>3, <1>4, <1>5 DEF QueuesOK, PromptLen
<1>7. TablesOK'
  <2>1. \A r \in Running : r \in DOMAIN requests
    BY DEF QueuesOK
  <2>2. UNCHANGED <<block_table, prompt_table>>
    BY DEF Apply, manager
  <2>3. \A r \in DOMAIN requests : requests'[r].prompt_tokens = requests[r].prompt_tokens
    BY <1>4
  <2> QED BY <1>5, <2>1, <2>2, <2>3 DEF TablesOK
<1>8. ClientsOK'
  <2>1. sent' = [r \in Req |-> sent[r] + gained(r)]
    BY DEF Apply, Served
  <2>2. sent' \in [Req -> Nat]
    BY <2>1 DEF ClientsOK
  <2>3. \A r \in Req : api[r] = "idle" => r \notin Batched
    BY <1>2 DEF ClientsOK, QueuesOK
  <2>4. \A r \in DOMAIN requests : r \in Req
    BY LenProperties DEF QueuesOK, Waiting, Running, ToSet
  <2>5. \A r \in DOMAIN requests : sent'[r] = requests'[r].generated
    <3>1. \A r \in DOMAIN requests : requests'[r].generated = requests[r].generated + gained(r)
      BY <1>4
    <3> HIDE DEF gained
    <3> QED BY <2>1, <2>4, <3>1 DEF ClientsOK
  <2>6. UNCHANGED <<api, late, server, permit>> /\ now_late' = {}
    BY DEF Apply
  <2>7. \A r \in Req : api[r] = "idle" => sent'[r] = 0
    BY <2>1, <2>3 DEF ClientsOK
  <2> HIDE DEF gained
  <2> QED BY <1>3, <2>2, <2>5, <2>6, <2>7 DEF ClientsOK
<1>9. /\ finished' \in Seq(Req) /\ IsInjective(finished')
      /\ ToSet(finished') = Running \cap ({r \in Running : Complete(requests'[r])} \cup stopped)
  BY <1>1, FilterElements DEF QueuesOK, Running
<1>10. WorkOK'
  <2>1. /\ worker' = "finishing" /\ batch' = <<>> /\ computed' = 0
        /\ to_prefill' = <<>> /\ to_decode' = <<>> /\ total_tokens' = 0
        /\ UNCHANGED <<late, num_layers, kv>>
    BY DEF Apply
  <2>2. <<>> \in Seq(Req) /\ <<>> \in Seq(BatchItem) /\ Len(<<>>) = 0
    BY EmptySeq
  <2> QED BY <1>5, <1>9, <2>1, <2>2 DEF WorkOK
<1>11. /\ \A r \in Running : requests'[r].generated >= requests'[r].max_tokens
                                => r \in ToSet(finished')
       /\ \A r \in ToSet(finished') : r \in Batched \/ requests'[r].generated >= requests'[r].max_tokens
  BY <1>9 DEF Complete
<1> HIDE DEF gained, moved
<1>12. \A r \in DOMAIN requests :
         /\ requests'[r].prompt_tokens = requests[r].prompt_tokens
         /\ requests'[r].max_tokens = requests[r].max_tokens
         /\ requests'[r].cached_prefix_len = requests[r].cached_prefix_len
         /\ requests'[r].generated = requests[r].generated + gained(r)
         /\ requests'[r].prefill_cursor = requests[r].prefill_cursor + moved(r)
  BY <1>4
<1> QED BY <1>3, <1>5, <1>6, <1>7, <1>8, <1>9, <1>10, <1>11, <1>12 DEF gained, moved

LEMMA AssembleStep ==
  ASSUME StateOK, Assemble
  PROVE  StateOK'
<1> USE DEF StateOK
<1> DEFINE m == Len(to_prefill)
           n == Len(to_decode)
           fresh == {Items[i].req : i \in {j \in DOMAIN Items : Items[j].needs_cache_lookup}}
<1>1. /\ worker = "assembling" /\ worker' = "computing"
      /\ batch' = Items /\ computed' = 0 /\ kv' = RegisterRequests(fresh)
  BY DEF Assemble
<1>2. /\ m \in Nat /\ n \in Nat
      /\ Items \in Seq(BatchItem) /\ Len(Items) = m + n
      /\ \A i \in 1..m : Items[i] = PrefillItem(to_prefill[i]) /\ to_prefill[i] \in Running
      /\ \A i \in 1..n : Items[m + i] = DecodeItem(to_decode[i]) /\ to_decode[i] \in Running
      /\ \A i \in 1..m + n : i \in 1..m \/ \E j \in 1..n : i = m + j
  BY <1>1, ItemsType DEF WorkOK
<1> HIDE DEF m, n
<1>3. \A i \in DOMAIN Items : Items[i].req \in Running
  <2> SUFFICES ASSUME NEW i \in DOMAIN Items
               PROVE  Items[i].req \in Running
    OBVIOUS
  <2>1. i \in 1..m + n
    BY <1>2, LenProperties
  <2>2. CASE i \in 1..m
    <3>1. Items[i] = PrefillItem(to_prefill[i]) /\ to_prefill[i] \in Running
      BY <2>2, <1>2
    <3>2. PrefillItem(to_prefill[i]).req = to_prefill[i]
      BY DEF PrefillItem
    <3> HIDE DEF Items
    <3> QED BY <3>1, <3>2
  <2>3. ASSUME NEW j \in 1..n, i = m + j
        PROVE  Items[i].req \in Running
    <3>1. Items[i] = DecodeItem(to_decode[j]) /\ to_decode[j] \in Running
      BY <2>3, <1>2
    <3>2. DecodeItem(to_decode[j]).req = to_decode[j]
      BY DEF DecodeItem
    <3> QED BY <3>1, <3>2
  <2> QED BY <2>1, <2>2, <2>3, <1>2
<1>4. DOMAIN kv' = DOMAIN kv \cup fresh /\ \A r \in DOMAIN kv' : kv'[r] = IF r \in fresh THEN 0 ELSE kv[r]
  BY <1>1 DEF RegisterRequests
<1>5. fresh \subseteq Running
  BY <1>3
<1> HIDE DEF fresh
<1>6. QueuesOK' /\ Running' = Running
  BY QueuesFrame DEF Assemble
<1>7. TablesOK'
  BY TablesFrame DEF Assemble
<1>8. ClientsOK'
  BY ClientsFrame DEF Assemble, queues, iteration
<1>9. WorkOK'
  <2>1. Batched' \subseteq Running
    BY <1>1, <1>3 DEF Batched
  <2>2. computed' \in 0..Len(batch')
    BY <1>1, <1>2
  <2>3. DOMAIN kv' \subseteq Running \cup late /\ \A r \in DOMAIN kv' : kv'[r] \in Nat
    BY <1>4, <1>5 DEF WorkOK
  <2> QED BY <1>1, <1>2, <1>6, <2>1, <2>2, <2>3 DEF Assemble, client, iteration, WorkOK
<1> QED BY <1>6, <1>7, <1>8, <1>9

LEMMA ForwardStep ==
  ASSUME StateOK, Forward
  PROVE  StateOK'
<1> USE DEF StateOK
<1>1. QueuesOK' /\ Running' = Running
  BY QueuesFrame DEF Forward
<1>2. TablesOK'
  BY TablesFrame DEF Forward
<1>3. ClientsOK'
  BY ClientsFrame DEF Forward, queues, iteration
<1>4. computed \in Nat /\ computed' = computed + 1 /\ computed' <= Len(batch) /\ Len(batch) \in Nat
  BY LenProperties DEF Forward, AtItem, WorkOK
<1>5. DOMAIN kv' = DOMAIN kv /\ \A r \in DOMAIN kv' : kv'[r] \in Nat
  <2>1. CASE num_layers = 0
    BY <2>1 DEF Forward, WorkOK
  <2>2. CASE num_layers > 0
    <3>1. computed + 1 \in 1..Len(batch)
      BY <1>4
    <3>2. Item \in BatchItem
      BY <3>1, ElementOfSeq DEF Item, WorkOK
    <3>3. Item.input \in Nat
      BY <3>2 DEF BatchItem
    <3>4. num_layers \in Nat
      BY EngineAssumption DEF WorkOK
    <3>5. num_layers * Item.input \in Nat
      BY <3>3, <3>4
    <3>6. Item.req \in DOMAIN kv /\ kv' = AppendKV(Item.req, num_layers * Item.input)
      BY <2>2, <3>4 DEF Forward
    <3> QED BY <3>5, <3>6 DEF AppendKV, WorkOK
  <2> QED BY <2>1, <2>2 DEF Forward
<1>6. WorkOK'
  BY <1>1, <1>4, <1>5 DEF Forward, client, iteration, WorkOK, Batched
<1> QED BY <1>1, <1>2, <1>3, <1>6

-----------------------------------------------------------------------------
(* The invariant holds                                                     *)

\* The steps that change neither the manager nor the queues.
Quiet == \/ ShutdownSignal \/ ServerEnds \/ StartSchedule \/ AdmitEnd
         \/ ForwardPanics \/ ForwardFails
         \/ Sleep \/ Wait \/ Wake \/ EndIteration
         \/ \E r \in Req : Handler(r) \/ DeadlinePasses(r)
         \/ UNCHANGED vars

LEMMA QuietStep ==
  ASSUME StateOK, Quiet
  PROVE  StateOK' /\ UNCHANGED <<manager, queues>>
<1> USE DEF StateOK
<1>1. UNCHANGED <<manager, queues>>
  BY DEF Quiet, ShutdownSignal, ServerEnds, StartSchedule, AdmitEnd, ForwardPanics, ForwardFails,
         Sleep, Wait, Wake, EndIteration, Handler, NotifyOne, Respond, DeadlinePasses, vars
<1>2. QueuesOK' /\ TablesOK' /\ Running' = Running /\ requests' = requests
  BY <1>1, QueuesFrame, TablesFrame DEF queues
<1>3. ClientsOK'
  <2>1. CASE StartSchedule \/ Sleep
    BY <2>1, <1>2 DEF StartSchedule, Sleep, client, ClientsOK
  <2>2. CASE ShutdownSignal \/ ServerEnds \/ Wake
    BY <2>2, <1>2 DEF ShutdownSignal, ServerEnds, Wake, client, iteration, ClientsOK
  <2>3. CASE AdmitEnd \/ ForwardPanics \/ ForwardFails \/ Wait \/ EndIteration \/ UNCHANGED vars
    <3>1. UNCHANGED <<client, permit, now_late, requests>>
      BY <2>3, <1>2 DEF AdmitEnd, ForwardPanics, ForwardFails, Wait, EndIteration, vars, iteration
    <3> QED BY <3>1, ClientsFrame
  <2>4. ASSUME NEW r \in Req, NotifyOne(r) \/ Respond(r)
        PROVE  ClientsOK'
    <3>1. /\ UNCHANGED <<late, now_late, sent, server>> /\ permit' \in BOOLEAN
          /\ api[r] # "idle"
          /\ api' = [api EXCEPT ![r] = "receiving"] \/ api' = [api EXCEPT ![r] = "done"]
      BY <2>4 DEF NotifyOne, Respond, iteration, ClientsOK
    <3>2. api' \in [Req -> {"idle", "added", "receiving", "done"}]
      BY <3>1 DEF ClientsOK
    <3>3. \A q \in Req : api'[q] = "idle" => api[q] = "idle"
      BY <3>1 DEF ClientsOK
    <3> QED BY <1>2, <3>1, <3>2, <3>3 DEF ClientsOK
  <2>5. ASSUME NEW r \in Req, DeadlinePasses(r)
        PROVE  ClientsOK'
    <3>1. /\ late' = late \cup {r} /\ r \in DOMAIN requests
          /\ UNCHANGED <<api, sent, server, permit, now_late>>
      BY <2>5 DEF DeadlinePasses, iteration
    <3> QED BY <1>2, <3>1 DEF ClientsOK
  <2> QED BY <2>1, <2>2, <2>3, <2>4, <2>5 DEF Quiet, Handler
<1>4. WorkOK'
  <2>1. CASE \E r \in Req : DeadlinePasses(r)
    BY <2>1, <1>2 DEF DeadlinePasses, iteration, work, WorkOK, Batched
  <2>2. CASE ~\E r \in Req : DeadlinePasses(r)
    <3>1. UNCHANGED <<to_prefill, to_decode, total_tokens, work, running_queue, late>>
      BY <2>2, <1>1 DEF Quiet, ShutdownSignal, ServerEnds, StartSchedule, AdmitEnd, ForwardPanics,
         ForwardFails, Sleep, Wait, Wake, EndIteration, Handler, NotifyOne, Respond, vars,
         queues, client, iteration
    <3>2. \/ worker' \in {"ready", "expiring", "idle", "asleep", "finishing", "dead"}
          \/ worker' = worker
          \/ worker' = "assembling" /\ worker = "admitting"
      BY <2>2 DEF Quiet, ShutdownSignal, ServerEnds, StartSchedule, AdmitEnd, ForwardPanics,
         ForwardFails, Sleep, Wait, Wake, EndIteration, Handler, NotifyOne, Respond, vars
    <3> QED BY <3>1, <3>2, WorkFrame
  <2> QED BY <2>1, <2>2
<1> QED BY <1>1, <1>2, <1>3, <1>4

\* The steps of the engine, for the proofs that go through them.
LEMMA Steps ==
  ASSUME [Next]_vars
  PROVE  \/ \E r \in Req : AddRequest(r)
         \/ ExpireRunning \/ ListRunning \/ Admit \/ AdmitRefused
         \/ Assemble \/ Forward \/ Apply \/ Finish
         \/ Quiet
BY DEF Next, Worker, Schedule, Compute, Quiet

LEMMA StateStep ==
  ASSUME StateOK, BMP!IInv, [Next]_vars
  PROVE  StateOK' /\ BMP!IInv' /\ [BM!Next]_manager
<1>1. StateOK' /\ [BM!Next]_manager
  <2>1. ASSUME NEW r \in Req, AddRequest(r)
        PROVE  StateOK' /\ [BM!Next]_manager
    BY <2>1, AddRequestStep DEF AddRequest
  <2>2. CASE ExpireRunning
    BY <2>2, ExpireRunningStep
  <2>3. CASE ListRunning
    BY <2>3, ListRunningStep DEF ListRunning
  <2>4. CASE Admit
    BY <2>4, AdmitStep
  <2>5. CASE AdmitRefused
    BY <2>5, AdmitRefusedStep
  <2>6. CASE Assemble
    BY <2>6, AssembleStep DEF Assemble
  <2>7. CASE Forward
    BY <2>7, ForwardStep DEF Forward
  <2>8. CASE Apply
    BY <2>8, ApplyStep DEF Apply
  <2>9. CASE Finish
    BY <2>9, FinishStep
  <2>10. CASE Quiet
    BY <2>10, QuietStep
  <2> QED BY <2>1, <2>2, <2>3, <2>4, <2>5, <2>6, <2>7, <2>8, <2>9, <2>10, Steps
<1> QED BY <1>1, ManagerKept

THEOREM StateInvariant == Spec => [](StateOK /\ BMP!IInv)
<1>1. Init => StateOK /\ BMP!IInv
  BY InitOK
<1>2. StateOK /\ BMP!IInv /\ [Next]_vars => (StateOK /\ BMP!IInv)'
  BY StateStep
<1> QED BY <1>1, <1>2, PTL DEF Spec

\* The shape of the engine's state, in every state the handlers, the worker and the
\* clock can bring about.
THEOREM EngineTypeCorrect == Spec => []TypeOK
<1>1. ASSUME StateOK
      PROVE  TypeOK
  <2>1. \A r \in DOMAIN requests :
          /\ requests[r].prompt_tokens \in Prompts /\ requests[r].max_tokens \in MaxTokens
          /\ requests[r].generated \in Nat
          /\ requests[r].cached_prefix_len \in 0..PromptLen(r)
          /\ requests[r].prefill_cursor \in requests[r].cached_prefix_len..PromptLen(r)
    <3> SUFFICES ASSUME NEW r \in DOMAIN requests
                 PROVE  /\ requests[r].prompt_tokens \in Prompts
                        /\ requests[r].max_tokens \in MaxTokens
                        /\ requests[r].generated \in Nat
                        /\ requests[r].cached_prefix_len \in 0..PromptLen(r)
                        /\ requests[r].prefill_cursor \in requests[r].cached_prefix_len..PromptLen(r)
      OBVIOUS
    <3>1. /\ requests[r] \in Request
          /\ requests[r].cached_prefix_len <= requests[r].prefill_cursor
          /\ requests[r].prefill_cursor <= PromptLen(r)
      BY <1>1 DEF StateOK, QueuesOK
    <3>2. PromptLen(r) \in Nat
      BY <1>1, ChunkType DEF StateOK
    <3> QED BY <3>1, <3>2 DEF Request
  <2>2. DOMAIN kv \subseteq Req
    BY <1>1, LenProperties DEF StateOK, QueuesOK, ClientsOK, WorkOK, Running, ToSet
  <2> QED BY <1>1, <2>1, <2>2 DEF StateOK, QueuesOK, ClientsOK, WorkOK, TypeOK
<1> QED BY <1>1, StateInvariant, PTL

\* A request is alive in exactly one place of one queue, and it is exactly the running
\* ones that own blocks, whichever of expiry, stop and limit ends them.
THEOREM RequestsOwned == Spec => []OneQueueOneOwner
<1>1. ASSUME StateOK
      PROVE  OneQueueOneOwner
  <2>1. Cardinality(Waiting) = Len(waiting_queue) /\ Cardinality(Running) = Len(running_queue)
    BY <1>1, InjectiveLen DEF StateOK, QueuesOK, Waiting, Running
  <2> QED BY <1>1, <2>1 DEF StateOK, QueuesOK, TablesOK, OneQueueOneOwner
<1> QED BY <1>1, StateInvariant, PTL

\* A KV cache that is left has a running request, or one that missed its deadline.
THEOREM CachesAccountedFor == Spec => []CachesLeftByDeadline
<1>1. StateOK => CachesLeftByDeadline
  BY DEF StateOK, WorkOK, CachesLeftByDeadline
<1> QED BY <1>1, StateInvariant, PTL

\* The engine calls the block manager only as its methods allow: every step of it
\* that changes the manager is one of the manager's own.
THEOREM ManagerImplemented == Spec => ManagerSpec
<1>1. Init => BM!Init
  BY DEF Init
<1>2. StateOK /\ BMP!IInv /\ [Next]_vars => [manager' # manager => BM!Next]_manager
  BY StateStep
<1> QED BY <1>1, <1>2, StateInvariant, PTL DEF Spec, ManagerSpec

\* The manager's own invariants, and that every running request has blocks with room
\* for its prompt.
MemoryOK ==
  /\ BMP!RefsCoverHolders /\ BMP!FreeBlocksUnheld /\ BMP!NoDoubleFree
  /\ BMP!CacheWithinCapacity
  /\ \A r \in Running : Len(block_table[r]) * block_size >= PromptLen(r)

\* In the running engine, too, no block is counted too low, in the pool while it is
\* listed or twice in it, the cache keeps to its third, and admission gives a request room
\* for all of its prompt that nothing takes away while it runs.
THEOREM MemorySafe == Spec => []MemoryOK
<1>1. Spec => BMP!Spec
  <2>1. Init => BMP!Init
    BY SameInit DEF Init
  <2>2. StateOK /\ BMP!IInv /\ [Next]_vars => [BMP!Next]_(BMP!vars)
    BY StateStep, SameNext
  <2> QED BY <2>1, <2>2, StateInvariant, PTL DEF Spec, BMP!Spec
<1>2. /\ StateOK /\ BMP!RefsCoverHolders /\ BMP!FreeBlocksUnheld /\ BMP!NoDoubleFree
      /\ BMP!CacheWithinCapacity /\ BMP!PromptsFit
      => MemoryOK
  BY DEF MemoryOK, StateOK, TablesOK, BMP!PromptsFit, PromptLen
<1> QED
  BY <1>1, <1>2, StateInvariant, ManagerAssumption, BMP!ReferencesCovered, BMP!PoolUnheld,
     BMP!PoolDistinct, BMP!CacheBounded, BMP!PromptsHaveRoom, PTL
=============================================================================
