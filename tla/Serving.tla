------------------------------ MODULE Serving -------------------------------
(***************************************************************************)
(* What the engine promises the clients of its API, without blocks, cache, *)
(* budget, chunks or locks: requests wait in line, are served in turns, and *)
(* leave.  Engine is shown to implement it.                                *)
(***************************************************************************)
EXTENDS Queues

CONSTANTS Req, MaxTokens

VARIABLES
  queue,     \* the requests in line
  served,    \* the requests being served
  limit,     \* the requests of both kinds -> the max_tokens they asked for
  late,      \* those whose deadline has passed
  tokens,    \* the tokens each client has been sent
  client     \* what each client has seen: "new", "waiting", "answered"

vars == <<queue, served, limit, late, tokens, client>>

Init ==
  /\ queue = <<>> /\ served = {} /\ late = {}
  /\ limit = [r \in {} |-> 0]
  /\ tokens = [r \in Req |-> 0]
  /\ client = [r \in Req |-> "new"]

LimitsWithout(S) == [r \in DOMAIN limit \ S |-> limit[r]]

Arrive(r) ==
  /\ client[r] = "new"
  /\ client' = [client EXCEPT ![r] = "waiting"]
  /\ queue' = Append(queue, r)
  /\ \E max \in MaxTokens :
       limit' = [q \in DOMAIN limit \cup {r} |-> IF q = r THEN max ELSE limit[q]]
  /\ UNCHANGED <<served, late, tokens>>

Expire(r) ==
  /\ r \in DOMAIN limit
  /\ late' = late \cup {r}
  /\ UNCHANGED <<queue, served, limit, tokens, client>>

\* Nobody in line is overtaken.
Start ==
  /\ queue # <<>>
  /\ served' = served \cup {Head(queue)}
  /\ queue' = Tail(queue)
  /\ UNCHANGED <<limit, late, tokens, client>>

\* Requests leave the line for their deadline only.
Abandon(S) ==
  /\ S \subseteq late
  /\ queue' = Drop(queue, S)
  /\ limit' = LimitsWithout(S)
  /\ UNCHANGED <<served, late, tokens, client>>

\* A turn: everybody being served gets one token, and nobody is still being served
\* who has had as many as asked for.  A request for no token at all gets one.
Turn ==
  /\ served # {}
  /\ \A r \in served : tokens[r] = 0 \/ tokens[r] < limit[r]
  /\ tokens' = [r \in Req |-> tokens[r] + (IF r \in served THEN 1 ELSE 0)]
  /\ UNCHANGED <<queue, served, limit, late, client>>

\* A request leaves once it has a token, or for its deadline.
Leave(r) ==
  /\ r \in served
  /\ tokens[r] > 0 \/ r \in late
  /\ served' = served \ {r}
  /\ limit' = LimitsWithout({r})
  /\ UNCHANGED <<queue, late, tokens, client>>

\* The client is told that there is nothing more to come.
Answer(r) ==
  /\ client[r] = "waiting"
  /\ r \notin DOMAIN limit
  /\ client' = [client EXCEPT ![r] = "answered"]
  /\ UNCHANGED <<queue, served, limit, late, tokens>>

Next ==
  \/ \E r \in Req : Arrive(r) \/ Expire(r) \/ Leave(r) \/ Answer(r)
  \/ \E S \in SUBSET late : Abandon(S)
  \/ Start
  \/ Turn

Spec == Init /\ [][Next]_vars
=============================================================================
