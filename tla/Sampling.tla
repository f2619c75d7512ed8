------------------------------ MODULE Sampling ------------------------------
(***************************************************************************)
(* From the logits of one work item to its token (worker.rs: run_loop and  *)
(* sample_token; api/grammar.rs).  c is the call:                          *)
(*   dims, dtype   of the logits                                           *)
(*   weight        exp(logit / temperature), as a natural number, by the   *)
(*                 flat index into the first batch; 0 is a logit of -inf   *)
(*   adjusted      there is a logit_bias, a frequency or presence penalty  *)
(*   valid         the tokens a grammar allows, as a set of at most one    *)
(*                 set; empty without a grammar                            *)
(*   greedy        temperature <= 0                                        *)
(*   top_k         a set of at most one number                             *)
(*   top_p         <<num, den>>                                            *)
(* A result is the set of the tokens that may be drawn.                    *)
(***************************************************************************)
EXTENDS Integers, Sequences, FiniteSetsExt

Failed == [ok |-> FALSE]
Tokens(S) == [ok |-> TRUE, tokens |-> S]

\* The fallback wherever the logits are of no use.
RandomTokens == 0..99

Vocab(c) == c.dims[Len(c.dims)]

\* A bias or a penalty is a (1, vocab) tensor in F32, added without broadcasting.
AdjustFails(c) == c.adjusted /\ ~(c.dims = <<1, Vocab(c)>> /\ c.dtype = "F32")

\* The mask is indexed by the tokens it allows, then broadcast.
MaskFails(c) ==
  c.valid # {} /\ (c.dtype # "F32" \/ \E S \in c.valid : \E t \in S : t >= Vocab(c))

\* apply_grammar_mask
Masked(c) ==
  [i \in DOMAIN c.weight |->
     IF \A S \in c.valid : i % Vocab(c) \in S THEN c.weight[i] ELSE 0]

-----------------------------------------------------------------------------

\* The sum of the weights in S: how much of it there is if each i counts w[i] times.
Total(w, S) == Cardinality(UNION {{i} \X (1..w[i]) : i \in S})

\* A slip, or the repair: only the last position's logits are sampled from.
SampledLast(c, w) ==
  [t \in 0..Vocab(c) - 1 |-> w[Cardinality(DOMAIN w) - Vocab(c) + t]]

\* get(0), flatten_all: the logits of all positions, one after the other.
Sampled(c, w) == w

\* select_nth_unstable_by and truncate: any k heaviest.
TopK(c, w) ==
  {S \in SUBSET DOMAIN w :
     \/ S = DOMAIN w /\ \A k \in c.top_k : k >= Cardinality(S)
     \/ /\ c.top_k = {Cardinality(S)}
        /\ \A i \in S, j \in DOMAIN w \ S : w[j] <= w[i]}

\* The shortest beginning of S, heaviest first, of more than top_p of its weight.
TopP(c, w, S) ==
  {T \in SUBSET S :
     /\ \A i \in T, j \in S \ T : w[j] <= w[i]
     /\ Total(w, T) * c.top_p[2] > c.top_p[1] * Total(w, S)
     /\ \E i \in T : /\ \A j \in T : w[i] <= w[j]
                     /\ (Total(w, T) - w[i]) * c.top_p[2] <= c.top_p[1] * Total(w, S)}

\* Drawing 0 takes the first of the list, and rounding can leave the last; after
\* top_k the list has no particular order.
Ends(w, S) == IF S = DOMAIN w THEN {Min(S), Max(S)} ELSE S

Drawn(c, w, S) ==
  IF c.top_p[1] < c.top_p[2]
    THEN UNION {{i \in T : w[i] > 0} : T \in TopP(c, w, S)}
    ELSE {i \in S : w[i] > 0} \cup (IF S = {} THEN {0} ELSE Ends(w, S))

\* sample_token.  A top_k of 0 leaves nothing to sort, and indexing it panics.
SampleToken(c, weight) ==
  LET w == Sampled(c, weight)
  IN IF c.greedy THEN Tokens({i \in DOMAIN w : \A j \in DOMAIN w : w[j] <= w[i]})
     ELSE IF c.dtype # "F32" THEN Tokens(RandomTokens)
     ELSE IF {} \in TopK(c, w) /\ c.top_p[1] < c.top_p[2] THEN Failed
     ELSE Tokens(UNION {Drawn(c, w, S) : S \in TopK(c, w)})

\* The item's way from the model's logits to a token.
ItemToken(c) == IF AdjustFails(c) \/ MaskFails(c) THEN Failed ELSE SampleToken(c, Masked(c))
=============================================================================
