------------------------------- MODULE Beams --------------------------------
(***************************************************************************)
(* BeamSearchDecoder::decode (speculative.rs) over an abstract model.  One *)
(* step is one turn of its outer loop.  Scores are exact: a fraction in    *)
(* place of an f64.                                                        *)
(***************************************************************************)
EXTENDS Integers, SequencesExt

CONSTANTS num_beams, max_new_tokens, eos_token_id,
          PenalizeLength,   \* length_penalty: 1.0, its default, or 0.0
          Vocab, Prompts, MaxPromptLen,
          LogProb(_, _)     \* what forward and log_softmax give a next token

\* No two tokens are equally likely, in which case the unstable sorts decide.
ASSUME BeamsAssumption ==
  /\ num_beams \in Nat \ {0} /\ max_new_tokens \in Nat
  /\ PenalizeLength \in BOOLEAN
  /\ IsFiniteSet(Vocab) /\ Vocab # {}
  /\ MaxPromptLen \in Nat /\ Prompts \subseteq BoundedSeq(Vocab, MaxPromptLen)
  /\ \A text \in BoundedSeq(Vocab, MaxPromptLen + max_new_tokens - 1) :
       /\ \A t \in Vocab : LogProb(text, t) \in Int
       /\ \A t, u \in Vocab : LogProb(text, t) = LogProb(text, u) => t = u

VARIABLES
  prompt,
  beams,       \* sequence of Beam
  steps,       \* turns taken
  result       \* the text returned, with the prompt, or <<>> before

vars == <<prompt, beams, steps, result>>

\* A slip, or the usual way to begin: one beam.
OneBeam(tokens) == <<[tokens |-> tokens, num |-> 0, den |-> 1, finished |-> FALSE]>>

\* num_beams times the prompt.
StartBeams(tokens) ==
  [i \in 1..num_beams |-> [tokens |-> tokens, num |-> 0, den |-> 1, finished |-> FALSE]]

Init ==
  /\ prompt \in Prompts
  /\ beams = StartBeams(prompt)
  /\ steps = 0
  /\ result = <<>>

\* The fractions are num / den with positive den.
Better(a, b) == a.num * b.den > b.num * a.den

\* The num_beams most likely next tokens.
TopTokens(text) ==
  {t \in Vocab : Cardinality({u \in Vocab : LogProb(text, u) > LogProb(text, t)}) < num_beams}

\* A slip: the least likely token of the best ones is first.
ExtendedInverted(b, t) ==
  [tokens |-> Append(b.tokens, t),
   num |-> b.num - LogProb(b.tokens, t) * b.den,
   den |-> b.den * (IF PenalizeLength THEN Len(b.tokens) + 1 ELSE 1),
   finished |-> t = eos_token_id]

\* The penalty divides the whole score so far, at every step.
Extended(b, t) ==
  [tokens |-> Append(b.tokens, t),
   num |-> b.num + LogProb(b.tokens, t) * b.den,
   den |-> b.den * (IF PenalizeLength THEN Len(b.tokens) + 1 ELSE 1),
   finished |-> t = eos_token_id]

\* all_candidates: finished beams have none.
Candidates ==
  UNION {{[beam |-> i, token |-> t] : t \in TopTokens(beams[i].tokens)} :
           i \in {j \in DOMAIN beams : ~beams[j].finished}}

CandidateBeam(c) == Extended(beams[c.beam], c.token)

\* The best num_beams candidates in the order of their scores.
Selections ==
  LET n == IF Cardinality(Candidates) < num_beams THEN Cardinality(Candidates) ELSE num_beams
      NoBetter(c, d) == ~Better(CandidateBeam(c), CandidateBeam(d))
  IN {s \in [1..n -> Candidates] :
        /\ \A i, j \in 1..n : i < j => s[i] # s[j] /\ NoBetter(s[j], s[i])
        /\ \A c \in Candidates \ {s[i] : i \in 1..n} : \A i \in 1..n : NoBetter(c, s[i])}

Step ==
  /\ result = <<>>
  /\ steps < max_new_tokens
  /\ \E s \in Selections : beams' = [i \in DOMAIN s |-> CandidateBeam(s[i])]
  /\ Candidates # {}
  /\ steps' = steps + 1
  /\ UNCHANGED <<prompt, result>>

\* The loop ends when its turns are used up or every beam is finished; a best
\* beam is returned.
Return ==
  /\ result = <<>>
  /\ steps = max_new_tokens \/ Candidates = {}
  /\ \E i \in DOMAIN beams : /\ \A j \in DOMAIN beams : ~Better(beams[j], beams[i])
                             /\ result' = beams[i].tokens
  /\ UNCHANGED <<prompt, beams, steps>>

Next == Step \/ Return

Spec == Init /\ [][Next]_vars

-----------------------------------------------------------------------------

\* The beams begin as copies of the prompt and every copy brings the same best
\* token, so they stay copies of one another: no finished beam is ever passed over
\* while another goes on, and nothing but one text is searched.
BeamsAreCopies == \A i, j \in DOMAIN beams : beams[i] = beams[j]

\* What beam search returns is what greedy decoding returns.
GreedyText == INSTANCE Greedy WITH
  text <- beams[1].tokens,
  done <- result # <<>>
DecodesGreedily == GreedyText!Spec
=============================================================================
