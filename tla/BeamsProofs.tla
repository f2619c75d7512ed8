----------------------------- MODULE BeamsProofs -----------------------------
(***************************************************************************)
(* Proofs about Beams: the beams stay copies of one another, and so beam   *)
(* search decodes greedily, for every number of beams and every model that *)
(* never finds two tokens equally likely.                                  *)
(***************************************************************************)
EXTENDS Beams, SequenceTheorems, FiniteSetTheorems, TLAPS

-----------------------------------------------------------------------------
(* The model's best token                                                  *)

\* A text for which the model is asked for a next token.
Texts == BoundedSeq(Vocab, MaxPromptLen + max_new_tokens - 1)

BestToken(text, t) == /\ t \in Vocab
                      /\ \A u \in Vocab \ {t} : LogProb(text, u) < LogProb(text, t)

LEMMA TextType ==
  ASSUME NEW n \in Int, NEW text \in Seq(Vocab), Len(text) <= n
  PROVE  text \in BoundedSeq(Vocab, n)
<1>1. Len(text) \in 0..n /\ text \in [1..Len(text) -> Vocab]
  BY LenProperties
<1> QED BY <1>1 DEF BoundedSeq, SeqOf

\* Of finitely many tokens with different scores one has the highest.
LEMMA BestTokenExists ==
  ASSUME NEW text \in Texts
  PROVE  \E t \in Vocab : BestToken(text, t)
<1> DEFINE Above(t) == {u \in Vocab : LogProb(text, u) > LogProb(text, t)}
           all == {Above(t) : t \in Vocab}
<1>1. /\ IsFiniteSet(Vocab) /\ Vocab # {}
      /\ \A t \in Vocab : LogProb(text, t) \in Int
      /\ \A t, u \in Vocab : LogProb(text, t) = LogProb(text, u) => t = u
  BY BeamsAssumption DEF Texts
<1>2. \E least \in all : \A a \in all : <<a, least>> \notin StrictSubsetOrdering(Vocab)
  <2>1. IsWellFoundedOn(StrictSubsetOrdering(Vocab), SUBSET Vocab)
    BY <1>1, FS_StrictSubsetOrderingWellFounded, FS_FiniteSubsetsOfFinite
  <2>2. all \subseteq SUBSET Vocab /\ all # {}
    <3>1. \A t : Above(t) \in SUBSET Vocab
      OBVIOUS
    <3>2. PICK t \in Vocab : TRUE
      BY <1>1
    <3>3. Above(t) \in all
      OBVIOUS
    <3> HIDE DEF Above
    <3> QED BY <3>1, <3>3
  <2> HIDE DEF all
  <2> QED BY <2>1, <2>2, WFMin
<1>3. PICK t \in Vocab : \A u \in Vocab : <<Above(u), Above(t)>> \notin StrictSubsetOrdering(Vocab)
  BY <1>2
<1>4. ASSUME NEW u \in Vocab \ {t}, ~(LogProb(text, u) < LogProb(text, t))
      PROVE  FALSE
  <2>1. LogProb(text, u) > LogProb(text, t)
    BY <1>1, <1>4
  <2>2. Above(u) \subseteq Above(t) /\ u \in Above(t) /\ u \notin Above(u)
    BY <1>1, <2>1
  <2>3. Above(u) # Above(t) /\ Above(u) \in SUBSET Vocab /\ Above(t) \in SUBSET Vocab
    BY <2>2
  <2> HIDE DEF Above
  <2> QED BY <1>3, <2>2, <2>3 DEF StrictSubsetOrdering
<1> QED BY <1>4 DEF BestToken

-----------------------------------------------------------------------------
(* Beams                                                                   *)

Beam == [tokens : Seq(Vocab), num : Int, den : Nat \ {0}, finished : BOOLEAN]

LEMMA Scaled ==
  ASSUME NEW x \in Int, NEW y \in Int, x > y, NEW d \in Nat \ {0}
  PROVE  x * d > y * d
OBVIOUS

LEMMA ExtendedType ==
  ASSUME NEW b \in Beam, NEW t \in Vocab, LogProb(b.tokens, t) \in Int
  PROVE  /\ Extended(b, t) \in Beam
         /\ Extended(b, t).tokens = Append(b.tokens, t)
         /\ Extended(b, t).finished <=> t = eos_token_id
         /\ Extended(b, t).num = b.num + LogProb(b.tokens, t) * b.den
<1> DEFINE factor == IF PenalizeLength THEN Len(b.tokens) + 1 ELSE 1
           ended == t = eos_token_id
<1>1. /\ b.tokens \in Seq(Vocab) /\ b.num \in Int /\ b.den \in Nat \ {0}
      /\ factor \in Nat \ {0} /\ Append(b.tokens, t) \in Seq(Vocab)
  BY LenProperties, AppendProperties DEF Beam
<1>2. b.den * factor \in Nat \ {0}
  <2>1. \A m, n \in Nat \ {0} : m * n \in Nat \ {0}
    OBVIOUS
  <2> HIDE DEF factor
  <2> QED BY <1>1, <2>1
<1>3. b.num + LogProb(b.tokens, t) * b.den \in Int
  BY <1>1
<1>4. Extended(b, t) = [tokens |-> Append(b.tokens, t),
                        num |-> b.num + LogProb(b.tokens, t) * b.den,
                        den |-> b.den * factor,
                        finished |-> ended]
  BY DEF Extended
<1>5. ended \in BOOLEAN /\ (ended <=> t = eos_token_id)
  OBVIOUS
<1>6. /\ Extended(b, t) \in Beam
      /\ Extended(b, t).tokens = Append(b.tokens, t)
      /\ Extended(b, t).num = b.num + LogProb(b.tokens, t) * b.den
      /\ Extended(b, t).finished = ended
  <2> HIDE DEF factor, ended
  <2> QED BY <1>1, <1>2, <1>3, <1>4, <1>5 DEF Beam
<1> QED BY <1>5, <1>6

\* The more likely token makes the better beam: the penalty is the same for all.
LEMMA MoreLikelyBetter ==
  ASSUME NEW b \in Beam, NEW t \in Vocab, NEW u \in Vocab,
         LogProb(b.tokens, t) \in Int, LogProb(b.tokens, u) \in Int,
         LogProb(b.tokens, t) > LogProb(b.tokens, u)
  PROVE  Better(Extended(b, t), Extended(b, u))
<1> DEFINE e == Extended(b, t)
           f == Extended(b, u)
<1>1. /\ e \in Beam /\ e.num = b.num + LogProb(b.tokens, t) * b.den
      /\ f \in Beam /\ f.num = b.num + LogProb(b.tokens, u) * b.den
  BY ExtendedType
<1>2. e.den = f.den
  BY DEF Extended
<1>3. e.num > f.num
  <2>1. b.num \in Int /\ b.den \in Nat \ {0}
    BY DEF Beam
  <2>2. LogProb(b.tokens, t) * b.den > LogProb(b.tokens, u) * b.den
    BY <2>1, Scaled
  <2> QED BY <1>1, <2>1, <2>2
<1>4. e.num * f.den > f.num * e.den
  <2>1. e.num \in Int /\ f.num \in Int /\ f.den \in Nat \ {0}
    BY <1>1 DEF Beam
  <2> HIDE DEF e, f
  <2> QED BY <1>2, <1>3, <2>1, Scaled
<1> QED BY <1>4 DEF Better

-----------------------------------------------------------------------------
(* The invariant                                                           *)

\* The beams are copies; one has a token more than the prompt for each turn taken, and is
\* finished if it has one and the last is eos.
BeamsOK ==
  /\ prompt \in Prompts
  /\ steps \in 0..max_new_tokens
  /\ DOMAIN beams = 1..num_beams
  /\ \A i \in 1..num_beams : beams[i] = beams[1]
  /\ beams[1] \in Beam
  /\ Len(beams[1].tokens) = Len(prompt) + steps
  /\ beams[1].finished <=>
       steps > 0 /\ beams[1].tokens[Len(beams[1].tokens)] = eos_token_id

LEMMA PromptType ==
  ASSUME NEW tokens \in Prompts
  PROVE  tokens \in Seq(Vocab) /\ Len(tokens) \in 0..MaxPromptLen
<1>1. MaxPromptLen \in Nat /\ tokens \in BoundedSeq(Vocab, MaxPromptLen)
  BY BeamsAssumption
<1>2. PICK n \in 0..MaxPromptLen : tokens \in [1..n -> Vocab]
  BY <1>1 DEF BoundedSeq, SeqOf
<1> QED BY <1>1, <1>2, LenProperties

LEMMA InTexts ==
  ASSUME BeamsOK, steps < max_new_tokens
  PROVE  beams[1].tokens \in Texts
<1>1. beams[1].tokens \in Seq(Vocab) /\ prompt \in Prompts
      /\ Len(beams[1].tokens) = Len(prompt) + steps
  BY DEF BeamsOK, Beam
<1>2. /\ Len(prompt) \in 0..MaxPromptLen /\ MaxPromptLen \in Nat /\ max_new_tokens \in Nat
      /\ steps \in Nat
  BY <1>1, PromptType, BeamsAssumption DEF BeamsOK
<1>3. Len(beams[1].tokens) <= MaxPromptLen + max_new_tokens - 1
  BY <1>1, <1>2
<1> QED BY <1>1, <1>2, <1>3, TextType DEF Texts

\* Every copy brings the best token, and they are as many as are selected.
LEMMA BestCandidates ==
  ASSUME BeamsOK, ~beams[1].finished, steps < max_new_tokens,
         NEW best, BestToken(beams[1].tokens, best),
         NEW W, W = {[beam |-> i, token |-> best] : i \in 1..num_beams}
  PROVE  /\ W \subseteq Candidates
         /\ \A c \in Candidates : /\ c.beam \in 1..num_beams /\ c.token \in Vocab
                                  /\ c.token = best => c \in W
         /\ IsFiniteSet(W) /\ Cardinality(W) = num_beams
         /\ IsFiniteSet(Candidates) /\ Cardinality(Candidates) \in Nat
         /\ num_beams <= Cardinality(Candidates)
<1>1. num_beams \in Nat \ {0} /\ best \in Vocab /\ IsFiniteSet(Vocab)
  BY BeamsAssumption DEF BestToken
<1>2. best \in TopTokens(beams[1].tokens)
  <2> DEFINE above == {u \in Vocab : LogProb(beams[1].tokens, u) > LogProb(beams[1].tokens, best)}
  <2>1. above = {}
    <3>1. \A t \in Vocab : LogProb(beams[1].tokens, t) \in Int
      BY InTexts, BeamsAssumption DEF Texts
    <3> QED BY <1>1, <3>1 DEF BestToken
  <2>2. Cardinality(above) < num_beams
    BY <1>1, <2>1, FS_EmptySet
  <2> QED BY <1>1, <2>2 DEF TopTokens
<1>3. /\ W \subseteq Candidates
      /\ \A c \in Candidates : /\ c.beam \in 1..num_beams /\ c.token \in Vocab
                               /\ c = [beam |-> c.beam, token |-> c.token]
  <2>1. \A i \in 1..num_beams : i \in DOMAIN beams /\ ~beams[i].finished /\ beams[i] = beams[1]
    BY DEF BeamsOK
  <2>2. \A i \in 1..num_beams : [beam |-> i, token |-> best] \in Candidates
    BY <1>2, <2>1 DEF Candidates
  <2>3. ASSUME NEW c \in Candidates
        PROVE  /\ c.beam \in 1..num_beams /\ c.token \in Vocab
               /\ c = [beam |-> c.beam, token |-> c.token]
    <3>1. PICK i \in DOMAIN beams :
            c \in {[beam |-> i, token |-> t] : t \in TopTokens(beams[i].tokens)}
      BY DEF Candidates
    <3>2. PICK t \in TopTokens(beams[i].tokens) : c = [beam |-> i, token |-> t]
      BY <3>1
    <3>3. i \in 1..num_beams /\ t \in Vocab
      BY <3>2 DEF BeamsOK, TopTokens
    <3> QED BY <3>2, <3>3
  <2> QED BY <2>2, <2>3
<1>4. \A c \in Candidates : c.token = best => c \in W
  BY <1>3
<1>5. IsFiniteSet(W) /\ Cardinality(W) = num_beams
  <2> DEFINE copy == [i \in 1..num_beams |-> [beam |-> i, token |-> best]]
  <2>1. copy \in Bijection(1..num_beams, W)
    <3>1. copy \in [1..num_beams -> W] /\ (\A w \in W : \E i \in 1..num_beams : copy[i] = w)
      OBVIOUS
    <3>2. \A i, j \in 1..num_beams : copy[i] = copy[j] => i = j
      OBVIOUS
    <3> HIDE DEF copy
    <3> QED BY <3>1, <3>2 DEF Bijection, Injection, Surjection, IsInjective
  <2>2. IsFiniteSet(1..num_beams) /\ Cardinality(1..num_beams) = num_beams
    BY <1>1, FS_Interval
  <2>3. ExistsBijection(1..num_beams, W)
    BY <2>1 DEF ExistsBijection
  <2> QED BY <2>2, <2>3, FS_Bijection
<1>6. IsFiniteSet(Candidates)
  <2> DEFINE place == [c \in Candidates |-> <<c.beam, c.token>>]
             places == (1..num_beams) \X Vocab
  <2>1. IsFiniteSet(places)
    <3>1. IsFiniteSet(1..num_beams)
      BY <1>1, FS_Interval
    <3> QED BY <1>1, <3>1, FS_Product
  <2>2. place \in Injection(Candidates, places)
    <3>1. place \in [Candidates -> places]
      BY <1>3
    <3>2. \A c, d \in Candidates : place[c] = place[d] => c = d
      BY <1>3
    <3> HIDE DEF place, places
    <3> QED BY <3>1, <3>2 DEF Injection, IsInjective
  <2> HIDE DEF place, places
  <2> QED BY <2>1, <2>2, FS_Injection
<1>7. Cardinality(Candidates) \in Nat /\ Cardinality(W) <= Cardinality(Candidates)
  BY <1>3, <1>6, FS_CardinalityType, FS_Subset
<1> QED BY <1>3, <1>4, <1>5, <1>6, <1>7

\* Nothing but copies is selected: whoever is selected in place of one is worse.
LEMMA CopiesSelected ==
  ASSUME BeamsOK, ~beams[1].finished, steps < max_new_tokens,
         NEW best, BestToken(beams[1].tokens, best), NEW s \in Selections
  PROVE  /\ DOMAIN s = 1..num_beams
         /\ \A i \in 1..num_beams : CandidateBeam(s[i]) = Extended(beams[1], best)
<1> DEFINE W == {[beam |-> i, token |-> best] : i \in 1..num_beams}
<1>1. /\ W \subseteq Candidates
      /\ \A c \in Candidates : /\ c.beam \in 1..num_beams /\ c.token \in Vocab
                               /\ c.token = best => c \in W
      /\ IsFiniteSet(W) /\ Cardinality(W) = num_beams
      /\ Cardinality(Candidates) \in Nat /\ num_beams <= Cardinality(Candidates)
  BY BestCandidates
<1>2. num_beams \in Nat \ {0} /\ ~(Cardinality(Candidates) < num_beams)
  BY <1>1, BeamsAssumption
<1>3. /\ s \in [1..num_beams -> Candidates]
      /\ \A i, j \in 1..num_beams : i < j => s[i] # s[j]
      /\ \A c \in Candidates \ {s[i] : i \in 1..num_beams} :
           \A i \in 1..num_beams : ~Better(CandidateBeam(c), CandidateBeam(s[i]))
  BY <1>2 DEF Selections
<1>4. \A c \in Candidates : CandidateBeam(c) = Extended(beams[1], c.token)
  BY <1>1 DEF CandidateBeam, BeamsOK
<1>5. ASSUME NEW k \in 1..num_beams, s[k].token # best
      PROVE  FALSE
  <2> DEFINE chosen == {s[i] : i \in 1..num_beams}
  <2>1. IsFiniteSet(chosen) /\ Cardinality(chosen) = num_beams
    <3>1. s \in Bijection(1..num_beams, chosen)
      <4>1. s \in [1..num_beams -> chosen] /\ (\A w \in chosen : \E i \in 1..num_beams : s[i] = w)
        BY <1>3
      <4>2. \A i, j \in 1..num_beams : s[i] = s[j] => i = j
        BY <1>2, <1>3
      <4> HIDE DEF chosen
      <4> QED BY <4>1, <4>2 DEF Bijection, Injection, Surjection, IsInjective
    <3>2. IsFiniteSet(1..num_beams) /\ Cardinality(1..num_beams) = num_beams
      BY <1>2, FS_Interval
    <3>3. ExistsBijection(1..num_beams, chosen)
      BY <3>1 DEF ExistsBijection
    <3> HIDE DEF chosen
    <3> QED BY <3>2, <3>3, FS_Bijection
  <2>2. s[k] \in chosen /\ s[k] \notin W /\ s[k] \in Candidates
    BY <1>3, <1>5
  <2> HIDE DEF chosen, W
  <2>3. ~(W \subseteq chosen)
    <3>1. /\ IsFiniteSet(chosen \ {s[k]})
          /\ Cardinality(chosen \ {s[k]}) = num_beams - 1
      BY <2>1, <2>2, FS_RemoveElement
    <3>2. W \subseteq chosen => W \subseteq chosen \ {s[k]}
      BY <2>2
    <3>3. W \subseteq chosen \ {s[k]} => Cardinality(W) <= num_beams - 1
      BY <3>1, FS_Subset
    <3> QED BY <1>1, <1>2, <3>2, <3>3
  <2>4. PICK c \in W : c \notin chosen
    BY <2>3
  <2>5. c \in Candidates /\ c.token = best
    BY <1>1, <2>4 DEF W
  <2>6. ~Better(Extended(beams[1], best), Extended(beams[1], s[k].token))
    <3>1. ~Better(CandidateBeam(c), CandidateBeam(s[k]))
      BY <1>3, <2>4, <2>5 DEF chosen
    <3> QED BY <1>4, <2>2, <2>5, <3>1
  <2>7. /\ beams[1] \in Beam /\ best \in Vocab /\ s[k].token \in Vocab
        /\ \A t \in Vocab : LogProb(beams[1].tokens, t) \in Int
        /\ LogProb(beams[1].tokens, s[k].token) < LogProb(beams[1].tokens, best)
    <3>1. beams[1].tokens \in Texts
      BY InTexts
    <3>2. s[k].token \in Vocab \ {best} /\ best \in Vocab
      BY <1>1, <1>5, <2>2 DEF BestToken
    <3> QED BY <3>1, <3>2, BeamsAssumption DEF BeamsOK, BestToken, Texts
  <2> QED BY <2>6, <2>7, MoreLikelyBetter
<1> QED BY <1>3, <1>4, <1>5

\* The best token is the one greedy decoding takes.
LEMMA BeamsStep ==
  ASSUME BeamsOK, Step
  PROVE  /\ BeamsOK'
         /\ ~beams[1].finished
         /\ \E t \in Vocab :
              /\ \A u \in Vocab : LogProb(beams[1].tokens, u) <= LogProb(beams[1].tokens, t)
              /\ beams'[1].tokens = Append(beams[1].tokens, t)
<1>1. /\ steps < max_new_tokens /\ steps' = steps + 1 /\ prompt' = prompt /\ Candidates # {}
      /\ num_beams \in Nat \ {0} /\ 1 \in 1..num_beams
  BY BeamsAssumption DEF Step
<1>2. ~beams[1].finished
  <2>1. \E i \in DOMAIN beams : ~beams[i].finished
    BY <1>1 DEF Candidates
  <2> QED BY <2>1 DEF BeamsOK
<1>3. PICK s \in Selections : beams' = [i \in DOMAIN s |-> CandidateBeam(s[i])]
  BY DEF Step
<1>4. PICK best \in Vocab : BestToken(beams[1].tokens, best)
  BY <1>1, InTexts, BestTokenExists
<1>5. /\ DOMAIN s = 1..num_beams
      /\ \A i \in 1..num_beams : CandidateBeam(s[i]) = Extended(beams[1], best)
  BY <1>1, <1>2, <1>4, CopiesSelected
<1>6. DOMAIN beams' = 1..num_beams /\ \A i \in 1..num_beams : beams'[i] = Extended(beams[1], best)
  BY <1>3, <1>5
<1>7. /\ beams[1] \in Beam
      /\ \A t \in Vocab : LogProb(beams[1].tokens, t) \in Int
      /\ Extended(beams[1], best) \in Beam
      /\ Extended(beams[1], best).tokens = Append(beams[1].tokens, best)
      /\ Extended(beams[1], best).finished <=> best = eos_token_id
  <2>1. beams[1] \in Beam
    BY DEF BeamsOK
  <2>2. \A t \in Vocab : LogProb(beams[1].tokens, t) \in Int
    BY <1>1, InTexts, BeamsAssumption DEF Texts
  <2> QED BY <2>1, <2>2, ExtendedType
<1>8. /\ beams'[1] = Extended(beams[1], best)
      /\ \A i \in 1..num_beams : beams'[i] = beams'[1]
  BY <1>1, <1>6
<1>9. /\ Len(beams'[1].tokens) = Len(beams[1].tokens) + 1
      /\ beams'[1].tokens[Len(beams'[1].tokens)] = best
  <2>1. beams[1].tokens \in Seq(Vocab)
    BY <1>7 DEF Beam
  <2> QED BY <1>7, <1>8, <2>1, AppendProperties
<1>10. BeamsOK'
  <2>1. prompt' \in Prompts /\ steps' \in 0..max_new_tokens /\ steps' > 0
    BY <1>1, BeamsAssumption DEF BeamsOK
  <2>2. Len(beams'[1].tokens) = Len(prompt') + steps'
    <3>1. Len(prompt) \in Nat /\ steps \in Nat /\ Len(beams[1].tokens) = Len(prompt) + steps
      BY PromptType DEF BeamsOK
    <3> QED BY <1>1, <1>9, <3>1
  <2> QED BY <1>6, <1>7, <1>8, <1>9, <2>1, <2>2 DEF BeamsOK
<1>11. /\ \A u \in Vocab : LogProb(beams[1].tokens, u) <= LogProb(beams[1].tokens, best)
       /\ beams'[1].tokens = Append(beams[1].tokens, best)
  BY <1>4, <1>7, <1>8 DEF BestToken
<1> QED BY <1>2, <1>10, <1>11

LEMMA ReturnFrame ==
  ASSUME BeamsOK, UNCHANGED <<prompt, beams, steps>>
  PROVE  BeamsOK'
BY DEF BeamsOK

THEOREM BeamsInvariant == Spec => []BeamsOK
<1>1. Init => BeamsOK
  <2> SUFFICES ASSUME Init
               PROVE  BeamsOK
    OBVIOUS
  <2>1. prompt \in Prompts /\ steps = 0 /\ prompt \in Seq(Vocab) /\ Len(prompt) \in Nat
    BY PromptType DEF Init
  <2>2. num_beams \in Nat \ {0} /\ 1 \in 1..num_beams /\ max_new_tokens \in Nat
    BY BeamsAssumption
  <2>3. beams = [i \in 1..num_beams |->
                  [tokens |-> prompt, num |-> 0, den |-> 1, finished |-> FALSE]]
    BY DEF Init, StartBeams
  <2>4. /\ DOMAIN beams = 1..num_beams
        /\ \A i \in 1..num_beams :
             beams[i] = [tokens |-> prompt, num |-> 0, den |-> 1, finished |-> FALSE]
    BY <2>3
  <2>5. beams[1] = [tokens |-> prompt, num |-> 0, den |-> 1, finished |-> FALSE]
    BY <2>2, <2>4
  <2>6. /\ beams[1] \in Beam /\ beams[1].tokens = prompt /\ ~beams[1].finished
        /\ \A i \in 1..num_beams : beams[i] = beams[1]
    BY <2>1, <2>4, <2>5 DEF Beam
  <2> QED BY <2>1, <2>2, <2>4, <2>6 DEF BeamsOK
<1>2. BeamsOK /\ [Next]_vars => BeamsOK'
  <2> SUFFICES ASSUME BeamsOK, [Next]_vars
               PROVE  BeamsOK'
    OBVIOUS
  <2>1. CASE Step
    BY <2>1, BeamsStep
  <2>2. CASE Return \/ UNCHANGED vars
    BY <2>2, ReturnFrame DEF Return, vars
  <2> QED BY <2>1, <2>2 DEF Next
<1> QED BY <1>1, <1>2, PTL DEF Spec

-----------------------------------------------------------------------------
(* What follows                                                            *)

\* The beams are always copies of one another, for any number of them, with or without
\* the penalty, over any model: whatever num_beams costs, one text is searched.
THEOREM NothingButCopies == Spec => []BeamsAreCopies
<1>1. BeamsOK => BeamsAreCopies
  BY DEF BeamsOK, BeamsAreCopies
<1> QED BY <1>1, BeamsInvariant, PTL

\* What beam search returns is what greedy decoding returns: each turn adds the most
\* likely token to the text, and the search ends where greedy decoding does.
THEOREM BeamsDecodeGreedily == Spec => DecodesGreedily
<1>1. Init => GreedyText!Init
  <2> SUFFICES ASSUME Init
               PROVE  GreedyText!Init
    OBVIOUS
  <2>1. num_beams \in Nat \ {0} /\ 1 \in 1..num_beams
    BY BeamsAssumption
  <2> QED BY <2>1 DEF Init, StartBeams, GreedyText!Init
<1>2. BeamsOK /\ [Next]_vars =>
        [GreedyText!Extend \/ GreedyText!Return]_<<prompt, beams[1].tokens, result # <<>>>>
  <2> SUFFICES ASSUME BeamsOK, [Next]_vars
               PROVE  [GreedyText!Extend \/ GreedyText!Return]_<<prompt, beams[1].tokens,
                                                                  result # <<>>>>
    OBVIOUS
  <2>1. /\ Len(beams[1].tokens) = Len(prompt) + steps /\ Len(prompt) \in Nat /\ steps \in Nat
        /\ max_new_tokens \in Nat
        /\ beams[1].finished <=>
             steps > 0 /\ beams[1].tokens[Len(beams[1].tokens)] = eos_token_id
    BY PromptType, BeamsAssumption DEF BeamsOK
  <2>2. GreedyText!Ended <=> steps = max_new_tokens \/ beams[1].finished
    BY <2>1 DEF GreedyText!Ended
  <2>3. CASE Step
    <3>1. /\ steps < max_new_tokens /\ UNCHANGED <<prompt, result>> /\ result = <<>>
      BY <2>3 DEF Step
    <3>2. /\ ~beams[1].finished
          /\ \E t \in Vocab :
               /\ \A u \in Vocab : LogProb(beams[1].tokens, u) <= LogProb(beams[1].tokens, t)
               /\ beams'[1].tokens = Append(beams[1].tokens, t)
      BY <2>3, BeamsStep
    <3>3. ~GreedyText!Ended
      BY <2>1, <2>2, <3>1, <3>2
    <3> QED BY <3>1, <3>2, <3>3 DEF GreedyText!Extend
  <2>4. CASE Return
    <3>1. /\ result = <<>> /\ UNCHANGED <<prompt, beams>>
          /\ steps = max_new_tokens \/ Candidates = {}
      BY <2>4 DEF Return
    <3>2. CASE result' = <<>>
      BY <3>1, <3>2
    <3>3. CASE result' # <<>>
      <4>1. GreedyText!Ended
        <5>1. CASE steps = max_new_tokens
          BY <2>2, <5>1
        <5>2. CASE steps < max_new_tokens /\ ~beams[1].finished
          <6>1. PICK best \in Vocab : BestToken(beams[1].tokens, best)
            BY <5>2, InTexts, BestTokenExists
          <6>2. num_beams <= Cardinality(Candidates) /\ num_beams \in Nat \ {0}
                /\ Cardinality(Candidates) \in Nat
            BY <5>2, <6>1, BestCandidates, BeamsAssumption
          <6> QED BY <2>1, <3>1, <5>2, <6>2, FS_EmptySet
        <5>3. steps <= max_new_tokens
          BY DEF BeamsOK
        <5>4. \/ steps = max_new_tokens \/ beams[1].finished
              \/ (steps < max_new_tokens /\ ~beams[1].finished)
          BY <2>1, <5>3
        <5> QED BY <2>2, <5>1, <5>2, <5>4
      <4> QED BY <3>1, <3>3, <4>1 DEF GreedyText!Return
    <3> QED BY <3>2, <3>3
  <2>5. CASE UNCHANGED vars
    BY <2>5 DEF vars
  <2> QED BY <2>3, <2>4, <2>5 DEF Next
<1> QED BY <1>1, <1>2, BeamsInvariant, PTL DEF Spec, DecodesGreedily, GreedyText!Spec
=============================================================================
