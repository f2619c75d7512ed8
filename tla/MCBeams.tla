------------------------------ MODULE MCBeams -------------------------------
(* An instance of Beams for TLC. *)
EXTENDS Beams

ShortPrompts == BoundedSeq(Vocab, MaxPromptLen) \ {<<>>}

\* A model without ties: after each text the four tokens have the log
\* probabilities -1 to -4 in an order of its own, by multiplication modulo 5.
MCLogProb(text, t) ==
  LET hash == FoldLeft(LAMBDA sum, u : 3 * sum + u, Len(text), text)
  IN -((t * (1 + (hash % 4))) % 5)
=============================================================================
