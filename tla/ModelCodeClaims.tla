-------------------------- MODULE ModelCodeClaims --------------------------
(***************************************************************************)
(* What the README says of the functions of MCModelCode, and the code does *)
(* not do.  It is checked by a run that is expected to violate it.         *)
(***************************************************************************)
EXTENDS MCModelCode

\* The deltas of the README's stream, "I'm" and " doing" (README.md:139), are the pieces of
\* an answer: one after the other they are the whole.  Each delta of the code decodes
\* all the tokens so far, so that a client that appends them reads the start of the
\* answer again with every token.
DeltasAreThePieces ==
  call.op = "chat" /\ result # NoResult /\ result.ok /\ result.done /\ call.payload.stream =>
    FlattenSeq([i \in DOMAIN Front(result.events) |-> result.events[i].content])
      = Chat!AnswerContent(call.tk, result.generated)
=============================================================================
