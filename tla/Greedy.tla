------------------------------- MODULE Greedy -------------------------------
(***************************************************************************)
(* Greedy decoding over an abstract model: the text grows by the most      *)
(* likely token until it ends with eos or has max_new_tokens new ones.     *)
(***************************************************************************)
EXTENDS Integers, Sequences

CONSTANTS Vocab, eos_token_id, max_new_tokens, Prompts,
          LogProb(_, _)     \* of a next token after a text

VARIABLES prompt, text, done

Init == prompt \in Prompts /\ text = prompt /\ done = FALSE

Ended == \/ Len(text) = Len(prompt) + max_new_tokens
         \/ Len(text) > Len(prompt) /\ text[Len(text)] = eos_token_id

Extend ==
  /\ ~done /\ ~Ended
  /\ \E t \in Vocab : /\ \A u \in Vocab : LogProb(text, u) <= LogProb(text, t)
                      /\ text' = Append(text, t)
  /\ UNCHANGED <<prompt, done>>

Return ==
  /\ ~done /\ Ended
  /\ done' = TRUE
  /\ UNCHANGED <<prompt, text>>

Spec == Init /\ [][Extend \/ Return]_<<prompt, text, done>>
=============================================================================
