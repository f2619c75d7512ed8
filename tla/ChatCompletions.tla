-------------------------- MODULE ChatCompletions --------------------------
(***************************************************************************)
(* The chat completions handler (api/openai.rs) with the tokenizer         *)
(* (api/tokenizer.rs): from the payload of a client to a Request of the    *)
(* scheduler, and from the tokens on its channel to what the client reads. *)
(* A text is a sequence of letters.  tk is the tokenizer of the server:    *)
(*   loaded  whether there is one                                          *)
(*   bos     whether it begins what it encodes with a special token        *)
(*   space   whether it puts a space in front of a text, and decodes       *)
(*           without it                                                    *)
(*   merges  whether it has a token for a pair of letters                  *)
(* and p a payload: messages, stream, max_tokens, stop (texts).            *)
(***************************************************************************)
EXTENDS Integers, SequencesExt

-----------------------------------------------------------------------------
(* tokenizers: every letter has a token, and the pair may have one; what a *)
(* text is encoded as depends on what is in front of it                    *)

Bos == 0
Pair == <<2, 1>>
Merged == 3             \* the token of the pair
Space == 4
NotEncodable == 8       \* a letter encode fails on
NotDecodable == 9       \* a token decode fails on
Tokens == {Bos, 1, 2, Merged, Space, NotDecodable}

\* The tokens a model generates for a tokenizer, or without one.
Vocabulary(tk) ==
  {Bos, 1, 2, NotDecodable} \cup (IF tk.merges THEN {Merged} ELSE {})
                            \cup (IF tk.space THEN {Space} ELSE {})

Encodes(text) == \A i \in DOMAIN text : text[i] # NotEncodable
Decodes(tokens) == \A i \in DOMAIN tokens : tokens[i] # NotDecodable

\* What tokens spell.
Spelling(token) == CASE token = Bos -> <<>>
                     [] token = Merged -> Pair
                     [] OTHER -> <<token>>
Spelled(tokens) == FlattenSeq([i \in DOMAIN tokens |-> Spelling(tokens[i])])

\* The tokens of the letters of a text: a pair has one, wherever it stands.
PairAt(text, i) == i \in 1..Len(text) - 1 /\ text[i] = Pair[1] /\ text[i + 1] = Pair[2]
PieceAt(text, i) == CASE PairAt(text, i) -> <<Merged>>
                      [] PairAt(text, i - 1) -> <<>>
                      [] OTHER -> <<text[i]>>
Pieces(tk, text) ==
  IF tk.merges THEN FlattenSeq([i \in DOMAIN text |-> PieceAt(text, i)]) ELSE text

\* A text as it is cut into pieces.
Led(tk, text) == (IF tk.space /\ text # <<>> THEN <<Space>> ELSE <<>>) \o text
Specials(tk) == IF tk.bos THEN <<Bos>> ELSE <<>>

\* A slip, or the repair: no special tokens are added.
EncodePlain(tk, text) == Pieces(tk, Led(tk, text))

\* LuminaTokenizer::encode asks for the special tokens, decode for none.
Encode(tk, text) == Specials(tk) \o Pieces(tk, Led(tk, text))
Plain(tk, tokens) ==
  LET text == Spelled(tokens)
  IN IF tk.space /\ text # <<>> /\ text[1] = Space THEN Tail(text) ELSE text

-----------------------------------------------------------------------------
(* The request                                                             *)

\* extract_prompt_text: role and texts of each message; an image has no text.
PromptText(messages) ==
  FlattenSeq([i \in DOMAIN messages |->
    <<messages[i].role>> \o FlattenSeq([j \in DOMAIN messages[i].items |-> messages[i].items[j].text])])

\* The stop strings a tokenizer has tokens for.
StopTokenIds(tk, p) ==
  IF tk.loaded THEN {Encode(tk, p.stop[i]) : i \in {j \in DOMAIN p.stop : Encodes(p.stop[j])}} \ {<<>>}
               ELSE {}

Rejected(status) == [ok |-> FALSE, status |-> status]

\* Without messages, or with a prompt the tokenizer fails on, nothing reaches the
\* scheduler.  Without a tokenizer every prompt is the same.
Post(tk, p) ==
  IF p.messages = <<>> THEN Rejected(400)
  ELSE IF tk.loaded /\ ~Encodes(PromptText(p.messages)) THEN Rejected(422)
  ELSE [ok |-> TRUE, status |-> 200,
        prompt_tokens |-> IF tk.loaded THEN Encode(tk, PromptText(p.messages)) ELSE <<1, 2, 3>>,
        max_tokens |-> p.max_tokens, stop_token_ids |-> StopTokenIds(tk, p),
        generated |-> <<>>, channel |-> <<>>, closed |-> FALSE, expired |-> FALSE,
        all_tokens |-> <<>>, events |-> <<>>, done |-> FALSE]

-----------------------------------------------------------------------------
(* The engine, as the handler sees it: h is the request and its handler    *)

\* `generated_tokens.len() >= max_tokens`, or a stop sequence was matched.
Finishes(h, generated) ==
  \/ Len(generated) >= h.max_tokens
  \/ \E s \in h.stop_token_ids : IsSuffix(s, generated)

\* A token is sent; with the last one the request and its sender are dropped.
Generated(h, token) ==
  LET generated == Append(h.generated, token)
  IN [h EXCEPT !.generated = generated, !.channel = Append(@, token),
               !.closed = Finishes(h, generated)]

\* The deadline drops them as well.
Expired(h) == [h EXCEPT !.closed = TRUE, !.expired = TRUE]

-----------------------------------------------------------------------------
(* The answer                                                              *)

Word(t) == [as |-> "text", of |-> t]
Name(t) == [as |-> "token_", of |-> t]
Words(text) == [i \in DOMAIN text |-> Word(text[i])]
Names(tokens) == [i \in DOMAIN tokens |-> Name(tokens[i])]

\* What a delta says: with a tokenizer, all the tokens so far.
DeltaContent(tk, all_tokens) ==
  IF tk.loaded /\ Decodes(all_tokens) THEN Words(Plain(tk, all_tokens)) ELSE Names(<<Last(all_tokens)>>)

\* What the whole answer says.
AnswerContent(tk, all_tokens) ==
  IF tk.loaded /\ Decodes(all_tokens) THEN Words(Plain(tk, all_tokens)) ELSE Names(all_tokens)

\* rx.recv() returns what was sent before it returns that the sender is gone.
Received(tk, p, h) ==
  LET all_tokens == Append(h.all_tokens, Head(h.channel))
  IN [h EXCEPT !.channel = Tail(@), !.all_tokens = all_tokens,
               !.events = IF p.stream THEN Append(@, [data |-> "delta", content |-> DeltaContent(tk, all_tokens)])
                                    ELSE @]

\* A slip: the sender is gone, that is the end.
AtEndWhenDropped(h) == h.closed
AtEnd(h) == h.closed /\ h.channel = <<>>

\* [DONE] ends a stream; any other answer is one body.
Ended(tk, p, h) ==
  LET prompt_tokens == IF tk.loaded THEN Len(Encode(tk, PromptText(p.messages))) ELSE 0
      body == [data |-> "body", content |-> AnswerContent(tk, h.all_tokens), finish_reason |-> "stop",
               prompt_tokens |-> prompt_tokens, completion_tokens |-> Len(h.all_tokens),
               total_tokens |-> prompt_tokens + Len(h.all_tokens)]
  IN [h EXCEPT !.done = TRUE, !.events = Append(@, IF p.stream THEN [data |-> "[DONE]"] ELSE body)]
=============================================================================
