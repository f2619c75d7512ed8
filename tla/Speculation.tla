---------------------------- MODULE Speculation -----------------------------
(***************************************************************************)
(* SpeculativeDecoder (speculative.rs): the n-gram table, the drafts of    *)
(* its three strategies and their verification.                            *)
(*                                                                         *)
(* A model m (external) takes token ids of shape <<1, n>>.  The models of  *)
(* this repository return logits of shape <<1, n, vocabulary>>, a GGUF     *)
(* model (m.quantized) those after the last token, <<1, vocabulary>>.  The *)
(* most likely token after t is m.next[t].  What the decoder does to the   *)
(* logits on the way to a token is followed by shapes: to_scalar is an     *)
(* error unless no dimension is left.                                      *)
(***************************************************************************)
EXTENDS Integers, SequencesExt

VocabSize == 2

\* The shape of the logits, <<>> for an error.
Logits(m, shape) ==
  IF Len(shape) # 2 THEN <<>>
  ELSE IF m.quantized THEN <<shape[1], VocabSize>> ELSE Append(shape, VocabSize)

Squeeze(shape, d) == IF d <= Len(shape) /\ shape[d] = 1 THEN RemoveAt(shape, d) ELSE shape

\* logits.squeeze(1)?.squeeze(0)?.argmax(0)?.to_scalar() after one forward pass over
\* tokens: the set of the token, empty for an error.
Token(m, shape, tokens) ==
  IF Len(Squeeze(Squeeze(Logits(m, shape), 2), 1)) = 1 THEN {m.next[Last(tokens)]} ELSE {}

\* A slip, or the repair: logits.get(0).get(i), the i-th position.
TokenAtPosition(m, tokens, i) == {m.next[tokens[i]]}

\* logits.get(i)?.argmax(0)?.to_scalar(), i counted from 1: a token only if the
\* first dimension has an i-th entry and that is a vector.
TokenAt(m, tokens, i) ==
  LET logits == Logits(m, <<1, Len(tokens)>>)
  IN IF Len(logits) = 2 /\ i <= logits[1] THEN {m.next[Last(tokens)]} ELSE {}

Error == [ok |-> FALSE]
Ok(tokens) == [ok |-> TRUE, tokens |-> tokens]
OkToken(token) == IF token = {} THEN Error ELSE Ok(<<CHOOSE t \in token : TRUE>>)

-----------------------------------------------------------------------------

\* Where a window of `order` tokens begins: sequence and index.
Windows(corpus, order) ==
  UNION {{<<s, i>> : i \in 1..Len(corpus[s]) - order + 1} : s \in DOMAIN corpus}

InsertedBefore(p, q) == p[1] < q[1] \/ (p[1] = q[1] /\ p[2] < q[2])

\* build_ngram_table: a later window replaces an earlier one that begins alike.
NgramTable(corpus, order) ==
  LET windows == Windows(corpus, order)
      Prefix(p) == SubSeq(corpus[p[1]], p[2], p[2] + order - 2)
      Latest(prefix) == CHOOSE p \in windows :
                          /\ Prefix(p) = prefix
                          /\ \A q \in windows : Prefix(q) = prefix => ~InsertedBefore(p, q)
      Following(p) == corpus[p[1]][p[2] + order - 1]
  IN [prefix \in {Prefix(p) : p \in windows} |-> Following(Latest(prefix))]

\* A slip: the oldest tokens of the context are looked up.
ContextHead(context, order) == SubSeq(context, 1, order - 1)
ContextTail(context, order) == SubSeq(context, Len(context) - order + 2, Len(context))

\* Drafts[k]: after k turns; each draft is context for the next.
NgramDrafts(d, context) ==
  LET table == NgramTable(d.corpus, d.order)
      Extended(drafts) ==
        LET ctx == context \o drafts
            prefix == ContextTail(ctx, d.order)
        IN IF Len(ctx) >= d.order /\ prefix \in DOMAIN table
             THEN Append(drafts, table[prefix]) ELSE drafts
      Drafts[k \in 0..d.lookahead] == IF k = 0 THEN <<>> ELSE Extended(Drafts[k - 1])
  IN Drafts[d.lookahead]

\* The draft model reads the input, and then each draft as a tensor of shape
\* <<1, 1, 1>>.
ModelDrafts(d, input) ==
  LET first == Token(d.draft, <<1, Len(input)>>, input)
      later == Token(d.draft, <<1, 1, 1>>, <<d.draft.next[Last(input)]>>)
  IN IF d.lookahead > 1 /\ later = {} THEN Error ELSE OkToken(first)

\* The target reads the last token, repeated, and gives one draft per repetition.
ParallelDrafts(d, context) ==
  LET repeated == [k \in 1..d.lookahead |-> Last(context)]
  IN IF \E i \in 1..d.lookahead : TokenAt(d.target, repeated, i) = {} THEN Error
     ELSE Ok([i \in 1..d.lookahead |-> CHOOSE t \in TokenAt(d.target, repeated, i) : TRUE])

GenerateDrafts(d, input, context) ==
  CASE d.strategy = "DraftModel" -> ModelDrafts(d, input)
    [] d.strategy = "Ngram" -> Ok(NgramDrafts(d, context))
    [] d.strategy = "Parallel" -> ParallelDrafts(d, context)

\* verify_drafts: the target reads the drafts; each is accepted if the target's
\* token equals it, otherwise that token is returned in its place and the rest dropped.
VerifyDrafts(d, input, drafts) ==
  LET Looked(acc, i) ==
        LET top == TokenAt(d.target, drafts, i)
        IN IF ~acc.ok \/ acc.tokens # SubSeq(drafts, 1, i - 1) THEN acc
           ELSE IF top = {} THEN Error
           ELSE Ok(acc.tokens \o OkToken(top).tokens)
      Accepted[i \in 0..Len(drafts)] == IF i = 0 THEN Ok(<<>>) ELSE Looked(Accepted[i - 1], i)
  IN IF drafts = <<>> THEN OkToken(Token(d.target, <<1, Len(input)>>, input))
     ELSE Accepted[Len(drafts)]

\* step
SpeculativeStep(d, input, context) ==
  LET drafts == GenerateDrafts(d, input, context)
  IN IF drafts.ok THEN VerifyDrafts(d, input, drafts.tokens) ELSE Error
=============================================================================
