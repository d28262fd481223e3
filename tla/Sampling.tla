------------------------------ MODULE Sampling ------------------------------
(***************************************************************************)
(* How the training programs draw a token (sample_top_p and LLaMA.generate *)
(* of train_llama3.py, GPT.generate of train_gpt2.py) and cut what they    *)
(* return.  A distribution gives every token its weight; the weights of a  *)
(* distribution sum up to the same number.                                 *)
(***************************************************************************)
EXTENDS Integers, Sequences, FiniteSets, SequencesExt

CONSTANTS
  Vocab,       \* tokens
  StopTokens,  \* tokenizer.stop_tokens
  Probs(_),    \* Probs(tokens): the distribution after these tokens
  BlockLength  \* config.block_size

ASSUME SamplingAssumption ==
  IsFiniteSet(Vocab) /\ StopTokens \subseteq Vocab /\ BlockLength \in Nat \ {0}

\* The sum of the weights of the tokens in S: how many units of weight they have.
Mass(w, S) == Cardinality(UNION {{t} \X (1 .. w[t]) : t \in S})

\* Operators named X_Y are faulty variants of X that the properties must notice.
Heavier_Ascending(w, t) == {u \in Vocab : w[u] < w[t]}
Heavier(w, t) == {u \in Vocab : w[u] > w[t]}

\* torch.sort, descending, with ties in any order: what may come before t.
Preceding(w, t) ==
  {Heavier(w, t) \cup S : S \in SUBSET {u \in Vocab \ {t} : w[u] = w[t]}}

Masked_WithOwn(w, t, before, p) == Mass(w, before \cup {t}) > p

\* probs_sum - probs_sort > p
Masked(w, t, before, p) == Mass(w, before) > p

\* sample_top_p: the tokens it may draw.
TopPDraws(w, p) ==
  {t \in Vocab : w[t] > 0 /\ \E before \in Preceding(w, t) : ~ Masked(w, t, before, p)}

\* What its documentation asks for: the smallest set whose mass exceeds the threshold, made
\* of the most probable tokens.
Nuclei(w, p) ==
  LET Enough == {S \in SUBSET Vocab : Mass(w, S) > p}
      Smallest == {S \in Enough : \A T \in Enough : Cardinality(T) >= Cardinality(S)}
  IN  {S \in Smallest : \A T \in Smallest : Mass(w, T) <= Mass(w, S)}

\* GPT.generate: logits below the k-th largest are dropped, ties with it are kept.
TopKDraws(w, k) == {t \in Vocab : w[t] > 0 /\ Cardinality(Heavier(w, t)) < k}

ArgMax(w) == {t \in Vocab : \A u \in Vocab : w[u] <= w[t]}

-----------------------------------------------------------------------------
\* A call: a record of its model, prompts, max_gen_len, sampling ("top_p", "top_k" or
\* "argmax", with its threshold), and echo.
MaxPromptLen(call) == CHOOSE n \in {Len(call.prompts[i]) : i \in DOMAIN call.prompts} :
                        \A i \in DOMAIN call.prompts : Len(call.prompts[i]) <= n
MinPromptLen(call) == CHOOSE n \in {Len(call.prompts[i]) : i \in DOMAIN call.prompts} :
                        \A i \in DOMAIN call.prompts : Len(call.prompts[i]) >= n

\* total_len, or the length GPT.generate reaches.
TotalLen(call) ==
  LET n == call.max_gen_len + MaxPromptLen(call)
  IN  IF call.model = "llama" /\ BlockLength < n THEN BlockLength ELSE n

\* The returned part of a row: after the prompt, no longer than max_gen_len, and up to
\* the first stop token; GPT.generate returns the row.
CutToLength(call, i, row) ==
  LET n == Len(call.prompts[i])
  IN  SubSeq(row, IF call.echo THEN 1 ELSE n + 1, Min({Len(row), n + call.max_gen_len}))
CutAtStop(out) ==
  LET stops == {k \in DOMAIN out : out[k] \in StopTokens}
  IN  IF stops = {} THEN out ELSE SubSeq(out, 1, Min(stops) - 1)
Returned(call, i, row) ==
  IF call.model = "llama" THEN CutAtStop(CutToLength(call, i, row)) ELSE row

=============================================================================
