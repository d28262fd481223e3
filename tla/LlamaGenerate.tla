--------------------------- MODULE LlamaGenerate ---------------------------
(***************************************************************************)
(* Text generation in the training programs: LLaMA.generate, which runs a  *)
(* batch of prompts of different lengths on a K/V cache that outlives the  *)
(* call (train_llama3.py), GPT.generate, which recomputes a cropped text   *)
(* for every token (train_gpt2.py), and the pieces in which a prompt is    *)
(* tokenized; and what Evaluation promises.                                *)
(*                                                                         *)
(* The cache of one row is a sequence by position; an entry is the list of *)
(* tokens its K/V were computed after, or Stale.                           *)
(***************************************************************************)
EXTENDS Evaluation

CONSTANTS
  Calls, NoCall,
  PadId,              \* tokenizer.pad_id, in no prompt
  MaxGenBatch,        \* config.max_gen_batch_size, the rows of the cache
  ValidationBatches,  \* batch sizes of the validation
  ValidationRow,      \* a row of the validation data
  MaxWeight,          \* bound: weights for which sampling is checked
  MaxCalls            \* bound: calls, and validations, of one process

\* The texts the model is ever asked about.
ModelTexts == UNION {[1 .. n -> Vocab] : n \in 1 .. BlockLength}

ASSUME GenerateAssumption ==
  /\ PadId \in Vocab \ StopTokens /\ MaxGenBatch \in Nat \ {0}
  /\ {MaxCalls, MaxWeight} \subseteq Nat
  /\ Len(ValidationRow) = BlockLength
  /\ NoCall \notin Calls
  /\ \A s \in ModelTexts : Probs(s) \in [Vocab -> Nat]
  /\ \A c \in Calls :
       /\ c.prompts # << >> /\ c.prompts \in Seq(Seq(Vocab) \ {<< >>})
       /\ c.model \in {"llama", "gpt2"} /\ c.max_gen_len \in Nat
       /\ \A i \in DOMAIN c.prompts : PadId \notin Range(c.prompts[i])
       \* GPT.generate takes a tensor, which has rows of one length
       /\ c.model = "gpt2" => \A i, j \in DOMAIN c.prompts : Len(c.prompts[i]) = Len(c.prompts[j])
       \* a threshold is below the mass of a distribution, which is 1 in the code
       /\ c.sampling = "top_p" =>
            c.threshold \in Nat /\ \A s \in ModelTexts : c.threshold < Mass(Probs(s), Vocab)

VARIABLES
  phase,                     \* "idle", "loop", "failed" (an assertion, or a shape mismatch)
  call, tokens, out,
  prev_pos, cur_pos, eos_reached,
  cache,                     \* cache_k and cache_v
  calls

gen_vars == <<phase, call, tokens, out, prev_pos, cur_pos, eos_reached, cache, calls>>

Stale == << >>
Bsz(c) == Len(c.prompts)

GenInit ==
  /\ phase = "idle"
  /\ call = NoCall /\ tokens = << >> /\ out = << >>
  /\ prev_pos = 0 /\ cur_pos = 0 /\ eos_reached = << >>
  /\ cache = [b \in 1 .. MaxGenBatch |-> [p \in 1 .. BlockLength |-> Stale]]
  /\ calls = 0

-----------------------------------------------------------------------------
\* Operators named X_Y are faulty variants of X that the properties must notice.
(***************************************************************************)
(* The forward pass with the K/V cache.                                    *)
(***************************************************************************)
\* The K/V of chunk[k] fed at start + k - 1 (counted from 0): right if the cached entries
\* before the chunk are one history.
EntryAfter(row, chunk, start, k) ==
  LET history == IF start = 0 THEN << >> ELSE row[start]
  IN  IF \A p \in 1 .. start : row[p] = SubSeq(history, 1, p) /\ row[p] # Stale
      THEN history \o SubSeq(chunk, 1, k) ELSE Stale

ForwardRow_AtZero(row, chunk, start) ==
  [p \in DOMAIN row |-> IF p \in 1 .. Len(chunk) THEN EntryAfter(row, chunk, start, p) ELSE row[p]]
ForwardRow(row, chunk, start) ==
  [p \in DOMAIN row |->
     IF p \in start + 1 .. start + Len(chunk) THEN EntryAfter(row, chunk, start, p - start) ELSE row[p]]

\* The first rows of the cache are written, the others keep what they hold.
Forward(chunks, start) ==
  [b \in DOMAIN cache |-> IF b \in DOMAIN chunks THEN ForwardRow(cache[b], chunks[b], start) ELSE cache[b]]

\* What row i may draw: its last position attends to everything before it.
Draws(w, c) ==
  CASE c.sampling = "top_p" -> TopPDraws(w, c.threshold)
    [] c.sampling = "top_k" -> TopKDraws(w, c.threshold)
    [] OTHER -> ArgMax(w)
NextTokens(entry) == IF entry = Stale THEN Vocab ELSE Draws(Probs(entry), call)

-----------------------------------------------------------------------------
(***************************************************************************)
(* LLaMA.generate.                                                         *)
(***************************************************************************)
\* The prompts, padded to total_len.
Padded(c) ==
  [i \in 1 .. Bsz(c) |-> [k \in 1 .. TotalLen(c) |->
     IF k <= Len(c.prompts[i]) THEN c.prompts[i][k] ELSE PadId]]

Accepts(c) == Bsz(c) <= MaxGenBatch /\ MaxPromptLen(c) <= BlockLength

BeginLlama ==
  /\ phase = "idle" /\ calls < MaxCalls
  /\ \E c \in Calls :
       /\ c.model = "llama"
       /\ IF Accepts(c)
          THEN /\ phase' = "loop"
               /\ call' = c /\ tokens' = Padded(c) /\ out' = << >>
               /\ prev_pos' = 0 /\ cur_pos' = MinPromptLen(c)
               /\ eos_reached' = [i \in 1 .. Bsz(c) |-> FALSE]
               /\ cache' = IF MinPromptLen(c) = TotalLen(c) THEN Forward(Padded(c), 0) ELSE cache
          ELSE /\ phase' = "failed"
               /\ UNCHANGED <<call, tokens, out, prev_pos, cur_pos, eos_reached, cache>>
  /\ calls' = calls + 1

InputText(i) == cur_pos < Len(call.prompts[i])

\* One iteration: cur_pos, counted from 0, is filled in every row.
GenerateToken ==
  /\ phase = "loop" /\ call.model = "llama"
  /\ cur_pos < TotalLen(call) /\ ~ (\A i \in DOMAIN tokens : eos_reached[i])
  /\ LET written == Forward([i \in DOMAIN tokens |-> SubSeq(tokens[i], prev_pos + 1, cur_pos)], prev_pos)
         options == [i \in DOMAIN tokens |->
                       IF InputText(i) THEN {tokens[i][cur_pos + 1]} ELSE NextTokens(written[i][cur_pos])]
     IN  /\ cache' = written
         /\ \E next \in [DOMAIN tokens -> UNION Range(options)] :
              /\ \A i \in DOMAIN tokens : next[i] \in options[i]
              /\ tokens' = [i \in DOMAIN tokens |-> [tokens[i] EXCEPT ![cur_pos + 1] = next[i]]]
              /\ eos_reached' = [i \in DOMAIN tokens |->
                                   eos_reached[i] \/ (~ InputText(i) /\ next[i] \in StopTokens)]
  /\ prev_pos' = cur_pos
  /\ cur_pos' = cur_pos + 1
  /\ UNCHANGED <<phase, call, out, calls>>

\* What has been generated: the rows up to cur_pos, the longer prompts whole.
Text(i) == SubSeq(tokens[i], 1, IF cur_pos < Len(call.prompts[i]) THEN Len(call.prompts[i]) ELSE cur_pos)

\* The rows are cut from tokens as they are, padding included: a row is full or has a stop
\* token before its padding.
ReturnLlama ==
  /\ phase = "loop" /\ call.model = "llama"
  /\ cur_pos = TotalLen(call) \/ \A i \in DOMAIN tokens : eos_reached[i]
  /\ out' = [i \in DOMAIN tokens |-> Returned(call, i, tokens[i])]
  /\ phase' = "idle"
  /\ UNCHANGED <<call, tokens, prev_pos, cur_pos, eos_reached, cache, calls>>

(***************************************************************************)
(* GPT.generate: no cache.                                                 *)
(***************************************************************************)
BeginGPT ==
  /\ phase = "idle" /\ calls < MaxCalls
  /\ \E c \in Calls :
       /\ c.model = "gpt2"
       /\ call' = c /\ tokens' = c.prompts
       /\ cur_pos' = MaxPromptLen(c)
       /\ eos_reached' = [i \in 1 .. Bsz(c) |-> FALSE]
  /\ prev_pos' = 0 /\ out' = << >>
  /\ phase' = "loop"
  /\ calls' = calls + 1
  /\ UNCHANGED cache

\* idx_cond
Cropped(row) == IF Len(row) <= BlockLength THEN row ELSE SubSeq(row, Len(row) - BlockLength + 1, Len(row))

AppendToken ==
  /\ phase = "loop" /\ call.model = "gpt2"
  /\ cur_pos < TotalLen(call)
  /\ LET options == [i \in DOMAIN tokens |-> Draws(Probs(Cropped(tokens[i])), call)]
     IN  \E next \in [DOMAIN tokens -> Vocab] :
       /\ \A i \in DOMAIN tokens : next[i] \in options[i]
       /\ tokens' = [i \in DOMAIN tokens |-> Append(tokens[i], next[i])]
  /\ cur_pos' = cur_pos + 1
  /\ UNCHANGED <<phase, call, out, prev_pos, eos_reached, cache, calls>>

ReturnGPT ==
  /\ phase = "loop" /\ call.model = "gpt2"
  /\ cur_pos = TotalLen(call)
  /\ out' = tokens
  /\ phase' = "idle"
  /\ UNCHANGED <<call, tokens, prev_pos, cur_pos, eos_reached, cache, calls>>

\* The validation runs the model in evaluation mode with start_pos 0: it writes the cache
\* too, and fails if it has more rows than the cache.
Validate ==
  /\ phase = "idle" /\ calls < MaxCalls
  /\ \E b \in ValidationBatches :
       IF b <= MaxGenBatch
       THEN cache' = Forward([i \in 1 .. b |-> ValidationRow], 0) /\ UNCHANGED phase
       ELSE phase' = "failed" /\ UNCHANGED cache
  /\ calls' = calls + 1
  /\ UNCHANGED <<call, tokens, out, prev_pos, cur_pos, eos_reached>>

GenNext ==
  \/ BeginLlama \/ GenerateToken \/ ReturnLlama
  \/ BeginGPT \/ AppendToken \/ ReturnGPT
  \/ Validate

GenSpec == GenInit /\ [][GenNext]_gen_vars

-----------------------------------------------------------------------------
(***************************************************************************)
(* Tokenizer.encode: a text is a sequence of BOOLEANs, TRUE for a white    *)
(* space; the tokens of a piece are left to tiktoken.                      *)
(***************************************************************************)
CONSTANTS MaxEncodeChars, MaxConsecutive, MaxText  \* MaxText: bound

ASSUME EncodeAssumption == {MaxEncodeChars, MaxConsecutive} \subseteq Nat \ {0} /\ MaxText \in Nat

\* _split_whitespaces_or_nonwhitespaces, character by character.
SplitStep_KeepsStart(s, st, i) ==
  IF st.is_space # s[i] THEN [st EXCEPT !.len = 1, !.is_space = s[i]]
  ELSE IF st.len + 1 > MaxConsecutive
       THEN [st EXCEPT !.pieces = Append(@, SubSeq(s, st.start, i - 1)), !.len = 1]
       ELSE [st EXCEPT !.len = @ + 1]
SplitStep(s, st, i) ==
  IF st.is_space # s[i] THEN [st EXCEPT !.len = 1, !.is_space = s[i]]
  ELSE IF st.len + 1 > MaxConsecutive
       THEN [st EXCEPT !.pieces = Append(@, SubSeq(s, st.start, i - 1)), !.start = i, !.len = 1]
       ELSE [st EXCEPT !.len = @ + 1]
Split(s) ==
  LET st[i \in 0 .. Len(s)] ==
        IF i = 0 THEN [len |-> 0, is_space |-> Len(s) > 0 /\ s[1], start |-> 1, pieces |-> << >>]
        ELSE SplitStep(s, st[i - 1], i)
      end == st[Len(s)]
  IN  Append(end.pieces, SubSeq(s, end.start, Len(s)))

\* encode: slices of TIKTOKEN_MAX_ENCODE_CHARS, each split again.
EncodedPieces(s) ==
  FlattenSeq([c \in 1 .. (Len(s) + MaxEncodeChars - 1) \div MaxEncodeChars |->
    Split(SubSeq(s, (c - 1) * MaxEncodeChars + 1, Min({Len(s), c * MaxEncodeChars})))])

-----------------------------------------------------------------------------
(***************************************************************************)
(* What generation promises.                                               *)
(***************************************************************************)

\* Seen as one text per row, generation is autoregressive sampling: batching prompts of
\* different lengths, padding, the cache and what it holds from earlier calls, nucleus
\* sampling by sorting, and stopping when all rows have stopped change nothing.
GenText == IF call # NoCall /\ call.model = "llama" THEN [i \in DOMAIN tokens |-> Text(i)] ELSE tokens
A == INSTANCE Autoregress WITH text <- GenText
GenerateImplementsAutoregress == A!Spec

\* Everything row i attends to in the next iteration was computed in this call from row
\* i's own tokens, although the cache is never cleared (CausalSelfAttention.forward).
CacheHoldsOwnText ==
  phase = "loop" /\ call.model = "llama" =>
    \A i \in DOMAIN tokens : \A p \in 1 .. prev_pos : cache[i][p] = SubSeq(tokens[i], 1, p)

\* The pure algorithms are checked once, over all bounded inputs, in the initial state.
Started == phase = "idle" /\ calls = 0

\* sample_top_p draws from the smallest set of tokens whose mass exceeds the threshold, and
\* can draw every token of it: for all weights, with ties, zeros and exact sums.
NucleusIsSmallest ==
  Started => \A w \in [Vocab \ {PadId} -> 0 .. MaxWeight] :
    LET v == [t \in Vocab |-> IF t = PadId THEN 0 ELSE w[t]]
    IN  \A p \in 0 .. Mass(v, Vocab) - 1 :
          TopPDraws(v, p) = {t \in UNION Nuclei(v, p) : v[t] > 0}

\* No character of a prompt is lost or repeated on the way to tiktoken, and no piece is
\* beyond what it takes: not too long, no run of white space or of other characters too
\* long (Tokenizer.encode).
PiecesReassemble ==
  Started => \A n \in 0 .. MaxText : \A s \in [1 .. n -> BOOLEAN] :
    LET pieces == EncodedPieces(s)
    IN  /\ FlattenSeq(pieces) = s
        /\ \A k \in DOMAIN pieces :
             LET piece == pieces[k]
             IN  /\ piece # << >> /\ Len(piece) <= MaxEncodeChars
                 /\ \A i \in 1 .. Len(piece) - MaxConsecutive :
                      \E j \in i + 1 .. i + MaxConsecutive : piece[j] # piece[i]

\* The score the C program prints is the one its Python reference computes, in every
\* evaluation of a training: each example is scored once, by one process, with its own
\* tokens and label, although batches are filled in part and keep what the examples before
\* left in them (evalloader_next_batch: "no need to do it for inputs & targets").
EvaluationsAgree ==
  Started => \A n \in 1 .. MaxExamples : \A datas \in [1 .. n -> Examples] : \A conf \in EvalConfigs :
    LET file == WriteEvalFile(datas)
        score == NumCorrectNorm(datas)
    IN  Opens(conf, file) /\ ExamplesFit(conf, datas)
        /\ (\A r \in 0 .. conf.num_processes - 1 : Starts(conf, file, r)) =>
          EvalAccNorm(conf, file) = <<score, score>>
=============================================================================
