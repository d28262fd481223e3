----------------------------- MODULE Evaluation -----------------------------
(***************************************************************************)
(* Multiple-choice evaluation (HellaSwag, MMLU): the score the Python      *)
(* scripts compute, the .bin file they write for the C programs, and the   *)
(* EvalLoader that reads it there, several examples to a batch and a part  *)
(* of the file to each process (llmc/dataloader.h).  Operators only; a     *)
(* process of the C program is a fold over its batches.                    *)
(*                                                                         *)
(* An example is a context, NumCompletions endings, each one token or      *)
(* more, and the label of the right one, counted from 0.                   *)
(***************************************************************************)
EXTENDS Sampling

CONSTANTS
  NumCompletions,  \* 4 in the code
  Examples,        \* the examples a data set is made of
  EvalConfigs,     \* records of B, T and num_processes
  MaxExamples      \* bound: examples of a data set

ASSUME EvaluationAssumption ==
  /\ NumCompletions \in Nat \ {0} /\ MaxExamples \in Nat
  /\ \A e \in Examples :
       /\ e.ctx \in Seq(Nat) \ {<< >>}
       /\ e.endings \in Seq(Seq(Nat) \ {<< >>}) /\ Len(e.endings) = NumCompletions
       /\ e.label \in 0 .. NumCompletions - 1
  /\ \A c \in EvalConfigs : {c.B, c.T, c.num_processes} \subseteq Nat \ {0}

\* The cross entropy of t after a text: the less, the more probable.
Loss(text, t) == Mass(Probs(text), Vocab) - Probs(text)[t]

\* Averages are pairs of a sum and a count; the smallest, and the first of equal ones.
Below(x, y) == x[1] * y[2] < y[1] * x[2]
FirstLeast(avg) ==
  CHOOSE k \in DOMAIN avg :
    \A j \in DOMAIN avg : ~ Below(avg[j], avg[k]) /\ (j < k => Below(avg[k], avg[j]))

\* The sum of the values of f.
SumOf(f) == Mass(f, DOMAIN f)

-----------------------------------------------------------------------------
(***************************************************************************)
(* The Python scripts.                                                     *)
(***************************************************************************)
\* The rows of an example, padded with zeros to the longest, and where its endings are.
Rendered(e) ==
  LET row == [k \in 1 .. NumCompletions |-> e.ctx \o e.endings[k]]
      width == CHOOSE n \in {Len(row[k]) : k \in DOMAIN row} : \A k \in DOMAIN row : Len(row[k]) <= n
  IN  [tokens |-> [k \in DOMAIN row |-> [j \in 1 .. width |-> IF j <= Len(row[k]) THEN row[k][j] ELSE 0]],
       mask |-> [k \in DOMAIN row |-> [j \in 1 .. width |-> j > Len(e.ctx) /\ j <= Len(row[k])]]]

\* avg_loss of a row: its tokens and its mask shifted against the losses by one.
AvgLoss(tokens, mask) ==
  LET scored == {j \in 1 .. Len(tokens) - 1 : mask[j + 1]}
  IN  <<SumOf([j \in scored |-> Loss(SubSeq(tokens, 1, j), tokens[j + 1])]), Cardinality(scored)>>

PredNorm(e) ==
  LET r == Rendered(e)
  IN  FirstLeast([k \in 1 .. NumCompletions |-> AvgLoss(r.tokens[k], r.mask[k])]) - 1

NumCorrectNorm(datas) == Cardinality({i \in DOMAIN datas : PredNorm(datas[i]) = datas[i].label})

\* write_evalfile: a stream of 16-bit words; an example knows its length in bytes.
StartExample == 65535
ExampleStream(idx, e) ==
  LET body == <<idx, e.label, NumCompletions, Len(e.ctx)>> \o e.ctx
              \o FlattenSeq([k \in DOMAIN e.endings |-> <<Len(e.endings[k])>> \o e.endings[k]])
  IN  <<StartExample, 2 * (Len(body) + 2)>> \o body
WriteEvalFile(datas) ==
  LET streams == [i \in DOMAIN datas |-> ExampleStream(i - 1, datas[i])]
      longest == CHOOSE n \in {streams[i][2] : i \in DOMAIN streams} : \A i \in DOMAIN streams : streams[i][2] <= n
  IN  [num_examples |-> Len(datas), longest_example_bytes |-> longest, stream |-> FlattenSeq(streams)]

-----------------------------------------------------------------------------
(***************************************************************************)
(* EvalLoader.  Places in the stream, rows and columns are counted from 1. *)
(* Operators named X_Y are faulty variants of X.                           *)
(***************************************************************************)
CeilDiv(m, n) == (m + n - 1) \div n
CanFitExamples(conf) == conf.B \div NumCompletions
ExamplesPerProcess(conf, file) == CeilDiv(file.num_examples, conf.num_processes)
EvalNumBatches(conf, file) == CeilDiv(ExamplesPerProcess(conf, file), CanFitExamples(conf))
StartIndex(conf, file, rank) == ExamplesPerProcess(conf, file) * rank
EndIndex(conf, file, rank) == Min({ExamplesPerProcess(conf, file) * (rank + 1), file.num_examples})

\* evalloader_init: what it asserts, and its buffers.  mask and label are not initialized:
\* mask is cleared before each batch, label is read only where the mask is set.
Opens(conf, file) ==
  /\ file.num_examples >= conf.num_processes
  /\ file.longest_example_bytes < (1 + NumCompletions) * conf.T * 2
  /\ CanFitExamples(conf) > 0
NewLoader(conf) ==
  LET rows(x) == [b \in 1 .. conf.B |-> [t \in 1 .. conf.T |-> x]]
  IN  [inputs |-> rows(0), targets |-> rows(0), mask |-> rows(TRUE),
       label |-> [i \in 1 .. CanFitExamples(conf) |-> 0], current |-> 0, at |-> 1]

\* evalloader_reset skips the examples before its own; 0 at the end of the file, where the
\* next read fails.
Skip(file, n) ==
  LET at[i \in 0 .. n] ==
        IF i = 0 THEN 1
        ELSE LET last == at[i - 1]
             IN  IF last \in DOMAIN file.stream THEN last + file.stream[last + 1] \div 2 ELSE 0
  IN  at[n]
ResetEval(conf, file, rank, loader) ==
  [loader EXCEPT !.current = StartIndex(conf, file, rank),
                 !.at = Skip(file, StartIndex(conf, file, rank))]
Starts(conf, file, rank) == Skip(file, StartIndex(conf, file, rank)) # 0

\* What evalloader_next_example_ asserts of the examples it reads: they end before the row.
ExamplesFit(conf, datas) ==
  \A i \in DOMAIN datas : \A k \in DOMAIN datas[i].endings :
    Len(datas[i].ctx) + Len(datas[i].endings[k]) < conf.T

\* The example at a place of the stream, its endings one after the other.
ReadExample(stream, at) ==
  LET n == stream[at + 5]
      iter[k \in 1 .. NumCompletions] ==
        IF k = 1 THEN at + 6 + n ELSE LET last == iter[k - 1] IN last + 1 + stream[last]
  IN  [label |-> stream[at + 3], ctx |-> SubSeq(stream, at + 6, at + 5 + n),
       endings |-> [k \in 1 .. NumCompletions |-> SubSeq(stream, iter[k] + 1, iter[k] + stream[iter[k]])]]

\* The example at loader.at goes to the rows of the i-th place of the batch: the first
\* token of an ending is the target of the last one of the context.
NextExample(loader, file, i) ==
  LET e == ReadExample(file.stream, loader.at)
      n == Len(e.ctx)
      mine == (i - 1) * NumCompletions + 1 .. i * NumCompletions
      text == [b \in mine |-> e.ctx \o e.endings[b - (i - 1) * NumCompletions]]
      scored(b, t) == b \in mine /\ n <= t /\ t < Len(text[b])
  IN  [label |-> [loader.label EXCEPT ![i] = e.label],
       inputs |-> [b \in DOMAIN loader.inputs |-> [t \in DOMAIN loader.inputs[b] |->
                     IF b \in mine /\ t <= Len(text[b]) THEN text[b][t] ELSE loader.inputs[b][t]]],
       targets |-> [b \in DOMAIN loader.targets |-> [t \in DOMAIN loader.targets[b] |->
                      IF scored(b, t) THEN text[b][t + 1] ELSE loader.targets[b][t]]],
       mask |-> [b \in DOMAIN loader.mask |-> [t \in DOMAIN loader.mask[b] |->
                   scored(b, t) \/ loader.mask[b][t]]],
       current |-> loader.current + 1,
       at |-> loader.at + file.stream[loader.at + 1] \div 2]

\* The examples a process has left, from the first place of the batch on.
BatchOf(conf, file, rank, loader) ==
  LET batch[i \in 0 .. CanFitExamples(conf)] ==
        IF i = 0 THEN loader
        ELSE LET last == batch[i - 1]
             IN  IF last.current < EndIndex(conf, file, rank) THEN NextExample(last, file, i) ELSE last
  IN  batch[CanFitExamples(conf)]
NextBatch_KeepsMask(conf, file, rank, loader) == BatchOf(conf, file, rank, loader)
NextBatch(conf, file, rank, loader) ==
  LET cleared == [b \in 1 .. conf.B |-> [t \in 1 .. conf.T |-> FALSE]]
  IN  BatchOf(conf, file, rank, [loader EXCEPT !.mask = cleared])

\* evalloader_stat_losses, of the losses the forward pass gives for inputs and targets.
RowAverage(loader, b) ==
  LET scored == {t \in DOMAIN loader.mask[b] : loader.mask[b][t]}
      loss == [t \in scored |-> Loss(SubSeq(loader.inputs[b], 1, t), loader.targets[b][t])]
  IN  IF scored = {} THEN <<0, 1>> ELSE <<SumOf(loss), Cardinality(scored)>>
StatLosses(conf, loader) ==
  LET row(i, k) == (i - 1) * NumCompletions + k
      active(i) == \E k \in 1 .. NumCompletions : TRUE \in Range(loader.mask[row(i, k)])
      least(i) == FirstLeast([k \in 1 .. NumCompletions |-> RowAverage(loader, row(i, k))])
  IN  Cardinality({i \in 1 .. CanFitExamples(conf) : active(i) /\ least(i) - 1 = loader.label[i]})

\* One evaluation of one process: its loader after it, and what it counts.
Evaluate(conf, file, rank, loader) ==
  LET run[i \in 0 .. EvalNumBatches(conf, file)] ==
        IF i = 0 THEN [loader |-> ResetEval(conf, file, rank, loader), correct |-> 0]
        ELSE LET last == run[i - 1]
                 batch == NextBatch(conf, file, rank, last.loader)
             IN  [loader |-> batch, correct |-> last.correct + StatLosses(conf, batch)]
  IN  run[EvalNumBatches(conf, file)]

\* eval_acc_norm of the first and of the second evaluation of a training, reduced over the
\* processes.
EvalAccNorm(conf, file) ==
  LET first == [r \in 0 .. conf.num_processes - 1 |-> Evaluate(conf, file, r, NewLoader(conf))]
      second == [r \in DOMAIN first |-> Evaluate(conf, file, r, first[r].loader)]
  IN  <<SumOf([r \in DOMAIN first |-> first[r].correct]), SumOf([r \in DOMAIN second |-> second[r].correct])>>
=============================================================================
