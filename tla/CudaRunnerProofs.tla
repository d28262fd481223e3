-------------------------- MODULE CudaRunnerProofs --------------------------
(***************************************************************************)
(* The packed input and the samples of CudaRunner, for any requests, page  *)
(* tables, capacities and number of failed runs.                           *)
(*                                                                         *)
(* RunnerInv is inductive.  Between runs it says that every position a     *)
(* request has computed is in the cache, at the slot its page table names, *)
(* and that a graph was captured for the shape its key stands for; during  *)
(* a run, that the input is the packed batch, and that the device arrays   *)
(* begin with this run's rows, unless the stream is stuck capturing, when  *)
(* nothing is copied and no run can return.  A throw may leave the slots   *)
(* of the run's own rows half written: they are positions not computed,    *)
(* which the next run writes again before it reads them, and the slots of  *)
(* different positions differ.                                             *)
(***************************************************************************)
EXTENDS CudaRunner, SequenceLemmas, FiniteSetTheorems, FunctionTheorems

-----------------------------------------------------------------------------
(***************************************************************************)
(* The packed rows of a batch.                                             *)
(***************************************************************************)
Counts == computed \in [Requests -> Nat]

\* What the builder relies on of a batch.
IsBatch(batch) ==
  /\ batch \in Seq(Requests \X (1 .. MaxNumTokens))
  /\ \A i, j \in DOMAIN batch : i # j => batch[i][1] # batch[j][1]

LEMMA BatchFacts ==
  ASSUME NEW batch, IsBatch(batch)
  PROVE  /\ DOMAIN batch = 1 .. Len(batch) /\ Len(batch) \in Nat
         /\ \A i \in 1 .. Len(batch) :
              /\ batch[i] \in Requests \X (1 .. MaxNumTokens)
              /\ batch[i][1] \in Requests /\ batch[i][2] \in Nat \ {0}
              /\ batch[i][2] <= MaxNumTokens
<1>1. DOMAIN batch = 1 .. Len(batch) /\ Len(batch) \in Nat
  BY DEF IsBatch
<1>2. \A i \in 1 .. Len(batch) : batch[i] \in Requests \X (1 .. MaxNumTokens)
  BY DEF IsBatch
<1>3. \A i \in 1 .. Len(batch) : batch[i][1] \in Requests /\ batch[i][2] \in 1 .. MaxNumTokens
  BY <1>2
<1> QED
  BY <1>1, <1>2, <1>3, CudaAssumption DEF CudaAssumption

\* The rows of the items are flattened like any sequence of sequences.
LEMMA RowsAreFlattened ==
  ASSUME NEW batch, IsBatch(batch), Counts
  PROVE  LET seqs == [i \in 1 .. Len(batch) |-> ItemRows(batch, i)]
         IN  /\ seqs \in Seq(Seq(Nat \X Nat)) /\ Len(seqs) = Len(batch)
             /\ \A n \in 0 .. Len(batch) : RowsOfFirst(batch, n) = FlattenFirst(seqs, n)
<1> DEFINE seqs == [i \in 1 .. Len(batch) |-> ItemRows(batch, i)]
<1>1. Len(batch) \in Nat
  BY BatchFacts
<1>2. ASSUME NEW i \in 1 .. Len(batch)
      PROVE  ItemRows(batch, i) \in Seq(Nat \X Nat)
  <2>1. batch[i][1] \in Requests /\ batch[i][2] \in Nat
    BY BatchFacts
  <2>2. computed[batch[i][1]] \in Nat
    BY <2>1 DEF Counts
  <2>3. \A k \in 1 .. batch[i][2] : <<i, computed[batch[i][1]] + k - 1>> \in Nat \X Nat
    BY <2>1, <2>2
  <2> QED
    BY <2>1, <2>3 DEF ItemRows
<1>3. seqs \in Seq(Seq(Nat \X Nat)) /\ Len(seqs) = Len(batch)
  BY <1>1, <1>2
<1>4. ASSUME NEW n \in 0 .. Len(batch)
      PROVE  RowsOfFirst(batch, n) = FlattenFirst(seqs, n)
  <2>1. [i \in 1 .. n |-> ItemRows(batch, i)] = [i \in 1 .. n |-> seqs[i]]
    BY <1>1
  <2> QED
    BY <2>1 DEF RowsOfFirst, FlattenFirst
<1> QED
  BY <1>3, <1>4

\* query_start_locations: where the rows of an item begin and end.
LEMMA PackedFacts ==
  ASSUME NEW batch, IsBatch(batch), Counts
  PROVE  LET starts == QueryStarts(batch)
             rows == PackedRows(batch)
         IN  /\ rows \in Seq(Nat \X Nat)
             /\ \A i \in 1 .. Len(batch) + 1 : starts[i] \in Nat
             /\ \A i \in 1 .. Len(batch) : starts[i + 1] = starts[i] + batch[i][2]
             /\ \A i \in 1 .. Len(batch) : \A k \in 1 .. batch[i][2] :
                  /\ starts[i] + k \in 1 .. Len(rows)
                  /\ rows[starts[i] + k] = <<i, computed[batch[i][1]] + k - 1>>
             /\ \A j \in 1 .. Len(rows) : \E i \in 1 .. Len(batch) :
                  \E k \in 1 .. batch[i][2] : j = starts[i] + k
<1> DEFINE seqs == [i \in 1 .. Len(batch) |-> ItemRows(batch, i)]
           starts == QueryStarts(batch)
           rows == PackedRows(batch)
<1>1. Len(batch) \in Nat
  BY BatchFacts
<1>2. /\ seqs \in Seq(Seq(Nat \X Nat)) /\ Len(seqs) = Len(batch)
      /\ \A n \in 0 .. Len(batch) : RowsOfFirst(batch, n) = FlattenFirst(seqs, n)
  BY RowsAreFlattened
<1>3. ASSUME NEW i \in 1 .. Len(batch)
      PROVE  /\ seqs[i] = [k \in 1 .. batch[i][2] |-> <<i, computed[batch[i][1]] + k - 1>>]
             /\ Len(seqs[i]) = batch[i][2] /\ batch[i][2] \in Nat
  <2>1. batch[i][2] \in Nat
    BY BatchFacts
  <2>2. seqs[i] = [k \in 1 .. batch[i][2] |-> <<i, computed[batch[i][1]] + k - 1>>]
    BY DEF ItemRows
  <2> QED
    BY <2>1, <2>2
<1> HIDE DEF seqs
<1>4. /\ FlattenFirst(seqs, 0) = <<>>
      /\ \A n \in 0 .. Len(batch) : FlattenFirst(seqs, n) \in Seq(Nat \X Nat)
      /\ \A n \in 0 .. (Len(batch) - 1) :
           FlattenFirst(seqs, n + 1) = FlattenFirst(seqs, n) \o seqs[n + 1]
  BY <1>2, FlattenFirstStep
<1>5. FlattenPlacesUpTo(seqs, Len(batch))
  BY <1>1, <1>2, FlattenPlaces
<1>6. rows = FlattenFirst(seqs, Len(batch))
  BY <1>1, <1>2 DEF PackedRows
<1>7. ASSUME NEW i \in 1 .. Len(batch) + 1
      PROVE  starts[i] = Len(FlattenFirst(seqs, i - 1)) /\ starts[i] \in Nat
  <2>1. i - 1 \in 0 .. Len(batch)
    BY <1>1
  <2>2. starts[i] = Len(RowsOfFirst(batch, i - 1))
    BY DEF QueryStarts
  <2>3. FlattenFirst(seqs, i - 1) \in Seq(Nat \X Nat)
    BY <1>4, <2>1
  <2>4. RowsOfFirst(batch, i - 1) = FlattenFirst(seqs, i - 1)
    BY <1>2, <2>1
  <2>5. Len(FlattenFirst(seqs, i - 1)) \in Nat
    BY <2>3
  <2> QED
    BY <2>2, <2>4, <2>5, Zenon
<1>8. ASSUME NEW i \in 1 .. Len(batch)
      PROVE  starts[i + 1] = starts[i] + batch[i][2]
  <2> DEFINE n == i - 1
  <2>1. n \in 0 .. (Len(batch) - 1) /\ n \in 0 .. Len(batch) /\ n + 1 = i
        /\ i \in 1 .. Len(batch) + 1 /\ i + 1 \in 1 .. Len(batch) + 1 /\ i + 1 - 1 = i
    BY <1>1
  <2>2. FlattenFirst(seqs, i) = FlattenFirst(seqs, i - 1) \o seqs[i]
    <3> HIDE DEF n
    <3>1. FlattenFirst(seqs, n + 1) = FlattenFirst(seqs, n) \o seqs[n + 1]
      BY <1>4, <2>1
    <3>2. n = i - 1
      BY DEF n
    <3> QED
      BY <2>1, <3>1, <3>2
  <2>3. FlattenFirst(seqs, i - 1) \in Seq(Nat \X Nat) /\ seqs[i] \in Seq(Nat \X Nat)
    BY <1>2, <1>4, <2>1
  <2>4. Len(FlattenFirst(seqs, i)) = Len(FlattenFirst(seqs, i - 1)) + Len(seqs[i])
    BY <2>2, <2>3
  <2>5. starts[i + 1] = Len(FlattenFirst(seqs, i)) /\ starts[i] = Len(FlattenFirst(seqs, i - 1))
    BY <1>7, <2>1
  <2> QED
    BY <1>3, <2>4, <2>5
<1>9. rows \in Seq(Nat \X Nat)
  BY <1>1, <1>4, <1>6
<1> HIDE DEF starts, rows
<1>10. \A i \in 1 .. Len(batch) : starts[i] = Len(FlattenFirst(seqs, i - 1))
  BY <1>1, <1>7
<1>11. ASSUME NEW i \in 1 .. Len(batch), NEW k \in 1 .. batch[i][2]
       PROVE  /\ starts[i] + k \in 1 .. Len(rows)
              /\ rows[starts[i] + k] = <<i, computed[batch[i][1]] + k - 1>>
  <2>1. k \in 1 .. Len(seqs[i]) /\ seqs[i][k] = <<i, computed[batch[i][1]] + k - 1>>
    BY <1>3
  <2>2. /\ Len(FlattenFirst(seqs, i - 1)) + k \in 1 .. Len(FlattenFirst(seqs, Len(batch)))
        /\ FlattenFirst(seqs, Len(batch))[Len(FlattenFirst(seqs, i - 1)) + k] = seqs[i][k]
    BY <1>5, <2>1 DEF FlattenPlacesUpTo
  <2> QED
    BY <1>6, <1>10, <2>1, <2>2
<1>12. ASSUME NEW j \in 1 .. Len(rows)
       PROVE  \E i \in 1 .. Len(batch) : \E k \in 1 .. batch[i][2] : j = starts[i] + k
  <2>1. PICK i \in 1 .. Len(batch) : \E k \in 1 .. Len(seqs[i]) :
          j = Len(FlattenFirst(seqs, i - 1)) + k
    BY <1>5, <1>6 DEF FlattenPlacesUpTo
  <2> QED
    BY <1>3, <1>10, <2>1
<1> QED
  BY <1>7, <1>8, <1>9, <1>11, <1>12 DEF starts, rows

-----------------------------------------------------------------------------
(***************************************************************************)
(* The rows that are sampled.                                              *)
(***************************************************************************)
LEMMA LastRowsAreFlattened ==
  ASSUME NEW batch, IsBatch(batch), Counts
  PROVE  LET seqs == [i \in 1 .. Len(batch) |->
                        IF Completes(batch[i]) THEN <<QueryStarts(batch)[i + 1] - 1>> ELSE << >>]
         IN  /\ seqs \in Seq(Seq(Nat)) /\ Len(seqs) = Len(batch)
             /\ \A n \in 0 .. Len(batch) : LastRows(batch, n) = FlattenFirst(seqs, n)
<1> DEFINE mark(i) == IF Completes(batch[i]) THEN <<QueryStarts(batch)[i + 1] - 1>> ELSE << >>
           seqs == [i \in 1 .. Len(batch) |-> mark(i)]
<1>1. Len(batch) \in Nat
  BY BatchFacts
<1>2. ASSUME NEW i \in 1 .. Len(batch)
      PROVE  mark(i) \in Seq(Nat)
  <2>1. /\ QueryStarts(batch)[i] \in Nat
        /\ QueryStarts(batch)[i + 1] = QueryStarts(batch)[i] + batch[i][2]
    <3>1. i \in 1 .. Len(batch) + 1
      BY <1>1
    <3> QED
      BY <3>1, PackedFacts
  <2>2. batch[i][2] \in Nat \ {0}
    BY BatchFacts
  <2>3. QueryStarts(batch)[i + 1] - 1 \in Nat
    BY <2>1, <2>2
  <2> QED
    BY <2>3
<1>3. seqs \in Seq(Seq(Nat)) /\ Len(seqs) = Len(batch)
  <2> HIDE DEF mark
  <2> QED
    BY <1>1, <1>2
<1>4. ASSUME NEW n \in 0 .. Len(batch)
      PROVE  LastRows(batch, n) = FlattenFirst(seqs, n)
  <2>1. [i \in 1 .. n |-> mark(i)] = [i \in 1 .. n |-> seqs[i]]
    <3> HIDE DEF mark
    <3> QED
      BY <1>1
  <2>2. LastRows(batch, n) = FlattenSeq([i \in 1 .. n |-> mark(i)])
    BY DEF LastRows
  <2>3. FlattenFirst(seqs, n) = FlattenSeq([i \in 1 .. n |-> seqs[i]])
    BY DEF FlattenFirst
  <2> QED
    BY <2>1, <2>2, <2>3, Zenon
<1> QED
  BY <1>3, <1>4

\* The sample of a completing item is the one of its last row.
LEMMA LastRowsFacts ==
  ASSUME NEW batch, IsBatch(batch), Counts
  PROVE  LET last(n) == LastRows(batch, n)
             all == LastRows(batch, Len(batch))
         IN  /\ all \in Seq(Nat) /\ Len(all) <= Len(batch)
             /\ \A i \in 1 .. Len(batch) : Completes(batch[i]) =>
                  /\ Len(last(i)) \in 1 .. Len(all)
                  /\ all[Len(last(i))] = QueryStarts(batch)[i + 1] - 1
             /\ \A j \in 1 .. Len(all) : all[j] + 1 \in 1 .. Len(PackedRows(batch))
<1> DEFINE seqs == [i \in 1 .. Len(batch) |->
                      IF Completes(batch[i]) THEN <<QueryStarts(batch)[i + 1] - 1>> ELSE << >>]
           last(n) == LastRows(batch, n)
           all == LastRows(batch, Len(batch))
<1>1. Len(batch) \in Nat
  BY BatchFacts
<1>2. /\ seqs \in Seq(Seq(Nat)) /\ Len(seqs) = Len(batch)
      /\ \A n \in 0 .. Len(batch) : last(n) = FlattenFirst(seqs, n)
  BY LastRowsAreFlattened
<1>3. \A i \in 1 .. Len(batch) :
        /\ Completes(batch[i]) => seqs[i] = <<QueryStarts(batch)[i + 1] - 1>>
        /\ ~ Completes(batch[i]) => seqs[i] = << >>
  OBVIOUS
<1> HIDE DEF seqs
<1>4. \A i \in 1 .. Len(batch) :
        /\ Len(seqs[i]) \in {0, 1}
        /\ Completes(batch[i]) => Len(seqs[i]) = 1 /\ seqs[i][1] = QueryStarts(batch)[i + 1] - 1
        /\ ~ Completes(batch[i]) => Len(seqs[i]) = 0
  <2>1. \A v : Len(<<v>>) = 1 /\ <<v>>[1] = v
    OBVIOUS
  <2>2. Len(<< >>) = 0
    OBVIOUS
  <2>3. \A i \in 1 .. Len(batch) :
          /\ Completes(batch[i]) => Len(seqs[i]) = 1 /\ seqs[i][1] = QueryStarts(batch)[i + 1] - 1
          /\ ~ Completes(batch[i]) => Len(seqs[i]) = 0
    BY <1>3, <2>1, <2>2, Zenon
  <2> QED
    BY <2>3
<1>5. /\ last(0) = << >>
      /\ \A n \in 0 .. Len(batch) : last(n) \in Seq(Nat)
      /\ \A n \in 0 .. (Len(batch) - 1) : last(n + 1) = last(n) \o seqs[n + 1]
  <2>1. /\ FlattenFirst(seqs, 0) = << >>
        /\ \A n \in 0 .. Len(batch) : FlattenFirst(seqs, n) \in Seq(Nat)
        /\ \A n \in 0 .. (Len(batch) - 1) :
             FlattenFirst(seqs, n + 1) = FlattenFirst(seqs, n) \o seqs[n + 1]
    BY <1>2, FlattenFirstStep
  <2>2. 0 \in 0 .. Len(batch) /\ \A n \in 0 .. (Len(batch) - 1) :
          n \in 0 .. Len(batch) /\ n + 1 \in 0 .. Len(batch)
    BY <1>1
  <2> HIDE DEF last
  <2> QED
    BY <1>2, <2>1, <2>2
<1>6. FlattenPlacesUpTo(seqs, Len(batch))
  BY <1>1, <1>2, FlattenPlaces
<1> HIDE DEF last
<1>7. all = last(Len(batch)) /\ all = FlattenFirst(seqs, Len(batch)) /\ all \in Seq(Nat)
  BY <1>1, <1>2, <1>5 DEF last
<1>8. ASSUME NEW n \in 0 .. (Len(batch) - 1)
      PROVE  /\ Len(last(n)) \in Nat
             /\ Len(last(n + 1)) = Len(last(n)) + Len(seqs[n + 1])
  <2>1. n \in 0 .. Len(batch) /\ n + 1 \in 1 .. Len(batch)
    BY <1>1
  <2>2. last(n) \in Seq(Nat) /\ seqs[n + 1] \in Seq(Nat) /\ last(n + 1) = last(n) \o seqs[n + 1]
    BY <1>2, <1>5, <2>1
  <2> QED
    BY <2>2
<1>9. Len(all) <= Len(batch)
  <2> DEFINE S == {n \in Nat : n <= Len(batch) => Len(last(n)) <= n}
  <2>1. 0 \in S
    BY <1>5
  <2>2. ASSUME NEW n \in Nat, n \in S PROVE n + 1 \in S
    <3>1. SUFFICES ASSUME n + 1 <= Len(batch) PROVE Len(last(n + 1)) <= n + 1
      OBVIOUS
    <3>2. n \in 0 .. (Len(batch) - 1) /\ n + 1 \in 1 .. Len(batch) /\ n <= Len(batch)
      BY <1>1, <3>1
    <3>3. Len(last(n)) <= n
      BY <2>2, <3>2
    <3>4. Len(last(n + 1)) = Len(last(n)) + Len(seqs[n + 1]) /\ Len(last(n)) \in Nat
      BY <1>8, <3>2
    <3>5. Len(seqs[n + 1]) \in {0, 1}
      BY <1>4, <3>2
    <3> DEFINE before == Len(last(n))
               after == Len(last(n + 1))
               more == Len(seqs[n + 1])
    <3>6. before <= n /\ before \in Nat /\ after = before + more /\ more \in {0, 1}
      BY <3>3, <3>4, <3>5
    <3> HIDE DEF before, after, more
    <3>7. after <= n + 1
      BY <3>6
    <3> QED
      BY <3>7 DEF after
  <2>3. Nat \subseteq S
    <3> HIDE DEF S
    <3> QED
      BY <2>1, <2>2, SetInduction
  <2>4. Len(batch) \in S
    BY <1>1, <2>3
  <2>5. Len(last(Len(batch))) <= Len(batch)
    BY <1>1, <2>4
  <2> QED
    BY <1>7, <2>5
<1> HIDE DEF all
<1>10. ASSUME NEW i \in 1 .. Len(batch), Completes(batch[i])
       PROVE  /\ Len(last(i)) \in 1 .. Len(all)
              /\ all[Len(last(i))] = QueryStarts(batch)[i + 1] - 1
  <2> DEFINE n == i - 1
  <2>1. n \in 0 .. (Len(batch) - 1) /\ n + 1 = i /\ n \in 0 .. Len(batch)
    BY <1>1
  <2>2. Len(seqs[i]) = 1 /\ 1 \in 1 .. Len(seqs[i]) /\ seqs[i][1] = QueryStarts(batch)[i + 1] - 1
    BY <1>4, <1>10
  <2>3. Len(last(n + 1)) = Len(last(n)) + Len(seqs[n + 1])
    <3> HIDE DEF n
    <3> QED
      BY <1>8, <2>1
  <2>4. Len(last(i)) = Len(last(i - 1)) + 1
    BY <2>1, <2>2, <2>3
  <2>5. last(i - 1) = FlattenFirst(seqs, i - 1)
    BY <1>2, <2>1
  <2>6. /\ Len(FlattenFirst(seqs, i - 1)) + 1 \in 1 .. Len(FlattenFirst(seqs, Len(batch)))
        /\ FlattenFirst(seqs, Len(batch))[Len(FlattenFirst(seqs, i - 1)) + 1] = seqs[i][1]
    BY <1>6, <2>2 DEF FlattenPlacesUpTo
  <2> QED
    BY <1>7, <2>2, <2>4, <2>5, <2>6, Zenon
<1>11. ASSUME NEW j \in 1 .. Len(all)
       PROVE  all[j] + 1 \in 1 .. Len(PackedRows(batch))
  <2>1. PICK i \in 1 .. Len(batch) : \E k \in 1 .. Len(seqs[i]) :
          j = Len(FlattenFirst(seqs, i - 1)) + k
    BY <1>6, <1>7 DEF FlattenPlacesUpTo
  <2>2. PICK k \in 1 .. Len(seqs[i]) : j = Len(FlattenFirst(seqs, i - 1)) + k
    BY <2>1
  <2>3. Len(seqs[i]) = 1 /\ seqs[i][1] = QueryStarts(batch)[i + 1] - 1
    BY <1>4, <2>2
  <2>4. k = 1
    BY <2>2, <2>3
  <2>5. all[j] = seqs[i][k]
    BY <1>6, <1>7, <2>2 DEF FlattenPlacesUpTo
  <2>6. all[j] = QueryStarts(batch)[i + 1] - 1
    BY <2>3, <2>4, <2>5
  <2>7. /\ QueryStarts(batch)[i] \in Nat /\ batch[i][2] \in Nat \ {0}
        /\ QueryStarts(batch)[i + 1] = QueryStarts(batch)[i] + batch[i][2]
        /\ \A m \in 1 .. batch[i][2] : QueryStarts(batch)[i] + m \in 1 .. Len(PackedRows(batch))
    <3>1. i \in 1 .. Len(batch) + 1
      BY <1>1
    <3>2. batch[i][2] \in Nat \ {0}
      BY BatchFacts
    <3> QED
      BY <3>1, <3>2, PackedFacts
  <2>8. batch[i][2] \in 1 .. batch[i][2]
    BY <2>7
  <2>9. QueryStarts(batch)[i] + batch[i][2] \in 1 .. Len(PackedRows(batch))
    BY <2>7, <2>8
  <2> QED
    BY <2>6, <2>7, <2>9
<1> QED
  BY <1>7, <1>9, <1>10, <1>11 DEF all, last

-----------------------------------------------------------------------------
(***************************************************************************)
(* The inductive invariant.                                                *)
(***************************************************************************)
\* The request and the position of a row.
Owner(k) == items[input[k][1]][1]
Position(k) == input[k][2]

\* The engine never computes a token it does not have, nor exceeds the pages.
HostInv ==
  /\ computed \in [Requests -> Nat] /\ num_tokens \in [Requests -> Nat]
  /\ \A r \in Requests : computed[r] < num_tokens[r] /\ num_tokens[r] <= Total[r]

\* While a batch runs, the counters stand still, and what the builder made of it is there.
BatchInv ==
  /\ pc \in {"idle", "copy", "launch", "record", "instantiate", "read", "returned"}
  /\ pc = "idle" => items = << >> /\ input = << >>
  /\ pc # "idle" =>
       /\ IsBatch(items) /\ Len(items) <= MaxNumSequences
       /\ \A i \in 1 .. Len(items) :
            /\ num_tokens[items[i][1]] < Total[items[i][1]]
            /\ computed[items[i][1]] + items[i][2] <= num_tokens[items[i][1]]
       /\ input = PackedRows(items) /\ Len(input) <= MaxNumTokens
       /\ logit_rows = LogitRows(items)

\* The device arrays begin with the rows of this run, not of an earlier one.
OwnMetadata ==
  /\ \A k \in 1 .. Len(input) :
       /\ dev["token_ids"][k] = <<Owner(k), Position(k)>>
       /\ dev["positions"][k] = Position(k)
       /\ dev["context_lengths"][k] = Position(k) + 1
       /\ dev["slot_mapping"][k] = SlotOf(Owner(k), Position(k))
       /\ dev["block_tables"][k] = Table[Owner(k)]
  /\ Pruning => \A j \in 1 .. Len(logit_rows) : dev["sample_rows"][j] = logit_rows[j]

\* A stream left capturing by an earlier run copies nothing, but then nothing runs either.
DeviceInv ==
  /\ stream \in {"ready", "capturing"}
  /\ ~ Graphs => stream = "ready"
  /\ pc = "record" => stream = "capturing"
  /\ pc \in {"instantiate", "returned"} => stream = "ready"
  /\ DOMAIN dev = DeviceArrays
  /\ \A a \in DeviceArrays : DOMAIN dev[a] = 1 .. Capacity(a)
  /\ \/ pc \in {"launch", "instantiate", "read"} /\ stream = "ready"
     \/ pc = "record"
     => OwnMetadata

\* A graph has the shape of its key.
GraphsInv == \A key \in DOMAIN cuda_graphs : cuda_graphs[key] = key

\* What counts as computed is in the cache.
CacheInv ==
  /\ DOMAIN kv = 0 .. NumPages * PageSize - 1
  /\ \A r \in Requests : \A p \in 0 .. computed[r] - 1 : kv[SlotOf(r, p)] = <<r, p>>

\* So is, after the kernels, what the run computed, and their samples are of these rows.
RowsInCache == \A k \in 1 .. Len(input) : kv[SlotOf(Owner(k), Position(k))] = <<Owner(k), Position(k)>>
OwnSamples ==
  \A j \in 1 .. Len(logit_rows) :
    LET k == logit_rows[j] + 1
    IN  dev["sampled_token_ids"][j] = <<Owner(k), Position(k)>>
RunInv ==
  /\ pc = "read" /\ stream = "ready" => RowsInCache /\ OwnSamples
  /\ pc = "returned" => RowsInCache
  /\ SamplesBelongToItems

RunnerInv ==
  /\ HostInv
  /\ BatchInv
  /\ DeviceInv
  /\ GraphsInv
  /\ CacheInv
  /\ RunInv

-----------------------------------------------------------------------------
(***************************************************************************)
(* Slots: no two positions share one.                                      *)
(***************************************************************************)
LEMMA Pages ==
  ASSUME NEW p \in Nat
  PROVE  LET size == PageSize
         IN  /\ p \div size \in Nat /\ p % size \in 0 .. size - 1
             /\ p = (p \div size) * size + (p % size)
             /\ \A n \in Nat : p < size * n => p \div size + 1 \in 1 .. n
<1>1. PageSize \in Nat \ {0}
  BY CudaAssumption DEF CudaAssumption
<1>2. p \div PageSize \in Nat /\ p % PageSize \in 0 .. PageSize - 1
  BY <1>1
<1>3. p = (p \div PageSize) * PageSize + (p % PageSize)
  BY <1>1
<1>4. ASSUME NEW n \in Nat, p < PageSize * n
      PROVE  p \div PageSize + 1 \in 1 .. n
  <2> DEFINE d == p \div PageSize
  <2>1. d \in Nat /\ d * PageSize <= p
    BY <1>2, <1>3, <1>1
  <2> HIDE DEF d
  <2>2. d * PageSize < n * PageSize
    BY <1>1, <1>4, <2>1
  <2>3. d < n
    BY <1>1, <2>1, <2>2
  <2>4. d + 1 \in 1 .. n
    BY <2>1, <2>3
  <2> QED
    BY <2>4 DEF d
<1> QED
  BY <1>2, <1>3, <1>4

LEMMA SamePlace ==
  ASSUME NEW s \in Nat \ {0}, NEW a \in Nat, NEW b \in Nat, NEW x \in 0 .. s - 1,
         NEW y \in 0 .. s - 1, a * s + x = b * s + y
  PROVE  a = b /\ x = y
<1>1. CASE a < b
  <2>1. (a + 1) * s <= b * s
    BY <1>1
  <2>2. (a + 1) * s = a * s + s
    OBVIOUS
  <2> QED
    BY <2>1, <2>2
<1>2. CASE b < a
  <2>1. (b + 1) * s <= a * s
    BY <1>2
  <2>2. (b + 1) * s = b * s + s
    OBVIOUS
  <2> QED
    BY <2>1, <2>2
<1>3. CASE a = b
  BY <1>3
<1> QED
  BY <1>1, <1>2, <1>3

\* The positions a request may reach.
Reachable(r, p) == r \in Requests /\ p \in Nat /\ p < Total[r] - 1

LEMMA PageOfPosition ==
  ASSUME NEW r, NEW p, Reachable(r, p)
  PROVE  /\ (p \div PageSize) + 1 \in DOMAIN Table[r]
         /\ Table[r][(p \div PageSize) + 1] \in 0 .. NumPages - 1
<1>1. /\ r \in Requests /\ p \in Nat /\ p < Total[r] - 1 /\ Total[r] \in Nat
      /\ Total[r] - 1 <= PageSize * Len(Table[r]) /\ Table[r] \in Seq(0 .. NumPages - 1)
      /\ PageSize \in Nat \ {0}
  BY CudaAssumption DEF CudaAssumption, Reachable
<1>2. Len(Table[r]) \in Nat /\ DOMAIN Table[r] = 1 .. Len(Table[r])
  BY <1>1
<1>3. PageSize * Len(Table[r]) \in Nat
  BY <1>1, <1>2
<1>4. p < PageSize * Len(Table[r])
  BY <1>1, <1>3
<1>5. (p \div PageSize) + 1 \in 1 .. Len(Table[r])
  BY <1>1, <1>2, <1>4, Pages
<1> DEFINE i == (p \div PageSize) + 1
<1>6. i \in 1 .. Len(Table[r])
  BY <1>5
<1> HIDE DEF i
<1>7. i \in DOMAIN Table[r] /\ Table[r][i] \in 0 .. NumPages - 1
  <2>1. i \in DOMAIN Table[r]
    BY <1>2, <1>6, Zenon
  <2>2. Table[r][i] \in 0 .. NumPages - 1
    BY <1>1, <1>6, ElementOfSeq, Zenon
  <2> QED
    BY <2>1, <2>2
<1> QED
  BY <1>7 DEF i

LEMMA SlotsDiffer ==
  ASSUME NEW r, NEW p, Reachable(r, p), NEW s, NEW q, Reachable(s, q),
         SlotOf(r, p) = SlotOf(s, q)
  PROVE  r = s /\ p = q
<1> DEFINE i == (p \div PageSize) + 1
           j == (q \div PageSize) + 1
<1>1. PageSize \in Nat \ {0} /\ NumPages \in Nat
  BY CudaAssumption DEF CudaAssumption
<1>2. i \in DOMAIN Table[r] /\ j \in DOMAIN Table[s]
      /\ Table[r][i] \in 0 .. NumPages - 1 /\ Table[s][j] \in 0 .. NumPages - 1
  BY PageOfPosition
<1>3. p \in Nat /\ q \in Nat /\ r \in Requests /\ s \in Requests
  BY DEF Reachable
<1>4. p % PageSize \in 0 .. PageSize - 1 /\ q % PageSize \in 0 .. PageSize - 1
      /\ p \div PageSize \in Nat /\ q \div PageSize \in Nat
      /\ p = (p \div PageSize) * PageSize + (p % PageSize)
      /\ q = (q \div PageSize) * PageSize + (q % PageSize)
  BY <1>3, Pages
<1>5. Table[r][i] * PageSize + (p % PageSize) = Table[s][j] * PageSize + (q % PageSize)
  BY DEF SlotOf
<1>6. Table[r][i] \in Nat /\ Table[s][j] \in Nat
  BY <1>1, <1>2
<1> HIDE DEF i, j
<1>7. Table[r][i] = Table[s][j] /\ p % PageSize = q % PageSize
  <2> DEFINE a == Table[r][i]
             b == Table[s][j]
             x == p % PageSize
             y == q % PageSize
  <2>1. /\ a \in Nat /\ b \in Nat /\ x \in 0 .. PageSize - 1 /\ y \in 0 .. PageSize - 1
        /\ a * PageSize + x = b * PageSize + y
    BY <1>4, <1>5, <1>6
  <2> HIDE DEF a, b, x, y
  <2>2. a = b /\ x = y
    BY <1>1, <2>1, SamePlace
  <2> QED
    BY <2>2 DEF a, b, x, y
<1>8. <<r, i>> = <<s, j>>
  BY <1>2, <1>3, <1>7, CudaAssumption DEF CudaAssumption
<1>9. r = s /\ i = j
  BY <1>8
<1>10. p \div PageSize = q \div PageSize
  BY <1>4, <1>9 DEF i, j
<1> QED
  BY <1>4, <1>7, <1>9, <1>10

LEMMA SlotInCache ==
  ASSUME NEW r, NEW p, Reachable(r, p)
  PROVE  SlotOf(r, p) \in 0 .. NumPages * PageSize - 1
<1> DEFINE page == Table[r][(p \div PageSize) + 1]
           slot == p % PageSize
<1>1. PageSize \in Nat \ {0} /\ NumPages \in Nat
  BY CudaAssumption DEF CudaAssumption
<1>2. page \in 0 .. NumPages - 1
  BY PageOfPosition
<1>3. slot \in 0 .. PageSize - 1
  BY Pages DEF Reachable
<1>4. SlotOf(r, p) = page * PageSize + slot
  BY DEF SlotOf
<1> HIDE DEF page, slot
<1>5. (page + 1) * PageSize <= NumPages * PageSize
  BY <1>1, <1>2
<1>6. (page + 1) * PageSize = page * PageSize + PageSize /\ page * PageSize \in Nat
      /\ NumPages * PageSize \in Nat
  BY <1>1, <1>2
<1> QED
  BY <1>1, <1>3, <1>4, <1>5, <1>6

-----------------------------------------------------------------------------
(***************************************************************************)
(* The rows of a running batch.                                            *)
(***************************************************************************)
LEMMA RowFacts ==
  ASSUME HostInv, BatchInv, pc # "idle"
  PROVE  /\ IsBatch(items) /\ Counts /\ input = PackedRows(items)
         /\ Len(input) \in Nat /\ DOMAIN input = 1 .. Len(input) /\ Len(input) <= MaxNumTokens
         /\ \A i \in 1 .. Len(items) : \A m \in 1 .. items[i][2] :
              /\ QueryStarts(items)[i] + m \in 1 .. Len(input)
              /\ input[QueryStarts(items)[i] + m] = <<i, computed[items[i][1]] + m - 1>>
         /\ \A k \in 1 .. Len(input) : \E i \in 1 .. Len(items) : \E m \in 1 .. items[i][2] :
              /\ k = QueryStarts(items)[i] + m
              /\ input[k] = <<i, computed[items[i][1]] + m - 1>>
<1>1. IsBatch(items) /\ Counts /\ input = PackedRows(items) /\ Len(input) <= MaxNumTokens
  BY DEF HostInv, BatchInv, Counts
<1>2. /\ input \in Seq(Nat \X Nat)
      /\ \A i \in 1 .. Len(items) : \A m \in 1 .. items[i][2] :
           /\ QueryStarts(items)[i] + m \in 1 .. Len(input)
           /\ input[QueryStarts(items)[i] + m] = <<i, computed[items[i][1]] + m - 1>>
      /\ \A k \in 1 .. Len(input) : \E i \in 1 .. Len(items) :
           \E m \in 1 .. items[i][2] : k = QueryStarts(items)[i] + m
  BY <1>1, PackedFacts
<1>3. Len(input) \in Nat /\ DOMAIN input = 1 .. Len(input)
  BY <1>2
<1>4. ASSUME NEW k \in 1 .. Len(input)
      PROVE  \E i \in 1 .. Len(items) : \E m \in 1 .. items[i][2] :
               /\ k = QueryStarts(items)[i] + m
               /\ input[k] = <<i, computed[items[i][1]] + m - 1>>
  <2>1. PICK i \in 1 .. Len(items) : \E m \in 1 .. items[i][2] : k = QueryStarts(items)[i] + m
    BY <1>2
  <2>2. PICK m \in 1 .. items[i][2] : k = QueryStarts(items)[i] + m
    BY <2>1
  <2>3. input[QueryStarts(items)[i] + m] = <<i, computed[items[i][1]] + m - 1>>
    BY <1>2
  <2>4. input[k] = <<i, computed[items[i][1]] + m - 1>>
    BY <2>2, <2>3, Zenon
  <2> QED
    BY <2>2, <2>4, Zenon
<1> QED
  BY <1>1, <1>2, <1>3, <1>4

\* A row is of a request of the batch, at a position not computed yet.
LEMMA RowRange ==
  ASSUME HostInv, BatchInv, pc # "idle", NEW k \in 1 .. Len(input)
  PROVE  /\ input[k][1] \in 1 .. Len(items)
         /\ Owner(k) \in Requests /\ Position(k) \in Nat
         /\ Reachable(Owner(k), Position(k))
         /\ computed[Owner(k)] \in Nat /\ computed[Owner(k)] <= Position(k)
         /\ Position(k) < computed[Owner(k)] + items[input[k][1]][2]
<1>1. PICK i \in 1 .. Len(items) : \E m \in 1 .. items[i][2] :
        /\ k = QueryStarts(items)[i] + m
        /\ input[k] = <<i, computed[items[i][1]] + m - 1>>
  BY RowFacts
<1>2. PICK m \in 1 .. items[i][2] : input[k] = <<i, computed[items[i][1]] + m - 1>>
  BY <1>1
<1>3. input[k][1] = i /\ Owner(k) = items[i][1] /\ Position(k) = computed[items[i][1]] + m - 1
  BY <1>2 DEF Owner, Position
<1>4. items[i][1] \in Requests /\ items[i][2] \in Nat
  BY RowFacts, BatchFacts
<1> DEFINE r == items[i][1]
<1>5. /\ computed[r] \in Nat /\ num_tokens[r] \in Nat /\ Total[r] \in Nat
      /\ num_tokens[r] < Total[r] /\ computed[r] + items[i][2] <= num_tokens[r]
  BY <1>4, CudaAssumption DEF HostInv, BatchInv, CudaAssumption
<1> HIDE DEF r
<1>6. /\ computed[r] + m - 1 \in Nat /\ computed[r] <= computed[r] + m - 1
      /\ computed[r] + m - 1 < computed[r] + items[i][2]
      /\ computed[r] + m - 1 < Total[r] - 1
  <2> DEFINE c == computed[r]
             t == num_tokens[r]
             total == Total[r]
             n == items[i][2]
  <2>1. /\ c \in Nat /\ t \in Nat /\ total \in Nat /\ n \in Nat /\ m \in 1 .. n
        /\ t < total /\ c + n <= t
    BY <1>4, <1>5
  <2> HIDE DEF c, t, total, n
  <2>2. c + m - 1 \in Nat /\ c <= c + m - 1 /\ c + m - 1 < c + n /\ c + m - 1 < total - 1
    BY <2>1
  <2> QED
    BY <2>2 DEF c, total, n
<1> QED
  BY <1>3, <1>4, <1>5, <1>6 DEF Reachable, r

\* The rows of an item before this one are there as well.
LEMMA EarlierRows ==
  ASSUME HostInv, BatchInv, pc # "idle", NEW k \in 1 .. Len(input),
         NEW p \in Nat, computed[Owner(k)] <= p, p <= Position(k)
  PROVE  \E l \in 1 .. Len(input) : Owner(l) = Owner(k) /\ Position(l) = p
<1>1. PICK i \in 1 .. Len(items) : \E m \in 1 .. items[i][2] :
        /\ k = QueryStarts(items)[i] + m
        /\ input[k] = <<i, computed[items[i][1]] + m - 1>>
  BY RowFacts
<1>2. PICK m \in 1 .. items[i][2] : input[k] = <<i, computed[items[i][1]] + m - 1>>
  BY <1>1
<1>3. Owner(k) = items[i][1] /\ Position(k) = computed[items[i][1]] + m - 1
  BY <1>2 DEF Owner, Position
<1>4. computed[Owner(k)] \in Nat /\ items[i][2] \in Nat
  BY RowRange, RowFacts, BatchFacts
<1> DEFINE n == p - computed[Owner(k)] + 1
           l == QueryStarts(items)[i] + n
<1>5. n \in 1 .. items[i][2] /\ computed[Owner(k)] + n - 1 = p
  <2> DEFINE c == computed[Owner(k)]
             count == items[i][2]
             q == Position(k)
  <2>1. c \in Nat /\ count \in Nat /\ m \in 1 .. count /\ q = c + m - 1 /\ c <= p /\ p <= q
    BY <1>3, <1>4
  <2> HIDE DEF c, count, q
  <2>2. p - c + 1 \in 1 .. count /\ c + (p - c + 1) - 1 = p
    BY <2>1
  <2> QED
    BY <2>2 DEF c, count
<1> HIDE DEF n
<1>6. l \in 1 .. Len(input) /\ input[l] = <<i, computed[items[i][1]] + n - 1>>
  BY <1>5, RowFacts
<1>7. Owner(l) = items[i][1] /\ Position(l) = computed[items[i][1]] + n - 1
  BY <1>6 DEF Owner, Position
<1> QED
  BY <1>3, <1>5, <1>6, <1>7

\* No token is computed twice in a batch.
LEMMA RowsDiffer ==
  ASSUME HostInv, BatchInv, pc # "idle", NEW k \in 1 .. Len(input), NEW l \in 1 .. Len(input),
         Owner(k) = Owner(l), Position(k) = Position(l)
  PROVE  k = l
<1>1. PICK i \in 1 .. Len(items) : \E m \in 1 .. items[i][2] :
        /\ k = QueryStarts(items)[i] + m
        /\ input[k] = <<i, computed[items[i][1]] + m - 1>>
  BY RowFacts
<1>2. PICK m \in 1 .. items[i][2] :
        k = QueryStarts(items)[i] + m /\ input[k] = <<i, computed[items[i][1]] + m - 1>>
  BY <1>1
<1>3. PICK j \in 1 .. Len(items) : \E n \in 1 .. items[j][2] :
        /\ l = QueryStarts(items)[j] + n
        /\ input[l] = <<j, computed[items[j][1]] + n - 1>>
  BY RowFacts
<1>4. PICK n \in 1 .. items[j][2] :
        l = QueryStarts(items)[j] + n /\ input[l] = <<j, computed[items[j][1]] + n - 1>>
  BY <1>3
<1>5. Owner(k) = items[i][1] /\ Position(k) = computed[items[i][1]] + m - 1
  BY <1>2 DEF Owner, Position
<1>6. Owner(l) = items[j][1] /\ Position(l) = computed[items[j][1]] + n - 1
  BY <1>4 DEF Owner, Position
<1>7. i = j
  <2>1. IsBatch(items) /\ DOMAIN items = 1 .. Len(items)
    BY RowFacts, BatchFacts
  <2>2. items[i][1] = items[j][1]
    BY <1>5, <1>6
  <2> QED
    BY <2>1, <2>2, Zenon DEF IsBatch
<1>8. computed[items[i][1]] \in Nat /\ items[i][2] \in Nat
  <2>1. items[i][1] \in Requests /\ items[i][2] \in Nat
    BY RowFacts, BatchFacts
  <2> QED
    BY <2>1 DEF HostInv
<1>9. m = n
  <2> DEFINE c == computed[items[i][1]]
             count == items[i][2]
  <2>1. /\ c \in Nat /\ count \in Nat /\ m \in 1 .. count /\ n \in 1 .. count
        /\ c + m - 1 = c + n - 1
    BY <1>5, <1>6, <1>7, <1>8
  <2> HIDE DEF c, count
  <2> QED
    BY <2>1
<1> QED
  BY <1>2, <1>4, <1>7, <1>9

LEMMA LogitFacts ==
  ASSUME HostInv, BatchInv, pc # "idle"
  PROVE  /\ Len(logit_rows) \in Nat
         /\ Len(logit_rows) <= Capacity("sampled_token_ids")
         /\ Pruning => Len(logit_rows) <= Capacity("sample_rows")
         /\ \A j \in 1 .. Len(logit_rows) :
              /\ logit_rows[j] + 1 \in 1 .. Len(input)
              /\ ~ Pruning => logit_rows[j] + 1 = j
<1>1. /\ IsBatch(items) /\ Counts /\ input = PackedRows(items) /\ Len(input) \in Nat
      /\ Len(input) <= MaxNumTokens
  BY RowFacts
<1>2. Len(items) <= MaxNumSequences /\ logit_rows = LogitRows(items)
  BY DEF BatchInv
<1>3. MaxNumTokens \in Nat /\ MaxNumSequences \in Nat /\ Len(items) \in Nat
  BY <1>1, BatchFacts, CudaAssumption DEF CudaAssumption
<1>4. CASE Pruning
  <2>1. logit_rows = LastRows(items, Len(items))
    BY <1>2, <1>4 DEF LogitRows
  <2>2. /\ logit_rows \in Seq(Nat) /\ Len(logit_rows) <= Len(items)
        /\ \A j \in 1 .. Len(logit_rows) : logit_rows[j] + 1 \in 1 .. Len(input)
    BY <1>1, <2>1, LastRowsFacts
  <2>3. Capacity("sampled_token_ids") = MaxNumSequences /\ Capacity("sample_rows") = MaxNumSequences
    BY <1>4 DEF Capacity
  <2>4. Len(logit_rows) \in Nat
    BY <2>2
  <2> QED
    BY <1>2, <1>3, <1>4, <2>2, <2>3, <2>4
<1>5. CASE ~ Pruning
  <2>1. logit_rows = [k \in 1 .. Len(input) |-> k - 1]
    BY <1>1, <1>2, <1>5 DEF LogitRows
  <2>2. Len(logit_rows) = Len(input) /\ \A j \in 1 .. Len(input) : logit_rows[j] = j - 1
    BY <1>1, <2>1
  <2>3. Capacity("sampled_token_ids") = MaxNumTokens
    BY <1>5 DEF Capacity
  <2>4. \A j \in 1 .. Len(input) : logit_rows[j] + 1 = j
    BY <1>1, <2>2
  <2> QED
    BY <1>1, <1>5, <2>2, <2>3, <2>4
<1> QED
  BY <1>4, <1>5

-----------------------------------------------------------------------------
(***************************************************************************)
(* The kernels.                                                            *)
(***************************************************************************)
\* Every row writes its own slot, and no slot that counts as computed.
LEMMA WritesLand ==
  ASSUME HostInv, BatchInv, CacheInv, OwnMetadata, pc # "idle"
  PROVE  LET cache == AfterWrites(Len(input))
         IN  /\ DOMAIN cache = DOMAIN kv
             /\ \A k \in 1 .. Len(input) :
                  cache[SlotOf(Owner(k), Position(k))] = <<Owner(k), Position(k)>>
             /\ \A r \in Requests : \A p \in 0 .. computed[r] - 1 :
                  cache[SlotOf(r, p)] = <<r, p>>
<1> DEFINE rows == Len(input)
           cache == AfterWrites(rows)
           slot(k) == SlotOf(Owner(k), Position(k))
<1>1. /\ DOMAIN cache = DOMAIN kv
      /\ \A s \in DOMAIN kv :
           cache[s] = IF \E k \in 1 .. rows : dev["slot_mapping"][k] = s
                      THEN Written(CHOOSE k \in 1 .. rows : dev["slot_mapping"][k] = s) ELSE kv[s]
  BY DEF AfterWrites
<1>2. \A k \in 1 .. rows : dev["slot_mapping"][k] = slot(k)
  BY DEF OwnMetadata
<1>3. \A k \in 1 .. rows : Reachable(Owner(k), Position(k)) /\ slot(k) \in DOMAIN kv
  <2>1. \A k \in 1 .. rows : Reachable(Owner(k), Position(k))
    BY RowRange
  <2> QED
    BY <2>1, SlotInCache DEF CacheInv
<1>4. \A k \in 1 .. rows : Written(k) = <<Owner(k), Position(k)>>
  BY DEF OwnMetadata, Written
<1>5. ASSUME NEW k \in 1 .. rows, NEW l \in 1 .. rows, slot(k) = slot(l)
      PROVE  k = l
  BY <1>3, <1>5, SlotsDiffer, RowsDiffer
<1>6. ASSUME NEW k \in 1 .. rows
      PROVE  cache[slot(k)] = <<Owner(k), Position(k)>>
  <2> DEFINE l == CHOOSE l \in 1 .. rows : dev["slot_mapping"][l] = slot(k)
  <2>1. dev["slot_mapping"][k] = slot(k)
    BY <1>2
  <2>2. l \in 1 .. rows /\ dev["slot_mapping"][l] = slot(k)
    <3> HIDE DEF rows, slot
    <3> QED
      BY <2>1
  <2>3. cache[slot(k)] = Written(l)
    <3> HIDE DEF cache, slot, rows
    <3> QED
      BY <1>1, <1>3, <2>1
  <2> HIDE DEF l
  <2>4. slot(l) = slot(k)
    BY <1>2, <2>2
  <2>5. l = k
    BY <1>5, <2>2, <2>4
  <2> QED
    BY <1>4, <2>3, <2>5
<1>7. ASSUME NEW r \in Requests, NEW p \in 0 .. computed[r] - 1
      PROVE  cache[SlotOf(r, p)] = <<r, p>>
  <2>1. computed[r] \in Nat /\ num_tokens[r] \in Nat /\ Total[r] \in Nat
        /\ computed[r] < num_tokens[r] /\ num_tokens[r] <= Total[r]
    BY CudaAssumption DEF HostInv, CudaAssumption
  <2>2. Reachable(r, p) /\ p \in Nat /\ p < computed[r]
    BY <2>1 DEF Reachable
  <2>3. SlotOf(r, p) \in DOMAIN kv
    BY <2>2, SlotInCache DEF CacheInv
  <2>4. ASSUME NEW k \in 1 .. rows, dev["slot_mapping"][k] = SlotOf(r, p)
        PROVE  FALSE
    <3>1. slot(k) = SlotOf(r, p)
      BY <1>2, <2>4
    <3>2. Owner(k) = r /\ Position(k) = p
      BY <1>3, <2>2, <3>1, SlotsDiffer
    <3>3. computed[Owner(k)] <= Position(k) /\ Position(k) \in Nat
      BY RowRange
    <3> QED
      BY <2>1, <2>2, <3>2, <3>3
  <2>5. cache[SlotOf(r, p)] = kv[SlotOf(r, p)]
    <3> HIDE DEF cache, rows
    <3> QED
      BY <1>1, <2>3, <2>4
  <2> QED
    BY <2>5 DEF CacheInv
<1> QED
  BY <1>1, <1>6, <1>7

\* So every row attends to its request's own history.
LEMMA RowsAreRight ==
  ASSUME HostInv, BatchInv, CacheInv, OwnMetadata, pc # "idle", NEW k \in 1 .. Len(input)
  PROVE  RowIsRight(Len(input), k)
<1> DEFINE cache == AfterWrites(Len(input))
           r == Owner(k)
           n == Position(k)
<1>1. /\ dev["token_ids"][k] = <<r, n>> /\ dev["context_lengths"][k] = n + 1
      /\ dev["block_tables"][k] = Table[r]
  BY DEF OwnMetadata
<1>2. /\ r \in Requests /\ n \in Nat /\ Reachable(r, n)
      /\ computed[r] \in Nat /\ computed[r] <= n
  BY RowRange
<1>3. ASSUME NEW p \in 0 .. n
      PROVE  cache[SlotOf(r, p)] = <<r, p>>
  <2>1. CASE p < computed[r]
    <3>1. p \in 0 .. computed[r] - 1
      BY <1>2, <2>1
    <3> QED
      BY <1>2, <3>1, WritesLand
  <2>2. CASE computed[r] <= p
    <3>1. PICK l \in 1 .. Len(input) : Owner(l) = r /\ Position(l) = p
      BY <1>2, <2>2, EarlierRows
    <3>2. cache[SlotOf(Owner(l), Position(l))] = <<Owner(l), Position(l)>>
      BY WritesLand
    <3> QED
      BY <3>1, <3>2
  <2> QED
    BY <1>2, <2>1, <2>2
<1>4. PagedContext(cache, k) = [p \in 0 .. n |-> cache[SlotOf(r, p)]]
  <2> DEFINE value(p) ==
               cache[dev["block_tables"][k][(p \div PageSize) + 1] * PageSize + (p % PageSize)]
             end == dev["context_lengths"][k] - 1
  <2>2. PagedContext(cache, k) = [p \in 0 .. end |-> value(p)]
    BY DEF PagedContext
  <2>3. \A p : value(p) = cache[SlotOf(r, p)]
    BY <1>1 DEF SlotOf
  <2>4. end = n
    BY <1>1, <1>2
  <2> HIDE DEF value, end
  <2> QED
    BY <2>2, <2>3, <2>4
<1>5. DenseContext(k) = [p \in 0 .. n |-> <<r, p>>]
  BY <1>1 DEF DenseContext
<1> HIDE DEF cache, r, n
<1>6. [p \in 0 .. n |-> cache[SlotOf(r, p)]] = [p \in 0 .. n |-> <<r, p>>]
  BY <1>3
<1> QED
  BY <1>4, <1>5, <1>6 DEF RowIsRight, cache

\* A pass over the rows of this run leaves their K/V in the cache, and their samples.
LEMMA ExecuteFacts ==
  ASSUME HostInv, BatchInv, CacheInv, DeviceInv, OwnMetadata, pc # "idle",
         Execute(<<Len(input), Len(logit_rows)>>)
  PROVE  /\ DOMAIN kv' = DOMAIN kv /\ DOMAIN dev' = DeviceArrays
         /\ \A a \in DeviceArrays : DOMAIN dev'[a] = 1 .. Capacity(a)
         /\ \A a \in DeviceArrays \ {"sampled_token_ids"} : dev'[a] = dev[a]
         /\ \A r \in Requests : \A p \in 0 .. computed[r] - 1 : kv'[SlotOf(r, p)] = <<r, p>>
         /\ \A k \in 1 .. Len(input) :
              kv'[SlotOf(Owner(k), Position(k))] = <<Owner(k), Position(k)>>
         /\ \A j \in 1 .. Len(logit_rows) :
              dev'["sampled_token_ids"][j] =
                <<Owner(logit_rows[j] + 1), Position(logit_rows[j] + 1)>>
<1> DEFINE rows == Len(input)
           shape == <<rows, Len(logit_rows)>>
           cache == AfterWrites(rows)
<1>1. shape[1] = rows /\ shape[2] = Len(logit_rows)
  OBVIOUS
<1>2. \A k \in 1 .. rows : RowIsRight(rows, k)
  BY RowsAreRight
<1>3. kv' = cache
  <2>1. kv' = [s \in DOMAIN kv |->
                 IF \E k \in 1 .. rows : dev["slot_mapping"][k] = s /\ ~ RowIsRight(rows, k)
                 THEN Garbage ELSE cache[s]]
    <3> HIDE DEF cache
    <3>1. kv' = CacheAfter(shape)
      BY DEF Execute
    <3> QED
      BY <1>1, <3>1 DEF CacheAfter, cache
  <2>2. kv' = [s \in DOMAIN kv |-> cache[s]]
    <3> HIDE DEF cache, rows
    <3> QED
      BY <1>2, <2>1
  <2>3. cache = [s \in DOMAIN kv |-> cache[s]]
    BY Zenon DEF AfterWrites
  <2> QED
    BY <2>2, <2>3
<1>4. DOMAIN cache = DOMAIN kv
  BY WritesLand
<1> DEFINE samples == SamplesOf(shape)
<1>5. dev' = [dev EXCEPT !["sampled_token_ids"] = Overwrite(dev["sampled_token_ids"], samples)]
  BY DEF Execute
<1>6. /\ Len(logit_rows) \in Nat
      /\ Len(logit_rows) <= Capacity("sampled_token_ids")
      /\ Pruning => Len(logit_rows) <= Capacity("sample_rows")
      /\ \A j \in 1 .. Len(logit_rows) :
           /\ logit_rows[j] + 1 \in 1 .. Len(input)
           /\ ~ Pruning => logit_rows[j] + 1 = j
  BY LogitFacts
<1> HIDE DEF rows, cache
<1>7. samples = [j \in 1 .. Len(logit_rows) |->
                   LET k == IF Pruning THEN dev["sample_rows"][j] + 1 ELSE j
                   IN  IF RowIsRight(rows, k) THEN dev["token_ids"][k] ELSE Garbage]
  BY <1>1 DEF SamplesOf
<1> HIDE DEF samples
<1>8. ASSUME NEW j \in 1 .. Len(logit_rows)
      PROVE  samples[j] = <<Owner(logit_rows[j] + 1), Position(logit_rows[j] + 1)>>
  <2> DEFINE k == IF Pruning THEN dev["sample_rows"][j] + 1 ELSE j
  <2>1. k = logit_rows[j] + 1
    BY <1>6 DEF OwnMetadata
  <2>2. k \in 1 .. rows
    BY <1>6, <2>1 DEF rows
  <2>3. samples[j] = IF RowIsRight(rows, k) THEN dev["token_ids"][k] ELSE Garbage
    BY <1>7
  <2> HIDE DEF k
  <2>4. samples[j] = dev["token_ids"][k]
    BY <1>2, <2>2, <2>3 DEF rows
  <2>5. dev["token_ids"][k] = <<Owner(k), Position(k)>>
    BY <2>2 DEF OwnMetadata, rows
  <2> QED
    BY <2>1, <2>4, <2>5
<1>9. Len(samples) = Len(logit_rows)
  BY <1>6, <1>7
<1>10. /\ DOMAIN dev = DeviceArrays /\ "sampled_token_ids" \in DeviceArrays
       /\ \A a \in DeviceArrays : DOMAIN dev[a] = 1 .. Capacity(a)
       /\ DOMAIN dev["sampled_token_ids"] = 1 .. Capacity("sampled_token_ids")
  BY DEF DeviceInv, DeviceArrays
<1> DEFINE new == Overwrite(dev["sampled_token_ids"], samples)
<1>11. /\ DOMAIN new = 1 .. Capacity("sampled_token_ids")
       /\ \A j \in 1 .. Capacity("sampled_token_ids") : j <= Len(samples) => new[j] = samples[j]
  BY <1>10 DEF Overwrite
<1> HIDE DEF new
<1>12. dev' = [dev EXCEPT !["sampled_token_ids"] = new]
  BY <1>5 DEF new
<1>13. Capacity("sampled_token_ids") \in Nat
  BY CudaAssumption DEF CudaAssumption, Capacity
<1>14. /\ DOMAIN dev' = DeviceArrays
       /\ \A a \in DeviceArrays : DOMAIN dev'[a] = 1 .. Capacity(a)
       /\ \A a \in DeviceArrays \ {"sampled_token_ids"} : dev'[a] = dev[a]
       /\ dev'["sampled_token_ids"] = new
  BY <1>10, <1>11, <1>12
<1>15. ASSUME NEW j \in 1 .. Len(logit_rows)
       PROVE  dev'["sampled_token_ids"][j] =
                <<Owner(logit_rows[j] + 1), Position(logit_rows[j] + 1)>>
  <2>1. j \in 1 .. Capacity("sampled_token_ids") /\ j <= Len(samples)
    BY <1>6, <1>9, <1>13
  <2>2. new[j] = samples[j]
    BY <1>11, <2>1
  <2> QED
    BY <1>8, <1>14, <2>2
<1>16. /\ \A r \in Requests : \A p \in 0 .. computed[r] - 1 : kv'[SlotOf(r, p)] = <<r, p>>
       /\ \A k \in 1 .. Len(input) :
            kv'[SlotOf(Owner(k), Position(k))] = <<Owner(k), Position(k)>>
  BY <1>3, WritesLand DEF cache, rows
<1> QED
  BY <1>3, <1>4, <1>14, <1>15, <1>16

-----------------------------------------------------------------------------
(***************************************************************************)
(* What a step that leaves the batch and the counters alone preserves.     *)
(***************************************************************************)
LEMMA SameRows ==
  ASSUME UNCHANGED <<mode, computed, num_tokens>>, NEW batch
  PROVE  /\ PackedRows(batch)' = PackedRows(batch)
         /\ QueryStarts(batch)' = QueryStarts(batch)
         /\ \A n : LastRows(batch, n)' = LastRows(batch, n)
         /\ LogitRows(batch)' = LogitRows(batch)
         /\ \A item : Completes(item)' <=> Completes(item)
<1>1. \A i : ItemRows(batch, i)' = ItemRows(batch, i)
  BY DEF ItemRows
<1>2. \A n : RowsOfFirst(batch, n)' = RowsOfFirst(batch, n)
  BY <1>1 DEF RowsOfFirst
<1>3. PackedRows(batch)' = PackedRows(batch)
  BY <1>2 DEF PackedRows
<1>4. QueryStarts(batch)' = QueryStarts(batch)
  BY <1>2 DEF QueryStarts
<1>5. \A item : Completes(item)' <=> Completes(item)
  BY DEF Completes
<1>6. \A n : LastRows(batch, n)' = LastRows(batch, n)
  BY <1>4, <1>5 DEF LastRows
<1>7. LogitRows(batch)' = LogitRows(batch)
  BY <1>3, <1>6 DEF LogitRows, Pruning
<1> QED
  BY <1>3, <1>4, <1>5, <1>6, <1>7

RunPlaces == {"copy", "launch", "record", "instantiate", "read", "returned"}

LEMMA BatchFrame ==
  ASSUME BatchInv, pc # "idle", pc' \in RunPlaces,
         UNCHANGED <<mode, host_vars, items, input, logit_rows>>
  PROVE  BatchInv'
<1>1. PICK b : b = items
  OBVIOUS
<1>2. items' = b /\ input' = input /\ logit_rows' = logit_rows /\ mode' = mode
      /\ computed' = computed /\ num_tokens' = num_tokens
  BY <1>1 DEF host_vars
<1>3. PackedRows(b)' = PackedRows(b) /\ LogitRows(b)' = LogitRows(b)
  BY <1>2, SameRows
<1>4. input = PackedRows(b) /\ logit_rows = LogitRows(b) /\ Len(input) <= MaxNumTokens
  BY <1>1 DEF BatchInv
<1>5. IsBatch(b) /\ Len(b) <= MaxNumSequences
  BY <1>1 DEF BatchInv
<1>6. \A i \in 1 .. Len(b) :
        /\ num_tokens[b[i][1]] < Total[b[i][1]]
        /\ computed[b[i][1]] + b[i][2] <= num_tokens[b[i][1]]
  BY <1>1 DEF BatchInv
<1>7. IsBatch(items)' /\ Len(items') <= MaxNumSequences
  BY <1>2, <1>5 DEF IsBatch
<1>8. input' = PackedRows(items)' /\ logit_rows' = LogitRows(items)'
  <2>1. PackedRows(items)' = PackedRows(b)' /\ LogitRows(items)' = LogitRows(b)'
    BY <1>2
  <2> QED
    BY <1>2, <1>3, <1>4, <2>1
<1>9. \A i \in 1 .. Len(items') :
        /\ num_tokens'[items'[i][1]] < Total[items'[i][1]]
        /\ computed'[items'[i][1]] + items'[i][2] <= num_tokens'[items'[i][1]]
  BY <1>2, <1>6
<1> QED
  BY <1>2, <1>4, <1>7, <1>8, <1>9 DEF BatchInv, RunPlaces

LEMMA MetadataFrame ==
  ASSUME OwnMetadata, UNCHANGED <<mode, items, input, logit_rows>>,
         \A a \in DeviceArrays \ {"sampled_token_ids"} : dev'[a] = dev[a]
  PROVE  OwnMetadata'
<1>1. /\ dev'["token_ids"] = dev["token_ids"] /\ dev'["positions"] = dev["positions"]
      /\ dev'["context_lengths"] = dev["context_lengths"]
      /\ dev'["slot_mapping"] = dev["slot_mapping"]
      /\ dev'["block_tables"] = dev["block_tables"] /\ dev'["sample_rows"] = dev["sample_rows"]
  BY DEF DeviceArrays
<1>2. \A k : Owner(k)' = Owner(k) /\ Position(k)' = Position(k)
  BY DEF Owner, Position
<1>3. Pruning' <=> Pruning
  BY DEF Pruning
<1>4. \A r, p : SlotOf(r, p)' = SlotOf(r, p)
  BY DEF SlotOf
<1>5. \A k \in 1 .. Len(input') :
        /\ dev'["token_ids"][k] = <<Owner(k)', Position(k)'>>
        /\ dev'["positions"][k] = Position(k)'
        /\ dev'["context_lengths"][k] = Position(k)' + 1
        /\ dev'["slot_mapping"][k] = SlotOf(Owner(k)', Position(k)')
        /\ dev'["block_tables"][k] = Table[Owner(k)']
  BY <1>1, <1>2 DEF OwnMetadata
<1>6. Pruning' => \A j \in 1 .. Len(logit_rows') : dev'["sample_rows"][j] = logit_rows'[j]
  BY <1>1, <1>3 DEF OwnMetadata
<1> QED
  BY <1>5, <1>6, Zenon DEF OwnMetadata, SlotOf

LEMMA CacheFrame ==
  ASSUME CacheInv, UNCHANGED <<computed, kv>>
  PROVE  CacheInv'
BY DEF CacheInv, SlotOf

LEMMA HostFrame ==
  ASSUME HostInv, UNCHANGED host_vars
  PROVE  HostInv'
BY DEF HostInv, host_vars

\* What the device arrays are after a copy, complete or not.
LEMMA CopiedFacts ==
  ASSUME DeviceInv, NEW n
  PROVE  /\ DOMAIN Copied(n) = DeviceArrays
         /\ \A a \in DeviceArrays : DOMAIN Copied(n)[a] = 1 .. Capacity(a)
<1>1. DOMAIN dev = DeviceArrays /\ \A a \in DeviceArrays : DOMAIN dev[a] = 1 .. Capacity(a)
  BY DEF DeviceInv
<1>2. \A a \in DeviceArrays : DOMAIN Overwrite(dev[a], HostArray(a)) = DOMAIN dev[a]
  BY DEF Overwrite
<1>3. \A a \in DeviceArrays : Copied(n)[a] \in {Overwrite(dev[a], HostArray(a)), dev[a]}
  BY <1>1, Zenon DEF Copied
<1>4. DOMAIN Copied(n) = DeviceArrays
  BY <1>1, Zenon DEF Copied
<1> QED
  BY <1>1, <1>2, <1>3, <1>4

-----------------------------------------------------------------------------
(***************************************************************************)
(* The steps.                                                              *)
(***************************************************************************)
LEMMA InitHolds ==
  ASSUME Init
  PROVE  RunnerInv
<1>1. HostInv
  <2>1. \A r \in Requests : PromptLen[r] \in Nat \ {0} /\ Total[r] \in Nat /\ PromptLen[r] < Total[r]
    BY CudaAssumption DEF CudaAssumption
  <2>2. computed = [r \in Requests |-> 0] /\ num_tokens = PromptLen
        /\ PromptLen \in [Requests -> Nat \ {0}]
    BY CudaAssumption DEF CudaAssumption, Init
  <2> QED
    BY <2>1, <2>2 DEF HostInv
<1>2. BatchInv
  BY DEF Init, BatchInv
<1>3. DeviceInv
  <2>1. dev = [a \in DeviceArrays |-> [k \in 1 .. Capacity(a) |-> Unwritten(a)]]
    BY DEF Init
  <2>2. DOMAIN dev = DeviceArrays /\ \A a \in DeviceArrays : DOMAIN dev[a] = 1 .. Capacity(a)
    BY <2>1
  <2> QED
    BY <2>2 DEF Init, DeviceInv
<1>4. GraphsInv
  BY DEF Init, GraphsInv
<1>5. CacheInv
  BY DEF Init, CacheInv
<1>6. RunInv
  BY DEF Init, RunInv, SamplesBelongToItems
<1> QED
  BY <1>1, <1>2, <1>3, <1>4, <1>5, <1>6 DEF RunnerInv

LEMMA BeginRunHolds ==
  ASSUME RunnerInv, BeginRun
  PROVE  RunnerInv'
<1>1. PICK b \in Batches : items' = b /\ input' = PackedRows(b) /\ logit_rows' = LogitRows(b)
  BY DEF BeginRun
<1>2. /\ pc = "idle" /\ pc' = "copy"
      /\ UNCHANGED <<mode, host_vars, dev, kv, stream, cuda_graphs, failures>>
  BY DEF BeginRun
<1>3. /\ \A i \in DOMAIN b : num_tokens[b[i][1]] < Total[b[i][1]] /\ b[i][2] <= Pending(b[i][1])
      /\ \A i, j \in DOMAIN b : i # j => b[i][1] # b[j][1]
      /\ Len(PackedRows(b)) <= MaxNumTokens
  BY DEF Batches
<1>4. \E n \in 1 .. MaxNumSequences : b \in [1 .. n -> Requests \X (1 .. MaxNumTokens)]
  BY DEF Batches
<1>5. IsBatch(b) /\ Len(b) <= MaxNumSequences /\ DOMAIN b = 1 .. Len(b)
  <2>1. PICK n \in 1 .. MaxNumSequences : b \in [1 .. n -> Requests \X (1 .. MaxNumTokens)]
    BY <1>4
  <2>2. n \in Nat /\ n <= MaxNumSequences
    BY CudaAssumption DEF CudaAssumption
  <2>3. b \in Seq(Requests \X (1 .. MaxNumTokens)) /\ Len(b) = n /\ DOMAIN b = 1 .. n
    BY <2>1, <2>2
  <2> QED
    BY <1>3, <2>2, <2>3 DEF IsBatch
<1>6. ASSUME NEW i \in 1 .. Len(b)
      PROVE  /\ num_tokens[b[i][1]] < Total[b[i][1]]
             /\ computed[b[i][1]] + b[i][2] <= num_tokens[b[i][1]]
  <2> DEFINE r == b[i][1]
  <2>1. num_tokens[r] < Total[r] /\ b[i][2] <= num_tokens[r] - computed[r]
    BY <1>3, <1>5 DEF Pending
  <2>2. r \in Requests /\ b[i][2] \in Nat
    BY <1>5, BatchFacts
  <2>3. computed[r] \in Nat /\ num_tokens[r] \in Nat
    BY <2>2 DEF RunnerInv, HostInv
  <2> QED
    BY <2>1, <2>2, <2>3
<1>7. HostInv' /\ CacheInv' /\ GraphsInv'
  BY <1>2, HostFrame, CacheFrame DEF RunnerInv, GraphsInv, host_vars
<1>8. BatchInv'
  <2>1. PackedRows(b)' = PackedRows(b) /\ LogitRows(b)' = LogitRows(b)
    BY <1>2, SameRows DEF host_vars
  <2>2. PackedRows(items)' = PackedRows(b)' /\ LogitRows(items)' = LogitRows(b)'
    BY <1>1
  <2>3. IsBatch(items)'
    BY <1>1, <1>5 DEF IsBatch
  <2>4. input' = PackedRows(items)' /\ logit_rows' = LogitRows(items)' /\ Len(input') <= MaxNumTokens
    BY <1>1, <1>3, <2>1, <2>2
  <2>5. \A i \in 1 .. Len(items') :
          /\ num_tokens'[items'[i][1]] < Total[items'[i][1]]
          /\ computed'[items'[i][1]] + items'[i][2] <= num_tokens'[items'[i][1]]
    BY <1>1, <1>2, <1>6 DEF host_vars
  <2> QED
    BY <1>1, <1>2, <1>5, <2>3, <2>4, <2>5 DEF BatchInv
<1>9. DeviceInv'
  BY <1>2 DEF RunnerInv, DeviceInv, Capacity, Pruning, Graphs
<1>10. RunInv'
  BY <1>2 DEF RunInv, SamplesBelongToItems
<1> QED
  BY <1>7, <1>8, <1>9, <1>10 DEF RunnerInv

LEMMA CopyMetadataHolds ==
  ASSUME RunnerInv, CopyMetadata
  PROVE  RunnerInv'
<1>1. /\ pc = "copy" /\ pc' = "launch" /\ dev' = Copied(Len(Arrays))
      /\ UNCHANGED <<mode, host_vars, items, input, logit_rows, kv, stream, cuda_graphs, failures>>
  BY DEF CopyMetadata
<1>2. HostInv /\ BatchInv /\ DeviceInv
  BY DEF RunnerInv
<1>3. HostInv' /\ CacheInv' /\ GraphsInv'
  BY <1>1, HostFrame, CacheFrame DEF RunnerInv, GraphsInv, host_vars
<1>4. BatchInv'
  BY <1>1, <1>2, BatchFrame DEF RunPlaces
<1>5. DOMAIN dev' = DeviceArrays /\ \A a \in DeviceArrays : DOMAIN dev'[a] = 1 .. Capacity(a)
  BY <1>1, <1>2, CopiedFacts, Zenon
<1>6. ASSUME stream = "ready"
      PROVE  OwnMetadata'
  <2>1. \A a \in DeviceArrays \ {"sampled_token_ids"} : dev'[a] = Overwrite(dev[a], HostArray(a))
    <3>1. Len(Arrays) = 6 /\ \A a \in DeviceArrays \ {"sampled_token_ids"} :
                               a \in {Arrays[j] : j \in 1 .. 6}
      <4>1. /\ Len(Arrays) = 6 /\ Arrays[1] = "token_ids" /\ Arrays[2] = "positions"
            /\ Arrays[3] = "context_lengths" /\ Arrays[4] = "slot_mapping"
            /\ Arrays[5] = "block_tables" /\ Arrays[6] = "sample_rows"
        BY DEF Arrays
      <4>2. 1 \in 1 .. 6 /\ 2 \in 1 .. 6 /\ 3 \in 1 .. 6 /\ 4 \in 1 .. 6 /\ 5 \in 1 .. 6 /\ 6 \in 1 .. 6
        OBVIOUS
      <4> HIDE DEF Arrays
      <4> QED
        BY <4>1, <4>2, Zenon DEF DeviceArrays
    <3>2. DOMAIN dev = DeviceArrays
      BY <1>2 DEF DeviceInv
    <3>3. dev' = [a \in DOMAIN dev |->
                    IF a \in {Arrays[j] : j \in 1 .. 6} /\ stream = "ready"
                    THEN Overwrite(dev[a], HostArray(a)) ELSE dev[a]]
      BY <1>1, <3>1, Zenon DEF Copied
    <3> HIDE DEF Arrays, DeviceArrays
    <3> QED
      BY <1>6, <3>1, <3>2, <3>3, Zenon
  <2>2. ASSUME NEW a \in DeviceArrays \ {"sampled_token_ids"}, NEW k \in 1 .. Capacity(a),
               k <= Len(HostArray(a))
        PROVE  dev'[a][k] = HostArray(a)[k]
    <3>1. DOMAIN dev[a] = 1 .. Capacity(a)
      BY <1>2 DEF DeviceInv
    <3>2. dev'[a] = [i \in DOMAIN dev[a] |->
                       IF i <= Len(HostArray(a)) THEN HostArray(a)[i] ELSE dev[a][i]]
      BY <2>1 DEF Overwrite
    <3> QED
      BY <2>2, <3>1, <3>2, Zenon
  <2>3. Len(input) \in Nat /\ DOMAIN input = 1 .. Len(input) /\ Len(input) <= MaxNumTokens
    BY <1>1, <1>2, RowFacts
  <2>4. MaxNumTokens \in Nat /\ MaxNumSequences \in Nat
    BY CudaAssumption DEF CudaAssumption
  <2>5. ASSUME NEW a \in {"token_ids", "positions", "context_lengths", "slot_mapping", "block_tables"},
               NEW k \in 1 .. Len(input)
        PROVE  dev'[a][k] = Row(input[k][1], input[k][2])[a]
    <3>1. HostArray(a) = [i \in 1 .. Len(input) |-> Row(input[i][1], input[i][2])[a]]
      BY <2>3 DEF HostArray
    <3>2. Len(HostArray(a)) = Len(input) /\ HostArray(a)[k] = Row(input[k][1], input[k][2])[a]
      BY <2>3, <3>1
    <3>3. Capacity(a) = MaxNumTokens /\ a \in DeviceArrays \ {"sampled_token_ids"}
      BY DEF Capacity, DeviceArrays
    <3>4. k \in 1 .. Capacity(a) /\ k <= Len(HostArray(a))
      BY <2>3, <2>4, <3>2, <3>3
    <3> QED
      BY <2>2, <3>2, <3>3, <3>4
  <2>6. ASSUME NEW k \in 1 .. Len(input)
        PROVE  /\ dev'["token_ids"][k] = <<Owner(k), Position(k)>>
               /\ dev'["positions"][k] = Position(k)
               /\ dev'["context_lengths"][k] = Position(k) + 1
               /\ dev'["slot_mapping"][k] = SlotOf(Owner(k), Position(k))
               /\ dev'["block_tables"][k] = Table[Owner(k)]
    <3>1. Row(input[k][1], input[k][2]) =
            [token_ids |-> <<Owner(k), Position(k)>>, positions |-> Position(k),
             context_lengths |-> Position(k) + 1,
             slot_mapping |-> SlotOf(Owner(k), Position(k)), block_tables |-> Table[Owner(k)]]
      BY DEF Row, Owner, Position
    <3> QED
      BY <2>5, <3>1
  <2>7. ASSUME Pruning, NEW j \in 1 .. Len(logit_rows)
        PROVE  dev'["sample_rows"][j] = logit_rows[j]
    <3>1. HostArray("sample_rows") = logit_rows
      BY <2>7 DEF HostArray
    <3>2. Len(logit_rows) \in Nat /\ Len(logit_rows) <= Capacity("sample_rows")
      BY <1>1, <1>2, <2>7, LogitFacts
    <3>3. Capacity("sample_rows") \in Nat
      BY <2>4 DEF Capacity
    <3>4. j \in 1 .. Capacity("sample_rows") /\ j <= Len(HostArray("sample_rows"))
          /\ "sample_rows" \in DeviceArrays \ {"sampled_token_ids"}
      BY <3>1, <3>2, <3>3 DEF DeviceArrays
    <3> QED
      BY <2>2, <3>1, <3>4
  <2>8. \A k : Owner(k)' = Owner(k) /\ Position(k)' = Position(k)
    BY <1>1 DEF Owner, Position
  <2>9. Pruning' <=> Pruning
    BY <1>1 DEF Pruning
  <2>10. \A k \in 1 .. Len(input') :
          /\ dev'["token_ids"][k] = <<Owner(k)', Position(k)'>>
          /\ dev'["positions"][k] = Position(k)'
          /\ dev'["context_lengths"][k] = Position(k)' + 1
          /\ dev'["slot_mapping"][k] = SlotOf(Owner(k)', Position(k)')
          /\ dev'["block_tables"][k] = Table[Owner(k)']
    BY <1>1, <2>6, <2>8
  <2>11. Pruning' => \A j \in 1 .. Len(logit_rows') : dev'["sample_rows"][j] = logit_rows'[j]
    BY <1>1, <2>7, <2>9
  <2> QED
    BY <2>10, <2>11, Zenon DEF OwnMetadata, SlotOf
<1>7. DeviceInv'
  <2>1. DOMAIN dev' = DeviceArrays /\ \A a \in DeviceArrays : DOMAIN dev'[a] = 1 .. Capacity(a)'
    BY <1>1, <1>5 DEF Capacity, Pruning
  <2> QED
    BY <1>1, <1>2, <1>6, <2>1 DEF DeviceInv, Graphs
<1>8. RunInv'
  BY <1>1 DEF RunInv, SamplesBelongToItems
<1> QED
  BY <1>3, <1>4, <1>7, <1>8 DEF RunnerInv

\* A launch that runs, eager or replayed: the graph's shape is this run's.
LEMMA RunsPass ==
  ASSUME RunnerInv, pc = "launch", pc' = "read", stream = "ready",
         Execute(<<Len(input), Len(logit_rows)>>),
         UNCHANGED <<mode, host_vars, items, input, logit_rows, stream, cuda_graphs>>
  PROVE  RunnerInv'
<1>1. HostInv /\ BatchInv /\ DeviceInv /\ CacheInv /\ OwnMetadata
  BY DEF RunnerInv, DeviceInv
<1>2. /\ DOMAIN kv' = DOMAIN kv /\ DOMAIN dev' = DeviceArrays
      /\ \A a \in DeviceArrays : DOMAIN dev'[a] = 1 .. Capacity(a)
      /\ \A a \in DeviceArrays \ {"sampled_token_ids"} : dev'[a] = dev[a]
      /\ \A r \in Requests : \A p \in 0 .. computed[r] - 1 : kv'[SlotOf(r, p)] = <<r, p>>
      /\ \A k \in 1 .. Len(input) :
           kv'[SlotOf(Owner(k), Position(k))] = <<Owner(k), Position(k)>>
      /\ \A j \in 1 .. Len(logit_rows) :
           dev'["sampled_token_ids"][j] =
             <<Owner(logit_rows[j] + 1), Position(logit_rows[j] + 1)>>
  BY <1>1, ExecuteFacts
<1>3. HostInv' /\ GraphsInv'
  BY HostFrame DEF RunnerInv, GraphsInv
<1>4. BatchInv'
  BY <1>1, BatchFrame DEF RunPlaces
<1>5. OwnMetadata'
  BY <1>1, <1>2, MetadataFrame
<1>6. DeviceInv'
  <2>1. \A a \in DeviceArrays : DOMAIN dev'[a] = 1 .. Capacity(a)'
    BY <1>2 DEF Capacity, Pruning
  <2> QED
    BY <1>1, <1>2, <1>5, <2>1 DEF DeviceInv, Graphs
<1>7. CacheInv'
  BY <1>1, <1>2 DEF CacheInv, SlotOf, host_vars
<1>8. \A k : Owner(k)' = Owner(k) /\ Position(k)' = Position(k)
  BY DEF Owner, Position
<1>9. RowsInCache'
  <2>1. \A k \in 1 .. Len(input') :
          kv'[SlotOf(Owner(k)', Position(k)')] = <<Owner(k)', Position(k)'>>
    BY <1>2, <1>8
  <2> QED
    BY <2>1, Zenon DEF RowsInCache, SlotOf
<1>10. OwnSamples'
  <2>1. \A j \in 1 .. Len(logit_rows') :
          dev'["sampled_token_ids"][j] =
            <<items'[input'[logit_rows'[j] + 1][1]][1], input'[logit_rows'[j] + 1][2]>>
    BY <1>2 DEF Owner, Position
  <2> QED
    BY <2>1, Zenon DEF OwnSamples, Owner, Position
<1>11. RunInv'
  BY <1>9, <1>10 DEF RunInv, SamplesBelongToItems
<1> QED
  BY <1>3, <1>4, <1>6, <1>7, <1>11 DEF RunnerInv

LEMMA LaunchEagerHolds ==
  ASSUME RunnerInv, LaunchEager
  PROVE  RunnerInv'
<1>1. stream = "ready"
  BY DEF RunnerInv, DeviceInv, LaunchEager
<1>2. Execute(<<Len(input), Len(logit_rows)>>)
  BY DEF LaunchEager, ThisShape
<1> QED
  BY <1>1, <1>2, RunsPass DEF LaunchEager

LEMMA ReplayGraphHolds ==
  ASSUME RunnerInv, ReplayGraph
  PROVE  RunnerInv'
<1>1. /\ pc = "launch" /\ pc' = "read"
      /\ UNCHANGED <<mode, host_vars, items, input, logit_rows, stream, cuda_graphs, failures>>
  BY DEF ReplayGraph
<1>2. CASE stream = "ready"
  <2>1. Execute(cuda_graphs[ThisKey]) /\ ThisKey \in DOMAIN cuda_graphs
    BY <1>2 DEF ReplayGraph, Captured
  <2>2. cuda_graphs[ThisKey] = ThisKey
    BY <2>1 DEF RunnerInv, GraphsInv
  <2>3. ThisKey = <<Len(input), Len(logit_rows)>>
    BY DEF ThisKey, GraphKey
  <2>4. Execute(<<Len(input), Len(logit_rows)>>)
    BY <2>1, <2>2, <2>3
  <2> QED
    BY <1>1, <1>2, <2>4, RunsPass
<1>3. CASE stream # "ready"
  <2>1. UNCHANGED <<kv, dev>>
    BY <1>3 DEF ReplayGraph
  <2>2. HostInv' /\ CacheInv' /\ GraphsInv'
    BY <1>1, <2>1, HostFrame, CacheFrame DEF RunnerInv, GraphsInv, host_vars
  <2>3. BatchInv'
    BY <1>1, BatchFrame DEF RunnerInv, RunPlaces
  <2>4. DeviceInv'
    BY <1>1, <1>3, <2>1 DEF RunnerInv, DeviceInv, Graphs, Capacity, Pruning
  <2>5. RunInv'
    BY <1>1, <1>3 DEF RunInv, SamplesBelongToItems
  <2> QED
    BY <2>2, <2>3, <2>4, <2>5 DEF RunnerInv
<1> QED
  BY <1>2, <1>3

LEMMA BeginCaptureHolds ==
  ASSUME RunnerInv, BeginCapture
  PROVE  RunnerInv'
<1>1. /\ pc = "launch" /\ pc' = "record" /\ Graphs /\ stream = "ready" /\ stream' = "capturing"
      /\ UNCHANGED <<mode, host_vars, items, input, logit_rows, dev, kv, cuda_graphs>>
  BY DEF BeginCapture
<1>2. HostInv' /\ CacheInv' /\ GraphsInv'
  BY <1>1, HostFrame, CacheFrame DEF RunnerInv, GraphsInv, host_vars
<1>3. BatchInv'
  BY <1>1, BatchFrame DEF RunnerInv, RunPlaces
<1>4. OwnMetadata'
  <2>1. OwnMetadata
    BY <1>1 DEF RunnerInv, DeviceInv
  <2> QED
    BY <1>1, <2>1, MetadataFrame
<1>5. DeviceInv'
  BY <1>1, <1>4 DEF RunnerInv, DeviceInv, Graphs, Capacity, Pruning
<1>6. RunInv'
  BY <1>1 DEF RunInv, SamplesBelongToItems
<1> QED
  BY <1>2, <1>3, <1>5, <1>6 DEF RunnerInv

LEMMA EndCaptureHolds ==
  ASSUME RunnerInv, EndCapture
  PROVE  RunnerInv'
<1>1. /\ pc = "record" /\ pc' = "instantiate" /\ stream' = "ready"
      /\ UNCHANGED <<mode, host_vars, items, input, logit_rows, dev, kv, cuda_graphs>>
  BY DEF EndCapture
<1>2. HostInv' /\ CacheInv' /\ GraphsInv'
  BY <1>1, HostFrame, CacheFrame DEF RunnerInv, GraphsInv, host_vars
<1>3. BatchInv'
  BY <1>1, BatchFrame DEF RunnerInv, RunPlaces
<1>4. OwnMetadata'
  <2>1. OwnMetadata
    BY <1>1 DEF RunnerInv, DeviceInv
  <2> QED
    BY <1>1, <2>1, MetadataFrame
<1>5. DeviceInv'
  BY <1>1, <1>4 DEF RunnerInv, DeviceInv, Graphs, Capacity, Pruning
<1>6. RunInv'
  BY <1>1 DEF RunInv, SamplesBelongToItems
<1> QED
  BY <1>2, <1>3, <1>5, <1>6 DEF RunnerInv

LEMMA InstantiateGraphHolds ==
  ASSUME RunnerInv, InstantiateGraph
  PROVE  RunnerInv'
<1>1. /\ pc = "instantiate" /\ pc' = "launch"
      /\ UNCHANGED <<mode, host_vars, items, input, logit_rows, dev, kv, stream>>
  BY DEF InstantiateGraph
<1>2. HostInv' /\ CacheInv'
  BY <1>1, HostFrame, CacheFrame DEF RunnerInv, host_vars
<1>3. GraphsInv'
  <2>1. cuda_graphs' = [k \in DOMAIN cuda_graphs \cup {ThisKey} |->
                          IF k = ThisKey THEN ThisShape ELSE cuda_graphs[k]]
    BY DEF InstantiateGraph
  <2>2. ThisKey = ThisShape
    BY DEF ThisKey, ThisShape, GraphKey
  <2> QED
    BY <2>1, <2>2 DEF RunnerInv, GraphsInv
<1>4. BatchInv'
  BY <1>1, BatchFrame DEF RunnerInv, RunPlaces
<1>5. OwnMetadata'
  <2>1. OwnMetadata
    BY <1>1 DEF RunnerInv, DeviceInv
  <2> QED
    BY <1>1, <2>1, MetadataFrame
<1>6. DeviceInv'
  BY <1>1, <1>5 DEF RunnerInv, DeviceInv, Graphs, Capacity, Pruning
<1>7. RunInv'
  BY <1>1 DEF RunInv, SamplesBelongToItems
<1> QED
  BY <1>2, <1>3, <1>4, <1>6, <1>7 DEF RunnerInv

\* The sample run() reads for a completing item is the one of the item's last row, whose
\* position is that of the request's last token.
LEMMA SampleOfItem ==
  ASSUME HostInv, BatchInv, pc # "idle", NEW i \in 1 .. Len(items), Completes(items[i])
  PROVE  /\ SampleIndex(i) \in 1 .. Len(logit_rows)
         /\ Owner(logit_rows[SampleIndex(i)] + 1) = items[i][1]
         /\ Position(logit_rows[SampleIndex(i)] + 1) = num_tokens[items[i][1]] - 1
<1> DEFINE starts == QueryStarts(items)
           count == items[i][2]
           end == starts[i + 1]
           r == items[i][1]
<1>1. IsBatch(items) /\ Counts /\ input = PackedRows(items) /\ logit_rows = LogitRows(items)
  BY RowFacts DEF BatchInv
<1>2. Len(items) \in Nat /\ count \in Nat \ {0} /\ r \in Requests
  BY <1>1, BatchFacts
<1>3. starts[i] \in Nat /\ end = starts[i] + count
  <2>1. i \in 1 .. Len(items) + 1
    BY <1>2
  <2> QED
    BY <1>1, <2>1, PackedFacts
<1>4. end \in 1 .. Len(input) /\ input[end] = <<i, computed[r] + count - 1>>
  <2>1. count \in 1 .. count
    BY <1>2
  <2>2. /\ starts[i] + count \in 1 .. Len(input)
        /\ input[starts[i] + count] = <<i, computed[r] + count - 1>>
    BY <2>1, RowFacts
  <2> QED
    BY <1>3, <2>2
<1>5. computed[r] + count = num_tokens[r]
  BY DEF Completes
<1> HIDE DEF end
<1>6. Owner(end) = r /\ Position(end) = num_tokens[r] - 1
  <2>1. computed[r] \in Nat
    BY <1>1, <1>2 DEF Counts
  <2>2. computed[r] + count - 1 = num_tokens[r] - 1
    BY <1>2, <1>5, <2>1
  <2>3. input[end][1] = i /\ input[end][2] = computed[r] + count - 1
    BY <1>4
  <2> QED
    BY <2>2, <2>3 DEF Owner, Position
<1>7. end \in Nat
  BY <1>2, <1>3
<1>8. SampleIndex(i) \in 1 .. Len(logit_rows) /\ logit_rows[SampleIndex(i)] = end - 1
  <2>1. CASE Pruning
    <3>1. logit_rows = LastRows(items, Len(items)) /\ SampleIndex(i) = Len(LastRows(items, i))
      BY <1>1, <2>1 DEF LogitRows, SampleIndex
    <3>2. /\ Len(LastRows(items, i)) \in 1 .. Len(LastRows(items, Len(items)))
          /\ LastRows(items, Len(items))[Len(LastRows(items, i))] = end - 1
      BY <1>1, LastRowsFacts DEF end
    <3> QED
      BY <3>1, <3>2
  <2>2. CASE ~ Pruning
    <3>1. logit_rows = [k \in 1 .. Len(input) |-> k - 1] /\ SampleIndex(i) = end
      BY <1>1, <2>2 DEF LogitRows, SampleIndex, end
    <3>2. Len(input) \in Nat
      BY RowFacts
    <3> QED
      BY <1>4, <3>1, <3>2
  <2> QED
    BY <2>1, <2>2
<1>9. logit_rows[SampleIndex(i)] + 1 = end
  BY <1>7, <1>8
<1> QED
  BY <1>6, <1>8, <1>9

LEMMA ReturnHolds ==
  ASSUME RunnerInv, Return
  PROVE  RunnerInv'
<1>1. /\ pc = "read" /\ pc' = "returned" /\ stream = "ready"
      /\ UNCHANGED <<mode, host_vars, items, input, logit_rows, dev, kv, stream, cuda_graphs>>
  BY DEF Return
<1>2. HostInv /\ BatchInv /\ DeviceInv /\ RowsInCache /\ OwnSamples
  BY <1>1 DEF RunnerInv, RunInv
<1>3. HostInv' /\ CacheInv' /\ GraphsInv'
  BY <1>1, HostFrame, CacheFrame DEF RunnerInv, GraphsInv, host_vars
<1>4. BatchInv'
  BY <1>1, BatchFrame DEF RunnerInv, RunPlaces
<1>5. DeviceInv'
  BY <1>1, <1>2 DEF DeviceInv, Graphs, Capacity, Pruning
<1>6. RowsInCache'
  BY <1>1, <1>2 DEF RowsInCache, Owner, Position, SlotOf
<1>7. DOMAIN items = 1 .. Len(items)
  BY <1>1, <1>2, RowFacts, BatchFacts
<1>8. ASSUME NEW i \in 1 .. Len(items)
      PROVE  sampled'[i] = IF Completes(items[i])
                           THEN <<items[i][1], num_tokens[items[i][1]] - 1>> ELSE None
  <2>1. sampled'[i] = IF Completes(items[i])
                      THEN dev["sampled_token_ids"][SampleIndex(i)] ELSE None
    BY <1>7 DEF Return
  <2>2. CASE Completes(items[i])
    <3>1. /\ SampleIndex(i) \in 1 .. Len(logit_rows)
          /\ Owner(logit_rows[SampleIndex(i)] + 1) = items[i][1]
          /\ Position(logit_rows[SampleIndex(i)] + 1) = num_tokens[items[i][1]] - 1
      BY <1>1, <1>2, <2>2, SampleOfItem
    <3>2. dev["sampled_token_ids"][SampleIndex(i)] =
            <<Owner(logit_rows[SampleIndex(i)] + 1), Position(logit_rows[SampleIndex(i)] + 1)>>
      BY <1>2, <3>1 DEF OwnSamples
    <3> QED
      BY <2>1, <2>2, <3>1, <3>2
  <2>3. CASE ~ Completes(items[i])
    BY <2>1, <2>3
  <2> QED
    BY <2>2, <2>3
<1>9. SamplesBelongToItems'
  <2>1. \A item : Completes(item)' <=> Completes(item)
    BY <1>1 DEF Completes, host_vars
  <2>2. \A i \in DOMAIN items' :
          sampled'[i] = IF Completes(items'[i])
                        THEN <<items'[i][1], num_tokens'[items'[i][1]] - 1>> ELSE None
    BY <1>1, <1>7, <1>8 DEF host_vars
  <2>3. computed' = computed /\ num_tokens' = num_tokens
    BY <1>1 DEF host_vars
  <2> QED
    BY <2>2, <2>3 DEF SamplesBelongToItems, Completes
<1>10. RunInv'
  BY <1>1, <1>6, <1>9 DEF RunInv
<1> QED
  BY <1>3, <1>4, <1>5, <1>10 DEF RunnerInv

LEMMA CommitHolds ==
  ASSUME RunnerInv, Commit
  PROVE  RunnerInv'
<1>1. /\ pc = "returned" /\ pc' = "idle" /\ items' = << >> /\ input' = << >>
      /\ UNCHANGED <<mode, dev, kv, stream, cuda_graphs>>
  BY DEF Commit, Discarded
<1>2. HostInv /\ BatchInv /\ DeviceInv /\ CacheInv /\ RowsInCache /\ SamplesBelongToItems
  BY <1>1 DEF RunnerInv, RunInv
<1>3. /\ computed' = [r \in Requests |->
                        IF \E i \in DOMAIN items : items[i][1] = r
                        THEN computed[r] + items[CHOOSE i \in DOMAIN items : items[i][1] = r][2]
                        ELSE computed[r]]
      /\ num_tokens' = [r \in Requests |->
                          IF \E i \in DOMAIN items : items[i][1] = r /\ sampled[i] # None
                          THEN num_tokens[r] + 1 ELSE num_tokens[r]]
  BY DEF Commit
<1>4. IsBatch(items) /\ DOMAIN items = 1 .. Len(items)
  BY <1>1, <1>2, RowFacts, BatchFacts
<1>5. ASSUME NEW i \in 1 .. Len(items), NEW r \in Requests, items[i][1] = r
      PROVE  /\ computed'[r] = computed[r] + items[i][2]
             /\ num_tokens'[r] = IF Completes(items[i]) THEN num_tokens[r] + 1 ELSE num_tokens[r]
  <2>1. \A j \in DOMAIN items : items[j][1] = r => j = i
    BY <1>4, <1>5 DEF IsBatch
  <2>2. (CHOOSE j \in DOMAIN items : items[j][1] = r) = i
    BY <1>4, <1>5, <2>1
  <2>3. sampled[i] = IF Completes(items[i]) THEN <<r, num_tokens[r] - 1>> ELSE None
    BY <1>1, <1>2, <1>4, <1>5 DEF SamplesBelongToItems
  <2>4. sampled[i] # None <=> Completes(items[i])
    <3>1. <<r, num_tokens[r] - 1>> # None
      BY DEF None
    <3> QED
      BY <2>3, <3>1
  <2>5. computed'[r] = computed[r] + items[i][2]
    BY <1>3, <1>4, <1>5, <2>2
  <2>6. (\E j \in DOMAIN items : items[j][1] = r /\ sampled[j] # None) <=> Completes(items[i])
    BY <1>4, <1>5, <2>1, <2>4
  <2> QED
    BY <1>3, <2>5, <2>6
<1>6. ASSUME NEW r \in Requests, \A i \in 1 .. Len(items) : items[i][1] # r
      PROVE  computed'[r] = computed[r] /\ num_tokens'[r] = num_tokens[r]
  BY <1>3, <1>4, <1>6
<1>7. HostInv'
  <2>1. ASSUME NEW r \in Requests
        PROVE  /\ computed'[r] \in Nat /\ num_tokens'[r] \in Nat
               /\ computed'[r] < num_tokens'[r] /\ num_tokens'[r] <= Total[r]
    <3>1. /\ computed[r] \in Nat /\ num_tokens[r] \in Nat /\ Total[r] \in Nat
          /\ computed[r] < num_tokens[r] /\ num_tokens[r] <= Total[r]
      BY <1>2, CudaAssumption DEF HostInv, CudaAssumption
    <3>2. CASE \E i \in 1 .. Len(items) : items[i][1] = r
      <4>1. PICK i \in 1 .. Len(items) : items[i][1] = r
        BY <3>2
      <4>2. items[i][2] \in Nat
        BY <1>4, BatchFacts
      <4>3. num_tokens[r] < Total[r] /\ computed[r] + items[i][2] <= num_tokens[r]
        BY <1>1, <1>2, <4>1 DEF BatchInv
      <4>4. Completes(items[i]) <=> computed[r] + items[i][2] = num_tokens[r]
        BY <4>1 DEF Completes
      <4>5. /\ computed'[r] = computed[r] + items[i][2]
            /\ num_tokens'[r] = IF Completes(items[i]) THEN num_tokens[r] + 1 ELSE num_tokens[r]
        BY <1>5, <4>1
      <4> DEFINE c == computed[r]
                 t == num_tokens[r]
                 n == items[i][2]
                 total == Total[r]
                 full == Completes(items[i])
      <4>6. /\ c \in Nat /\ t \in Nat /\ n \in Nat /\ total \in Nat /\ t < total /\ c + n <= t
            /\ full <=> c + n = t
            /\ computed'[r] = c + n /\ num_tokens'[r] = IF full THEN t + 1 ELSE t
        BY <3>1, <4>2, <4>3, <4>4, <4>5
      <4> HIDE DEF c, t, n, total, full
      <4>7. /\ computed'[r] \in Nat /\ num_tokens'[r] \in Nat
            /\ computed'[r] < num_tokens'[r] /\ num_tokens'[r] <= total
        BY <4>6
      <4> QED
        BY <4>7 DEF total
    <3>3. CASE \A i \in 1 .. Len(items) : items[i][1] # r
      BY <1>6, <3>1, <3>3
    <3> QED
      BY <3>2, <3>3
  <2>2. DOMAIN computed' = Requests /\ DOMAIN num_tokens' = Requests
    BY <1>3
  <2>3. /\ computed' = [r \in Requests |-> computed'[r]]
        /\ num_tokens' = [r \in Requests |-> num_tokens'[r]]
    BY <1>3, <2>2
  <2>4. computed' \in [Requests -> Nat] /\ num_tokens' \in [Requests -> Nat]
    BY <2>1, <2>3
  <2> QED
    BY <2>1, <2>4 DEF HostInv
<1>8. CacheInv'
  <2>1. ASSUME NEW r \in Requests, NEW p \in 0 .. computed'[r] - 1
        PROVE  kv[SlotOf(r, p)] = <<r, p>>
    <3>1. CASE \E i \in 1 .. Len(items) : items[i][1] = r
      <4>1. PICK i \in 1 .. Len(items) : items[i][1] = r
        BY <3>1
      <4>2. computed[r] \in Nat /\ items[i][2] \in Nat /\ computed'[r] = computed[r] + items[i][2]
        BY <1>2, <1>4, <1>5, <4>1, BatchFacts DEF HostInv
      <4>3. CASE p < computed[r]
        <5>1. p \in 0 .. computed[r] - 1
          BY <4>2, <4>3
        <5> QED
          BY <1>2, <5>1 DEF CacheInv
      <4>4. CASE computed[r] <= p
        <5> DEFINE m == p - computed[r] + 1
                   k == QueryStarts(items)[i] + m
        <5>1. m \in 1 .. items[i][2] /\ computed[r] + m - 1 = p
          BY <4>2, <4>4
        <5> HIDE DEF m
        <5>2. k \in 1 .. Len(input) /\ input[k] = <<i, computed[items[i][1]] + m - 1>>
          BY <1>1, <1>2, <5>1, RowFacts
        <5>3. Owner(k) = r /\ Position(k) = p
          BY <4>1, <5>1, <5>2 DEF Owner, Position
        <5> QED
          BY <1>2, <5>2, <5>3 DEF RowsInCache
      <4> QED
        BY <4>2, <4>3, <4>4
    <3>2. CASE \A i \in 1 .. Len(items) : items[i][1] # r
      BY <1>2, <1>6, <3>2 DEF CacheInv
    <3> QED
      BY <3>1, <3>2
  <2> QED
    BY <1>1, <1>2, <2>1 DEF CacheInv, SlotOf
<1>9. GraphsInv'
  BY <1>1 DEF RunnerInv, GraphsInv
<1>10. BatchInv'
  BY <1>1 DEF BatchInv
<1>11. DeviceInv'
  BY <1>1, <1>2 DEF DeviceInv, Graphs, Capacity, Pruning
<1>12. RunInv'
  BY <1>1 DEF RunInv, SamplesBelongToItems
<1> QED
  BY <1>7, <1>8, <1>9, <1>10, <1>11, <1>12 DEF RunnerInv

LEMMA ThrowHolds ==
  ASSUME RunnerInv, Throw
  PROVE  RunnerInv'
<1>1. /\ pc \notin {"idle", "returned"} /\ pc' = "idle" /\ items' = << >> /\ input' = << >>
      /\ UNCHANGED <<mode, host_vars, cuda_graphs>>
      /\ stream' \in IF pc = "record" THEN {"capturing", "ready"} ELSE {stream}
  BY DEF Throw, Discarded
<1>2. HostInv /\ BatchInv /\ DeviceInv /\ CacheInv
  BY DEF RunnerInv
<1>3. HostInv' /\ GraphsInv'
  BY <1>1, <1>2, HostFrame DEF RunnerInv, GraphsInv
<1>4. CacheInv'
  <2>1. CASE UNCHANGED kv
    BY <1>1, <1>2, <2>1, CacheFrame DEF host_vars
  <2>2. CASE /\ pc = "launch" /\ ~ Graphs
             /\ kv' = [s \in DOMAIN kv |->
                         IF \E k \in DOMAIN input : dev["slot_mapping"][k] = s
                         THEN Garbage ELSE kv[s]]
    <3>1. OwnMetadata /\ DOMAIN input = 1 .. Len(input)
      BY <1>2, <2>2, RowFacts DEF DeviceInv
    <3>2. ASSUME NEW r \in Requests, NEW p \in 0 .. computed[r] - 1
          PROVE  kv'[SlotOf(r, p)] = <<r, p>>
      <4>1. computed[r] \in Nat /\ num_tokens[r] \in Nat /\ Total[r] \in Nat
            /\ computed[r] < num_tokens[r] /\ num_tokens[r] <= Total[r]
        BY <1>2, CudaAssumption DEF HostInv, CudaAssumption
      <4>2. Reachable(r, p) /\ p \in Nat /\ p < computed[r]
        BY <4>1 DEF Reachable
      <4>3. SlotOf(r, p) \in DOMAIN kv
        BY <1>2, <4>2, SlotInCache DEF CacheInv
      <4>4. ASSUME NEW k \in 1 .. Len(input), dev["slot_mapping"][k] = SlotOf(r, p)
            PROVE  FALSE
        <5>1. SlotOf(Owner(k), Position(k)) = SlotOf(r, p)
          BY <3>1, <4>4 DEF OwnMetadata
        <5>2. /\ Reachable(Owner(k), Position(k)) /\ Position(k) \in Nat
              /\ computed[Owner(k)] <= Position(k)
          BY <1>1, <1>2, RowRange
        <5>3. Owner(k) = r /\ Position(k) = p
          BY <4>2, <5>1, <5>2, SlotsDiffer
        <5> QED
          BY <4>1, <4>2, <5>2, <5>3
      <4>5. kv'[SlotOf(r, p)] = kv[SlotOf(r, p)]
        BY <2>2, <3>1, <4>3, <4>4
      <4> QED
        BY <1>2, <4>5 DEF CacheInv
    <3>3. DOMAIN kv' = DOMAIN kv
      BY <2>2
    <3> QED
      BY <1>1, <1>2, <3>2, <3>3 DEF CacheInv, SlotOf, host_vars
  <2> QED
    BY <2>1, <2>2 DEF Throw
<1>5. BatchInv'
  BY <1>1 DEF BatchInv
<1>6. DeviceInv'
  <2>1. DOMAIN dev' = DeviceArrays /\ \A a \in DeviceArrays : DOMAIN dev'[a] = 1 .. Capacity(a)
    <3>1. CASE UNCHANGED dev
      BY <1>2, <3>1 DEF DeviceInv
    <3>2. CASE \E n \in 1 .. Len(Arrays) - 1 : dev' = Copied(n)
      <4>1. PICK n \in 1 .. Len(Arrays) - 1 : dev' = Copied(n)
        BY <3>2
      <4> QED
        BY <1>2, <4>1, CopiedFacts, Zenon
    <3> QED
      BY <3>1, <3>2 DEF Throw
  <2>2. \A a \in DeviceArrays : DOMAIN dev'[a] = 1 .. Capacity(a)'
    BY <1>1, <2>1 DEF Capacity, Pruning
  <2>3. stream' \in {"ready", "capturing"} /\ (~ Graphs' => stream' = "ready")
    BY <1>1, <1>2 DEF DeviceInv, Graphs
  <2> QED
    BY <1>1, <2>1, <2>2, <2>3 DEF DeviceInv
<1>7. RunInv'
  BY <1>1 DEF RunInv, SamplesBelongToItems
<1> QED
  BY <1>3, <1>4, <1>5, <1>6, <1>7 DEF RunnerInv

LEMMA RunnerStep ==
  ASSUME RunnerInv, [Next]_vars
  PROVE  RunnerInv'
<1>1. CASE BeginRun
  BY <1>1, BeginRunHolds
<1>2. CASE CopyMetadata
  BY <1>2, CopyMetadataHolds
<1>3. CASE LaunchEager
  BY <1>3, LaunchEagerHolds
<1>4. CASE ReplayGraph
  BY <1>4, ReplayGraphHolds
<1>5. CASE BeginCapture
  BY <1>5, BeginCaptureHolds
<1>6. CASE EndCapture
  BY <1>6, EndCaptureHolds
<1>7. CASE InstantiateGraph
  BY <1>7, InstantiateGraphHolds
<1>8. CASE Return
  BY <1>8, ReturnHolds
<1>9. CASE Commit
  BY <1>9, CommitHolds
<1>10. CASE Throw
  BY <1>10, ThrowHolds
<1>11. CASE UNCHANGED vars
  <2>1. /\ UNCHANGED <<mode, host_vars, items, input, logit_rows, dev, kv, stream, cuda_graphs>>
        /\ UNCHANGED <<pc, sampled>>
    BY <1>11 DEF vars, host_vars
  <2>2. HostInv' /\ CacheInv' /\ GraphsInv'
    BY <2>1, HostFrame, CacheFrame DEF RunnerInv, GraphsInv, host_vars
  <2>3. BatchInv'
    <3>1. CASE pc = "idle"
      BY <2>1, <3>1 DEF RunnerInv, BatchInv
    <3>2. CASE pc # "idle"
      BY <2>1, <3>2, BatchFrame DEF RunnerInv, BatchInv, RunPlaces
    <3> QED
      BY <3>1, <3>2
  <2>4. OwnMetadata => OwnMetadata'
    BY <2>1, MetadataFrame
  <2>5. DeviceInv'
    BY <2>1, <2>4 DEF RunnerInv, DeviceInv, Graphs, Capacity, Pruning
  <2>6. RowsInCache => RowsInCache'
    BY <2>1 DEF RowsInCache, Owner, Position, SlotOf
  <2>7. OwnSamples => OwnSamples'
    BY <2>1 DEF OwnSamples, Owner, Position
  <2>8. SamplesBelongToItems => SamplesBelongToItems'
    BY <2>1 DEF SamplesBelongToItems, Completes, host_vars
  <2>9. RunInv'
    BY <2>1, <2>6, <2>7, <2>8 DEF RunnerInv, RunInv
  <2> QED
    BY <2>2, <2>3, <2>5, <2>9 DEF RunnerInv
<1> QED
  BY <1>1, <1>2, <1>3, <1>4, <1>5, <1>6, <1>7, <1>8, <1>9, <1>10, <1>11 DEF Next, Progress, Done

-----------------------------------------------------------------------------
(***************************************************************************)
(* The theorems.                                                           *)
(***************************************************************************)

\* The runner's invariant: what the host, the device and the cache hold at each place of a
\* run (Impl::run and forward).
THEOREM SpecKeepsRunner == Spec => []RunnerInv
<1>1. Init => RunnerInv
  BY InitHolds
<1>2. RunnerInv /\ [Next]_vars => RunnerInv'
  BY RunnerStep
<1> QED
  BY <1>1, <1>2, PTL DEF Spec

\* The packed input has the rows of the CPU runner's micro steps, each once, and
\* query_start_locations cuts it into its items (prepare_packed_model_input).
THEOREM PackedLikeMicroSteps == Spec => []PackedSpansItems
<1>1. ASSUME RunnerInv
      PROVE  PackedSpansItems
  <2>1. CASE pc = "idle"
    <3>1. items = << >> /\ input = << >>
      BY <1>1, <2>1 DEF RunnerInv, BatchInv
    <3>2. Range(input) = {} /\ IsInjective(input)
      BY <3>1 DEF Range, IsInjective
    <3>3. \A k : MicroRows(items, k) = {}
      BY <3>1 DEF MicroRows
    <3> QED
      BY <3>1, <3>2, <3>3 DEF PackedSpansItems
  <2>2. CASE pc # "idle"
    <3>1. HostInv /\ BatchInv
      BY <1>1 DEF RunnerInv
    <3>2. /\ IsBatch(items) /\ Counts
          /\ Len(input) \in Nat /\ DOMAIN input = 1 .. Len(input)
          /\ \A i \in 1 .. Len(items) : \A m \in 1 .. items[i][2] :
               /\ QueryStarts(items)[i] + m \in 1 .. Len(input)
               /\ input[QueryStarts(items)[i] + m] = <<i, computed[items[i][1]] + m - 1>>
          /\ \A k \in 1 .. Len(input) : \E i \in 1 .. Len(items) : \E m \in 1 .. items[i][2] :
               /\ k = QueryStarts(items)[i] + m
               /\ input[k] = <<i, computed[items[i][1]] + m - 1>>
      BY <2>2, <3>1, RowFacts
    <3>3. DOMAIN items = 1 .. Len(items) /\ Len(items) \in Nat
      BY <3>2, BatchFacts
    <3>4. ASSUME NEW i \in 1 .. Len(items)
          PROVE  /\ items[i][2] \in Nat \ {0} /\ items[i][2] <= MaxNumTokens
                 /\ computed[items[i][1]] \in Nat
                 /\ QueryStarts(items)[i] \in Nat
                 /\ QueryStarts(items)[i + 1] = QueryStarts(items)[i] + items[i][2]
      <4>1. items[i][1] \in Requests /\ items[i][2] \in Nat \ {0} /\ items[i][2] <= MaxNumTokens
        BY <3>2, BatchFacts
      <4>2. i \in 1 .. Len(items) + 1
        BY <3>3
      <4>3. QueryStarts(items)[i] \in Nat
            /\ QueryStarts(items)[i + 1] = QueryStarts(items)[i] + items[i][2]
        BY <3>2, <4>2, PackedFacts
      <4> QED
        BY <3>2, <4>1, <4>3 DEF Counts
    <3>5. MaxNumTokens \in Nat
      BY CudaAssumption DEF CudaAssumption
    <3>6. ASSUME NEW k \in DOMAIN input
          PROVE  \E n \in 0 .. MaxNumTokens - 1 : input[k] \in MicroRows(items, n)
      <4>1. PICK i \in 1 .. Len(items) : \E m \in 1 .. items[i][2] :
              input[k] = <<i, computed[items[i][1]] + m - 1>>
        BY <3>2
      <4>2. PICK m \in 1 .. items[i][2] : input[k] = <<i, computed[items[i][1]] + m - 1>>
        BY <4>1
      <4> DEFINE n == m - 1
                 count == items[i][2]
                 c == computed[items[i][1]]
      <4>3. count \in Nat /\ count <= MaxNumTokens /\ m \in 1 .. count /\ c \in Nat
        BY <3>4
      <4>4. input[k] = <<i, c + m - 1>>
        BY <4>2
      <4> HIDE DEF count, c
      <4>5. n \in 0 .. MaxNumTokens - 1 /\ n < count /\ c + m - 1 = c + n
        BY <3>5, <4>3
      <4> HIDE DEF n
      <4>6. input[k] = <<i, c + n>>
        BY <4>4, <4>5
      <4>7. i \in {j \in DOMAIN items : n < items[j][2]}
        BY <3>3, <4>5 DEF count
      <4>8. input[k] \in MicroRows(items, n)
        BY <4>6, <4>7 DEF MicroRows, c
      <4> QED
        BY <4>5, <4>8
    <3>7. ASSUME NEW n \in 0 .. MaxNumTokens - 1, NEW row \in MicroRows(items, n)
          PROVE  \E k \in DOMAIN input : input[k] = row
      <4>1. PICK i \in {j \in DOMAIN items : n < items[j][2]} :
              row = <<i, computed[items[i][1]] + n>>
        BY DEF MicroRows
      <4>2. i \in 1 .. Len(items) /\ n < items[i][2]
        BY <3>3, <4>1
      <4> DEFINE m == n + 1
                 count == items[i][2]
                 c == computed[items[i][1]]
      <4>3. count \in Nat /\ c \in Nat /\ n < count /\ n \in Nat
        BY <3>4, <3>5, <4>2
      <4> HIDE DEF count, c
      <4>4. m \in 1 .. count /\ c + m - 1 = c + n
        BY <4>3
      <4> HIDE DEF m
      <4>5. /\ QueryStarts(items)[i] + m \in 1 .. Len(input)
            /\ input[QueryStarts(items)[i] + m] = <<i, c + m - 1>>
        BY <3>2, <4>2, <4>4 DEF count, c
      <4> QED
        BY <3>2, <4>1, <4>4, <4>5 DEF c
    <3>8. Range(input) = UNION {MicroRows(items, k) : k \in 0 .. MaxNumTokens - 1}
      BY <3>6, <3>7 DEF Range
    <3>9. IsInjective(input)
      <4>1. ASSUME NEW k \in 1 .. Len(input), NEW l \in 1 .. Len(input), input[k] = input[l]
            PROVE  k = l
        <5>1. Owner(k) = Owner(l) /\ Position(k) = Position(l)
          BY <4>1 DEF Owner, Position
        <5> QED
          BY <2>2, <3>1, <5>1, RowsDiffer
      <4> QED
        BY <3>2, <4>1 DEF IsInjective
    <3>10. ASSUME NEW i \in DOMAIN items
           PROVE  {input[k][1] : k \in QueryStarts(items)[i] + 1 .. QueryStarts(items)[i + 1]} = {i}
      <4> DEFINE start == QueryStarts(items)[i]
                 count == items[i][2]
      <4>1. /\ start \in Nat /\ count \in Nat \ {0} /\ QueryStarts(items)[i + 1] = start + count
            /\ i \in 1 .. Len(items)
        BY <3>3, <3>4
      <4>2. ASSUME NEW m \in 1 .. count
            PROVE  input[start + m][1] = i
        BY <3>2, <4>1
      <4> HIDE DEF start, count
      <4>3. ASSUME NEW k \in start + 1 .. start + count
            PROVE  input[k][1] = i
        <5> DEFINE m == k - start
        <5>1. m \in 1 .. count /\ start + m = k
          BY <4>1
        <5> HIDE DEF m
        <5> QED
          BY <4>2, <5>1
      <4>4. start + 1 \in start + 1 .. start + count
        BY <4>1
      <4>5. {input[k][1] : k \in start + 1 .. start + count} = {i}
        BY <4>3, <4>4
      <4> QED
        BY <4>1, <4>5 DEF start
    <3> QED
      BY <3>8, <3>9, <3>10 DEF PackedSpansItems
  <2> QED
    BY <2>1, <2>2
<1> QED
  BY <1>1, SpecKeepsRunner, PTL

\* A completing item gets its own request's next token, computed from the whole history,
\* and no other item gets one: pruned or not, eager, captured or replayed, after any failure
\* (Impl::run and forward).
THEOREM SamplesStayOwn == Spec => []SamplesBelongToItems
<1>1. RunnerInv => SamplesBelongToItems
  BY DEF RunnerInv, RunInv
<1> QED
  BY <1>1, SpecKeepsRunner, PTL

=============================================================================
