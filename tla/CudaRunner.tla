----------------------------- MODULE CudaRunner -----------------------------
(***************************************************************************)
(* One CUDA model runner (cuda/gpt2_cuda_model_runner.cu, Impl::run and    *)
(* forward) and the packed input it is given (model_input.hpp): the device *)
(* arrays that outlive a run, the pruning of the rows that are sampled,    *)
(* and the cache of captured graphs, with a throw after any CUDA call.     *)
(*                                                                         *)
(* The caller is the engine: it schedules any batch that fits, commits the *)
(* samples of a run that returns, and schedules again after one that threw.*)
(* Decoding is greedy, so <<r, p>> stands for the K/V of position p of     *)
(* request r after r's own history, and for the token r samples there.     *)
(***************************************************************************)
EXTENDS Integers, Sequences, FiniteSets, SequencesExt

CONSTANTS
  Requests, PromptLen, Total,    \* tokens of the prompt; tokens at the end
  Table,                         \* Table[r]: the pages of r, counted from 0
  PageSize, NumPages,
  MaxNumTokens, MaxNumSequences, \* the runner's capacity
  Modes,                         \* the settings of <<pruning, CUDA graphs>>
  MaxFailures                    \* bound: runs that throw

ASSUME CudaAssumption ==
  /\ PageSize \in Nat \ {0} /\ NumPages \in Nat /\ MaxFailures \in Nat
  /\ MaxNumTokens \in Nat \ {0} /\ MaxNumSequences \in Nat \ {0}
  /\ PromptLen \in [Requests -> Nat \ {0}] /\ Total \in [Requests -> Nat]
  /\ Table \in [Requests -> Seq(0 .. NumPages - 1)]
  /\ \A r \in Requests :
       /\ Total[r] > PromptLen[r] /\ Total[r] - 1 <= PageSize * Len(Table[r])
       /\ \A s \in Requests : \A i \in DOMAIN Table[r], j \in DOMAIN Table[s] :
            <<r, i>> # <<s, j>> => Table[r][i] # Table[s][j]

VARIABLES
  mode,           \* <<enable_sample_row_pruning, enable_cuda_graph>>
  computed,       \* computed[r]: num_computed_tokens
  num_tokens,     \* num_tokens[r]
  items,          \* the scheduled items: <<r, num_scheduled_tokens>>
  input,          \* ModelInput: its rows and query_start_locations
  logit_rows,     \* last_logit_token_indices_
  dev,            \* the device arrays
  kv,             \* key_cache_ and value_cache_, by physical slot
  stream,         \* "ready", or "capturing"
  cuda_graphs,    \* cuda_graphs_: from keys to the shape captured
  pc, sampled, failures

host_vars == <<computed, num_tokens>>
vars == <<mode, computed, num_tokens, items, input, logit_rows, dev, kv, stream,
          cuda_graphs, pc, sampled, failures>>

None == << >>
Garbage == <<"garbage", 0>>
Pruning == mode[1]
Graphs == mode[2]

-----------------------------------------------------------------------------
(***************************************************************************)
(* model_input.hpp.  Operators named X_Y are faulty variants of X that the *)
(* properties must notice.                                                 *)
(***************************************************************************)
SlotOf(r, p) == Table[r][(p \div PageSize) + 1] * PageSize + (p % PageSize)

\* The metadata of a row, by the device array it goes to.
Row(i, p) ==
  LET r == items[i][1]
  IN  [token_ids |-> <<r, p>>, positions |-> p, context_lengths |-> p + 1,
       slot_mapping |-> SlotOf(r, p), block_tables |-> Table[r]]

\* prepare_packed_model_input: the rows of an item one after the other.
ItemRows(batch, i) == [k \in 1 .. batch[i][2] |-> <<i, computed[batch[i][1]] + k - 1>>]
RowsOfFirst(batch, n) == FlattenSeq([i \in 1 .. n |-> ItemRows(batch, i)])
PackedRows(batch) == RowsOfFirst(batch, Len(batch))

\* query_start_locations, counted from 0: the rows there are before each item, and in the end.
QueryStarts(batch) == [i \in 1 .. Len(batch) + 1 |-> Len(RowsOfFirst(batch, i - 1))]

\* prepare_model_input, the CPU runner's: the k-th scheduled token of each item.
MicroRows_AllItems(batch, k) ==
  {<<i, computed[batch[i][1]] + k>> : i \in DOMAIN batch}
MicroRows(batch, k) ==
  {<<i, computed[batch[i][1]] + k>> : i \in {n \in DOMAIN batch : k < batch[n][2]}}

-----------------------------------------------------------------------------
(***************************************************************************)
(* run(): the input, and which of its rows are sampled.                    *)
(***************************************************************************)
Completes_AtPromptEnd(item) == computed[item[1]] + item[2] = PromptLen[item[1]]
Completes(item) == computed[item[1]] + item[2] = num_tokens[item[1]]

\* The last rows of the items among the first n that complete their tokens.
LastRows(batch, n) ==
  FlattenSeq([i \in 1 .. n |->
    IF Completes(batch[i]) THEN <<QueryStarts(batch)[i + 1] - 1>> ELSE << >>])
LogitRows(batch) ==
  IF Pruning THEN LastRows(batch, Len(batch))
  ELSE [k \in 1 .. Len(PackedRows(batch)) |-> k - 1]

\* The batches the engine may schedule: distinct requests, with work left, in any order.
Pending(r) == num_tokens[r] - computed[r]
Batches ==
  {b \in UNION {[1 .. n -> Requests \X (1 .. MaxNumTokens)] : n \in 1 .. MaxNumSequences} :
     /\ \A i \in DOMAIN b : num_tokens[b[i][1]] < Total[b[i][1]] /\ b[i][2] <= Pending(b[i][1])
     /\ \A i, j \in DOMAIN b : i # j => b[i][1] # b[j][1]
     /\ Len(PackedRows(b)) <= MaxNumTokens}

\* The device arrays, those the host fills in the order it does so, and their sizes.
Arrays == <<"token_ids", "positions", "context_lengths", "slot_mapping", "block_tables", "sample_rows">>

DeviceArrays ==
  {"token_ids", "positions", "context_lengths", "slot_mapping", "block_tables", "sample_rows",
   "sampled_token_ids"}
Capacity(a) ==
  IF Pruning /\ a \in {"sample_rows", "sampled_token_ids"} THEN MaxNumSequences ELSE MaxNumTokens

\* Freshly allocated device memory; what it holds is never read.
Unwritten(a) ==
  CASE a \in {"token_ids", "sampled_token_ids"} -> Garbage
    [] a = "block_tables" -> <<0>>
    [] OTHER -> 0

Init ==
  /\ mode \in Modes
  /\ computed = [r \in Requests |-> 0]
  /\ num_tokens = PromptLen
  /\ items = << >> /\ input = << >> /\ logit_rows = << >> /\ sampled = << >>
  /\ dev = [a \in DeviceArrays |-> [k \in 1 .. Capacity(a) |-> Unwritten(a)]]
  /\ kv = [s \in 0 .. NumPages * PageSize - 1 |-> Garbage]
  /\ stream = "ready"
  /\ cuda_graphs = << >>
  /\ pc = "idle"
  /\ failures = 0

BeginRun ==
  /\ pc = "idle"
  /\ \E b \in Batches :
       /\ items' = b
       /\ input' = PackedRows(b)
       /\ logit_rows' = LogitRows(b)
       /\ sampled' = [i \in DOMAIN b |-> None]
  /\ pc' = "copy"
  /\ UNCHANGED <<mode, host_vars, dev, kv, stream, cuda_graphs, failures>>

-----------------------------------------------------------------------------
(***************************************************************************)
(* forward(): copy the arrays, launch or capture or replay, read back.     *)
(***************************************************************************)
\* The new contents overwrite the front of the array; the rest stays.
Overwrite(old, new) == [k \in DOMAIN old |-> IF k <= Len(new) THEN new[k] ELSE old[k]]

HostArray(a) ==
  IF a = "sample_rows" THEN (IF Pruning THEN logit_rows ELSE << >>)
  ELSE [k \in DOMAIN input |-> Row(input[k][1], input[k][2])[a]]

\* copy_metadata, for the first n arrays.  On a capturing stream a copy is recorded,
\* not made.
Copied(n) ==
  [a \in DOMAIN dev |->
     IF a \in {Arrays[j] : j \in 1 .. n} /\ stream = "ready"
     THEN Overwrite(dev[a], HostArray(a)) ELSE dev[a]]

CopyMetadata ==
  /\ pc = "copy"
  /\ dev' = Copied(Len(Arrays))
  /\ pc' = "launch"
  /\ UNCHANGED <<mode, host_vars, items, input, logit_rows, kv, stream, cuda_graphs, sampled, failures>>

\* What row k writes: all rows write their slots before any row reads its context.
Written(k) ==
  LET t == dev["token_ids"][k]
  IN  IF t[2] = dev["positions"][k] THEN t ELSE Garbage
AfterWrites(rows) ==
  [s \in DOMAIN kv |->
     IF \E k \in 1 .. rows : dev["slot_mapping"][k] = s
     THEN Written(CHOOSE k \in 1 .. rows : dev["slot_mapping"][k] = s) ELSE kv[s]]

\* paged_attention: row k reads the slots its page table names, up to its context.
PagedContext(cache, k) ==
  [p \in 0 .. dev["context_lengths"][k] - 1 |->
     cache[dev["block_tables"][k][(p \div PageSize) + 1] * PageSize + (p % PageSize)]]
\* The same without pages: the keys of the row's request, up to its position.
DenseContext(k) ==
  LET t == dev["token_ids"][k] IN [p \in 0 .. t[2] |-> <<t[1], p>>]

RowIsRight(rows, k) == PagedContext(AfterWrites(rows), k) = DenseContext(k)

\* The kernels of a forward pass for this many rows and logits, eager or replayed: a
\* row with a wrong context makes its own K/V wrong in the next layer.
CacheAfter(shape) ==
  [s \in DOMAIN kv |->
     IF \E k \in 1 .. shape[1] : dev["slot_mapping"][k] = s /\ ~ RowIsRight(shape[1], k)
     THEN Garbage ELSE AfterWrites(shape[1])[s]]
SamplesOf(shape) ==
  [j \in 1 .. shape[2] |->
     LET k == IF Pruning THEN dev["sample_rows"][j] + 1 ELSE j
     IN  IF RowIsRight(shape[1], k) THEN dev["token_ids"][k] ELSE Garbage]
Execute(shape) ==
  /\ kv' = CacheAfter(shape)
  /\ dev' = [dev EXCEPT !["sampled_token_ids"] = Overwrite(@, SamplesOf(shape))]

GraphKey_RowsOnly(rows, logits) == <<rows, 0>>
GraphKey(rows, logits) == <<rows, logits>>
ThisShape == <<Len(input), Len(logit_rows)>>
ThisKey == GraphKey(Len(input), Len(logit_rows))
Captured == ThisKey \in DOMAIN cuda_graphs

LaunchEager ==
  /\ pc = "launch" /\ ~ Graphs
  /\ Execute(ThisShape)
  /\ pc' = "read"
  /\ UNCHANGED <<mode, host_vars, items, input, logit_rows, stream, cuda_graphs, sampled, failures>>

ReplayGraph ==
  /\ pc = "launch" /\ Graphs /\ Captured
  /\ IF stream = "ready" THEN Execute(cuda_graphs[ThisKey]) ELSE UNCHANGED <<kv, dev>>
  /\ pc' = "read"
  /\ UNCHANGED <<mode, host_vars, items, input, logit_rows, stream, cuda_graphs, sampled, failures>>

\* The stream is synchronized first, which a stream that still captures refuses.
BeginCapture ==
  /\ pc = "launch" /\ Graphs /\ ~ Captured
  /\ stream = "ready"
  /\ stream' = "capturing"
  /\ pc' = "record"
  /\ UNCHANGED <<mode, host_vars, items, input, logit_rows, dev, kv, cuda_graphs, sampled, failures>>

EndCapture ==
  /\ pc = "record"
  /\ stream' = "ready"
  /\ pc' = "instantiate"
  /\ UNCHANGED <<mode, host_vars, items, input, logit_rows, dev, kv, cuda_graphs, sampled, failures>>

InstantiateGraph ==
  /\ pc = "instantiate"
  /\ cuda_graphs' = [k \in DOMAIN cuda_graphs \cup {ThisKey} |->
                       IF k = ThisKey THEN ThisShape ELSE cuda_graphs[k]]
  /\ pc' = "launch"
  /\ UNCHANGED <<mode, host_vars, items, input, logit_rows, dev, kv, stream, sampled, failures>>

\* The sample of an item that completes its tokens: pruned, the next one in order.
SampleIndex(i) == IF Pruning THEN Len(LastRows(items, i)) ELSE QueryStarts(items)[i + 1]

\* The last synchronization; run() returns.
Return ==
  /\ pc = "read"
  /\ stream = "ready"
  /\ sampled' = [i \in DOMAIN items |->
                   IF Completes(items[i]) THEN dev["sampled_token_ids"][SampleIndex(i)] ELSE None]
  /\ pc' = "returned"
  /\ UNCHANGED <<mode, host_vars, items, input, logit_rows, dev, kv, stream, cuda_graphs, failures>>

Discarded == items' = << >> /\ input' = << >> /\ logit_rows' = << >> /\ sampled' = << >>

\* The engine commits: the items are computed, and the complete ones have a token more.
Commit ==
  /\ pc = "returned"
  /\ computed' = [r \in Requests |->
                    IF \E i \in DOMAIN items : items[i][1] = r
                    THEN computed[r] + items[CHOOSE i \in DOMAIN items : items[i][1] = r][2]
                    ELSE computed[r]]
  /\ num_tokens' = [r \in Requests |->
                      IF \E i \in DOMAIN items : items[i][1] = r /\ sampled[i] # None
                      THEN num_tokens[r] + 1 ELSE num_tokens[r]]
  /\ pc' = "idle"
  /\ Discarded
  /\ UNCHANGED <<mode, dev, kv, stream, cuda_graphs, failures>>

\* A CUDA call fails: run() throws, with what is written left where it is.  An eager
\* pass that fails half way has overwritten its rows' slots in some of the layers; a
\* failed call between the two ends of a capture leaves the stream capturing, unless
\* it is the one that ends it.
Throw ==
  /\ pc \notin {"idle", "returned"}
  /\ failures < MaxFailures \/ (stream = "capturing" /\ pc # "record")
  /\ failures' = IF failures < MaxFailures THEN failures + 1 ELSE failures
  /\ \/ UNCHANGED kv
     \/ /\ pc = "launch" /\ ~ Graphs
        /\ kv' = [s \in DOMAIN kv |->
                    IF \E k \in DOMAIN input : dev["slot_mapping"][k] = s THEN Garbage ELSE kv[s]]
  /\ pc' = "idle"
  /\ stream' \in IF pc = "record" THEN {"capturing", "ready"} ELSE {stream}
  /\ Discarded
  /\ \/ UNCHANGED dev
     \/ pc = "copy" /\ \E n \in 1 .. Len(Arrays) - 1 : dev' = Copied(n)
  /\ UNCHANGED <<mode, host_vars, cuda_graphs>>

\* Every request has all its tokens: the engine is done.
AllServed == \A r \in Requests : num_tokens[r] = Total[r]
Done == pc = "idle" /\ AllServed /\ UNCHANGED vars

Progress ==
  \/ BeginRun \/ CopyMetadata
  \/ LaunchEager \/ ReplayGraph \/ BeginCapture \/ EndCapture \/ InstantiateGraph
  \/ Return \/ Commit

Next == Progress \/ Throw \/ Done

Spec == Init /\ [][Next]_vars

\* The engine keeps calling step(), and a CUDA call returns or fails.
FairSpec == Spec /\ WF_vars(Progress)

-----------------------------------------------------------------------------
(***************************************************************************)
(* What the runner promises.                                               *)
(***************************************************************************)

\* The packed batch feeds exactly the rows the CPU runner's micro steps feed, each once,
\* and query_start_locations cuts it into its items (prepare_packed_model_input against
\* prepare_model_input).
PackedSpansItems ==
  /\ Range(input) = UNION {MicroRows(items, k) : k \in 0 .. MaxNumTokens - 1}
  /\ IsInjective(input)
  /\ \A i \in DOMAIN items :
       {input[k][1] : k \in QueryStarts(items)[i] + 1 .. QueryStarts(items)[i + 1]} = {i}

\* What run() returns is, for each item that completes its tokens, its own request's next
\* token, and nothing for the others: pruned or not, eager, captured or replayed from a
\* graph, after any failure (run and forward).  A token is right only if its row attended to
\* the request's whole own history, read through its page table, so this covers the cache
\* that every earlier run left behind.
SamplesBelongToItems ==
  pc = "returned" =>
    \A i \in DOMAIN items :
      LET r == items[i][1]
      IN  sampled[i] = IF Completes(items[i]) THEN <<r, num_tokens[r] - 1>> ELSE None

\* Every request is served, although runs throw, unless a failed capture has left the
\* stream capturing: from then on every run throws (forward, between the start and the
\* end of a capture).
ServesUnlessStuck == <>AllServed \/ <>[](stream = "capturing")

=============================================================================
