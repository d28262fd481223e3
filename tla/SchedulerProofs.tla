--------------------------- MODULE SchedulerProofs ---------------------------
(***************************************************************************)
(* Proofs about Scheduler, for every set of requests, every prompt, every  *)
(* pool and every limit.                                                   *)
(*                                                                         *)
(* The scheduler is a client of BlockManager that keeps to its calling     *)
(* discipline, so that every theorem of BlockManagerProofs holds of it;    *)
(* that needs an invariant of its own, about its queues and its batch,     *)
(* which in turn is kept only because the pool keeps its promises.  So the *)
(* two are proved together, as SchedulerInv.                               *)
(***************************************************************************)
EXTENDS Scheduler, BlockManagerProofs

\* Where each request is in its life.
RequestsInv ==
  \A r \in Requests :
    /\ PromptLen(r) <= num_tokens[r]
    /\ num_computed_tokens[r] <= num_tokens[r]
    /\ status[r] = "Waiting" => num_computed_tokens[r] < num_tokens[r]
    /\ status[r] # "Finished" => num_tokens[r] - PromptLen(r) < MaxNewTokens[r]

\* A running sequence has a token to compute, but for the one about to be sampled.
RunningInv ==
  \A r \in Range(running) :
    /\ r \in known_request_ids
    /\ status[r] = "Running" =>
         PendingTokens(r) > 0 \/ (pc = "sample" /\ r = items[cursor].sequence)

\* Items commit() has not begun with.
Untouched ==
  {i \in DOMAIN items : /\ pc = "commit" => i >= cursor
                        /\ pc \in {"sample", "release"} => i > cursor}

\* What schedule() made sure of for an item, and nothing spoils until its commit.
Ready(item) ==
  LET r == item.sequence
      count == item.num_scheduled_tokens
  IN  /\ r \in Range(running) /\ status[r] = "Running"
      /\ 0 < count /\ count <= PendingTokens(r)
      /\ num_computed_tokens[r] + count <= Len(block_table[r]) * BlockSize
      /\ item.phase = (IF IsPrefill(r) THEN "Prefill" ELSE "Decode")

BatchInv ==
  /\ \A i, j \in DOMAIN items : items[i].sequence = items[j].sequence => i = j
  /\ \A i \in Untouched : Ready(items[i])

\* What each place in the step loop knows.
StageInv ==
  /\ pc = "idle" => items = << >>
  /\ pc = "running" =>
       \A i \in DOMAIN items : \E k \in DOMAIN running :
         k < cursor /\ items[i].sequence = running[k]
  /\ pc = "admit_capacity" => MayAdmit
  /\ pc \in {"sample", "release"} =>
       /\ cursor \in DOMAIN items
       /\ items[cursor].sequence \in Range(running)
       /\ items[cursor].num_scheduled_tokens > 0
       /\ block_table[items[cursor].sequence] # << >>
  /\ pc = "sample" =>
       /\ status[items[cursor].sequence] = "Running"
       /\ PendingTokens(items[cursor].sequence) = 0
  /\ pc = "release" => status[items[cursor].sequence] = "Finished"

SchedulerInv ==
  /\ PoolInv
  /\ SchedulerTypeOK
  /\ QueuesPartitionRequests
  /\ RequestsInv
  /\ RunningInv
  /\ BatchInv
  /\ StageInv


----------------------------------------------------------------------------
(***************************************************************************)
(* What the pool's operations do to a sequence.                            *)
(***************************************************************************)

\* Cache hits cover whole blocks of the prompt but never all of it, and only the
\* request that looks them up changes.
LEMMA LookupLeavesAToken ==
  ASSUME PoolInv, NEW r \in Requests, ApplyPrefixCache(r)
  PROVE  /\ UNCHANGED <<status, num_tokens>>
         /\ \A q \in Requests : q # r =>
              /\ num_computed_tokens'[q] = num_computed_tokens[q]
              /\ block_table'[q] = block_table[q]
         /\ PromptLen(r) <= num_tokens[r] /\ num_computed_tokens[r] < num_tokens[r] =>
              num_computed_tokens'[r] < num_tokens[r]
<1>1. TypeOK
  BY DEF PoolInv
<1>2. PICK hits \in 0 .. CacheableBlocks(r) :
        /\ PrefixHits(r, hits)
        /\ num_computed_tokens' = [num_computed_tokens EXCEPT ![r] = @ + hits * BlockSize]
  BY DEF ApplyPrefixCache
<1>3. UNCHANGED <<status, num_tokens>>
  BY DEF ApplyPrefixCache
<1>4. \A q \in Requests : q # r =>
        /\ num_computed_tokens'[q] = num_computed_tokens[q]
        /\ block_table'[q] = block_table[q]
  BY <1>1 DEF ApplyPrefixCache, TypeOK
<1>5. hits \in Nat /\ PromptLen(r) \in Nat \ {0} /\ CacheableBlocks(r) \in Nat
      /\ num_computed_tokens[r] \in Nat /\ num_tokens[r] \in Nat
      /\ num_computed_tokens'[r] = num_computed_tokens[r] + hits * BlockSize
  BY <1>1, <1>2, PrefixKeyFacts DEF TypeOK
<1>6. CASE num_computed_tokens[r] = 0
  <2>1. hits * BlockSize <= PromptLen(r) - 1
    BY <1>2, <1>5, BlocksFit DEF CacheableBlocks
  <2>2. hits * BlockSize \in Nat
    BY <1>5, BlockManagerAssumption
  <2> QED
    BY <1>3, <1>4, <1>5, <1>6, <2>1, <2>2
<1>7. CASE num_computed_tokens[r] # 0
  <2>1. hits = 0
    BY <1>2, <1>7 DEF PrefixHits
  <2>2. hits * BlockSize = 0
    BY <2>1, BlockManagerAssumption
  <2> QED
    BY <1>3, <1>4, <1>5, <2>2
<1> QED
  BY <1>6, <1>7

----------------------------------------------------------------------------
(***************************************************************************)
(* Consequences of the invariant's types.                                  *)
(***************************************************************************)

LEMMA RequestFacts ==
  ASSUME TypeOK, NEW r \in Requests
  PROVE  /\ status[r] \in SequenceStatus
         /\ num_tokens[r] \in Nat /\ num_computed_tokens[r] \in Nat
         /\ PromptLen(r) \in Nat \ {0} /\ MaxNewTokens[r] \in Nat \ {0}
         /\ Len(block_table[r]) \in Nat
         /\ PendingTokens(r) \in Int
  BY PrefixKeyFacts, TableFacts, SequenceAssumption DEF TypeOK, PendingTokens

LEMMA QueueFacts ==
  ASSUME SchedulerTypeOK
  PROVE  /\ Len(items) \in Nat /\ DOMAIN items = 1 .. Len(items)
         /\ \A i \in DOMAIN items :
              /\ items[i] \in ItemType
              /\ items[i].sequence \in Requests
              /\ items[i].num_scheduled_tokens \in Nat
         /\ Len(running) \in Nat /\ DOMAIN running = 1 .. Len(running)
         /\ \A k \in DOMAIN running :
              running[k] \in Requests /\ running[k] \in Range(running)
         /\ Range(running) \subseteq Requests
         /\ Len(waiting) \in Nat /\ DOMAIN waiting = 1 .. Len(waiting)
         /\ Range(waiting) \subseteq Requests
         /\ waiting # << >> =>
              Len(waiting) > 0 /\ Head(waiting) = waiting[1]
              /\ Head(waiting) \in Range(waiting) /\ Head(waiting) \in Requests
<1>1. /\ items \in Seq(ItemType) /\ running \in Seq(Requests) /\ waiting \in Seq(Requests)
  BY DEF SchedulerTypeOK
<1>2. /\ Len(items) \in Nat /\ DOMAIN items = 1 .. Len(items)
      /\ Len(running) \in Nat /\ DOMAIN running = 1 .. Len(running)
      /\ Len(waiting) \in Nat /\ DOMAIN waiting = 1 .. Len(waiting)
  BY <1>1, LenProperties
<1>3. \A i \in DOMAIN items : items[i] \in ItemType
  BY <1>1, <1>2, ElementOfSeq
<1>4. \A k \in DOMAIN running : running[k] \in Requests
  BY <1>1, <1>2, ElementOfSeq
<1>5. \A k \in DOMAIN waiting : waiting[k] \in Requests
  BY <1>1, <1>2, ElementOfSeq
<1>6. waiting # << >> => Len(waiting) > 0 /\ Head(waiting) = waiting[1]
  BY <1>1, EmptySeq DEF Head
<1>7. waiting # << >> => 1 \in DOMAIN waiting
  BY <1>2, <1>6
<1> QED
  BY <1>2, <1>3, <1>4, <1>5, <1>6, <1>7 DEF ItemType, Range

\* An item stays ready while its sequence stays in running_, its counters stand
\* still and its table does not shrink.
LEMMA ReadyKept ==
  ASSUME TypeOK, TypeOK', NEW item \in ItemType, Ready(item),
         status'[item.sequence] = status[item.sequence],
         num_tokens'[item.sequence] = num_tokens[item.sequence],
         num_computed_tokens'[item.sequence] = num_computed_tokens[item.sequence],
         Len(block_table[item.sequence]) <= Len(block_table'[item.sequence]),
         item.sequence \in Range(running)'
  PROVE  Ready(item)'
<1> DEFINE r == item.sequence
           count == item.num_scheduled_tokens
<1>1. r \in Requests /\ count \in Nat
  BY DEF ItemType
<1>2. /\ Len(block_table[r]) \in Nat /\ Len(block_table'[r]) \in Nat
      /\ num_computed_tokens[r] \in Nat
  BY <1>1, TableFacts DEF TypeOK
<1>3. Len(block_table[r]) * BlockSize <= Len(block_table'[r]) * BlockSize
      /\ Len(block_table[r]) * BlockSize \in Nat
      /\ Len(block_table'[r]) * BlockSize \in Nat
  BY <1>2, BlockManagerAssumption, SMT
<1>4. num_computed_tokens'[r] + count <= Len(block_table'[r]) * BlockSize
  BY <1>1, <1>2, <1>3 DEF Ready
<1> QED
  BY <1>4 DEF Ready, PendingTokens, IsPrefill

----------------------------------------------------------------------------
(***************************************************************************)
(* The invariant holds initially, and every step preserves it and is a     *)
(* step of the pool's client, or leaves the pool alone.                    *)
(***************************************************************************)

LEMMA SchedulerInvInit ==
  ASSUME Init
  PROVE  SchedulerInv
<1> USE DEF Init
<1>1. PoolInv
  BY PoolInvInit
<1>2. SchedulerTypeOK
  BY <1>1, EmptySeq DEF SchedulerTypeOK, PoolInv, Stages
<1>3. QueuesPartitionRequests /\ RunningInv /\ BatchInv /\ StageInv
  BY DEF QueuesPartitionRequests, RunningInv, BatchInv, StageInv, Range, IsInjective,
         Untouched
<1>4. RequestsInv
  <2> SUFFICES ASSUME NEW r \in Requests
               PROVE  /\ num_tokens[r] = PromptLen(r) /\ num_computed_tokens[r] = 0
                      /\ PromptLen(r) \in Nat \ {0} /\ MaxNewTokens[r] \in Nat \ {0}
    BY DEF RequestsInv
  <2> QED
    BY <1>1, RequestFacts DEF BMInit, SequenceInit, PoolInv
<1> QED
  BY <1>1, <1>2, <1>3, <1>4 DEF SchedulerInv

\* What leaves the pool and its sequences alone.
LEMMA PoolAlone ==
  ASSUME SchedulerInv, UNCHANGED bm_vars
  PROVE  PoolInv' /\ RequestsInv'
<1>1. PoolInv'
  BY PoolInvInductive DEF SchedulerInv
<1>2. RequestsInv'
  BY DEF SchedulerInv, RequestsInv, bm_vars
<1> QED
  BY <1>1, <1>2

\* From one loop of the engine step to the next.
LEMMA NextStagePreserves ==
  ASSUME SchedulerInv, StartStep \/ EndRunning \/ EndAdmit \/ RunSucceeds
  PROVE  SchedulerInv'
<1>1. /\ UNCHANGED <<bm_vars, queue_vars, output_vars>>
      /\ pc \in {"idle", "running", "admit", "model"}
      /\ pc' \in {"running", "admit", "model", "commit"}
      /\ pc' = "running" => pc = "idle"
      /\ pc' = "commit" => cursor' = 1
      /\ cursor' \in Nat \ {0}
  BY DEF StartStep, EndRunning, EndAdmit, RunSucceeds, SchedulerInv, SchedulerTypeOK
<1>2. PoolInv' /\ RequestsInv'
  BY <1>1, PoolAlone
<1>3. SchedulerTypeOK'
  BY <1>1, <1>2 DEF SchedulerInv, SchedulerTypeOK, PoolInv, queue_vars, output_vars, Stages
<1>4. /\ \A r \in Range(running) : status[r] = "Running"
      /\ \A i \in DOMAIN items : i \in Untouched
  BY <1>1 DEF SchedulerInv, QueuesPartitionRequests, Untouched
<1>5. QueuesPartitionRequests'
  BY <1>1, <1>4 DEF SchedulerInv, QueuesPartitionRequests, queue_vars, bm_vars
<1>6. RunningInv'
  BY <1>1 DEF SchedulerInv, RunningInv, queue_vars, bm_vars, PendingTokens
<1>7. BatchInv'
  BY <1>1, <1>4 DEF SchedulerInv, BatchInv, Ready, Untouched, queue_vars, output_vars,
                    bm_vars, PendingTokens, IsPrefill
<1>8. StageInv'
  <2>1. pc = "idle" => items' = << >>
    BY <1>1 DEF SchedulerInv, StageInv, output_vars
  <2> QED
    BY <1>1, <2>1 DEF StageInv
<1> QED
  BY <1>2, <1>3, <1>5, <1>6, <1>7, <1>8 DEF SchedulerInv

\* step() throws: the output is dropped.
LEMMA AbortPreserves ==
  ASSUME SchedulerInv, NoProgress \/ RunFails
  PROVE  SchedulerInv'
<1>1. /\ UNCHANGED <<bm_vars, queue_vars>>
      /\ pc = "model" /\ pc' = "idle" /\ cursor' = 1
      /\ items' = << >> /\ num_batched_tokens' = 0
  BY DEF NoProgress, RunFails, EndStep
<1>2. PoolInv' /\ RequestsInv'
  BY <1>1, PoolAlone
<1>3. SchedulerTypeOK'
  BY <1>1, <1>2, EmptySeq DEF SchedulerInv, SchedulerTypeOK, PoolInv, queue_vars, Stages
<1>4. QueuesPartitionRequests'
  BY <1>1 DEF SchedulerInv, QueuesPartitionRequests, queue_vars, bm_vars
<1>5. RunningInv'
  BY <1>1 DEF SchedulerInv, RunningInv, queue_vars, bm_vars, PendingTokens
<1>6. BatchInv' /\ StageInv'
  BY <1>1 DEF BatchInv, StageInv, Untouched
<1> QED
  BY <1>2, <1>3, <1>4, <1>5, <1>6 DEF SchedulerInv

\* A new request goes to the end of waiting_.
LEMMA AddPreserves ==
  ASSUME SchedulerInv, NEW r \in Requests, Add(r)
  PROVE  SchedulerInv'
<1>1. /\ UNCHANGED <<bm_vars, running, output_vars, pc, cursor>>
      /\ pc = "idle" /\ status[r] = "Waiting" /\ r \notin known_request_ids
      /\ known_request_ids' = known_request_ids \cup {r}
      /\ waiting' = Append(waiting, r)
  BY DEF Add
<1>2. PoolInv' /\ RequestsInv'
  BY <1>1, PoolAlone
<1>3. SchedulerTypeOK /\ waiting \in Seq(Requests)
  BY DEF SchedulerInv, SchedulerTypeOK
<1>4. /\ waiting' \in Seq(Requests)
      /\ Len(waiting) \in Nat /\ DOMAIN waiting = 1 .. Len(waiting)
      /\ DOMAIN waiting' = 1 .. Len(waiting) + 1
      /\ \A k \in 1 .. Len(waiting) : waiting'[k] = waiting[k]
      /\ waiting'[Len(waiting) + 1] = r
  BY <1>1, <1>3, LenProperties, AppendProperties
<1>5. SchedulerTypeOK'
  BY <1>1, <1>2, <1>4 DEF SchedulerInv, SchedulerTypeOK, PoolInv, output_vars
<1>6. Range(waiting') = Range(waiting) \cup {r}
  <2>1. DOMAIN waiting' = DOMAIN waiting \cup {Len(waiting) + 1}
    BY <1>4
  <2> QED
    BY <1>4, <2>1 DEF Range
<1>7. IsInjective(waiting')
  <2>1. r \notin Range(waiting) /\ IsInjective(waiting)
    BY <1>1 DEF SchedulerInv, QueuesPartitionRequests
  <2>2. \A k \in 1 .. Len(waiting) : waiting[k] # r
    BY <1>4, <2>1 DEF Range
  <2>3. \A k \in 1 .. Len(waiting) + 1 : k \in 1 .. Len(waiting) \/ k = Len(waiting) + 1
    BY <1>4
  <2> QED
    BY <1>4, <2>1, <2>2, <2>3 DEF IsInjective
<1>8. QueuesPartitionRequests'
  BY <1>1, <1>6, <1>7 DEF SchedulerInv, QueuesPartitionRequests, bm_vars
<1>9. RunningInv'
  BY <1>1 DEF SchedulerInv, RunningInv, bm_vars, PendingTokens
<1>10. BatchInv' /\ StageInv'
  BY <1>1 DEF SchedulerInv, BatchInv, StageInv, Untouched, output_vars
<1> QED
  BY <1>2, <1>5, <1>8, <1>9, <1>10 DEF SchedulerInv

\* Clearing the cache touches no sequence.
LEMMA ClearCachePreserves ==
  ASSUME SchedulerInv, ClearCache
  PROVE  SchedulerInv' /\ [BMNext]_bm_vars
<1>1. /\ UNCHANGED <<queue_vars, output_vars, pc, cursor>>
      /\ UNCHANGED sequence_vars
      /\ ClearPrefixCache /\ pc = "idle"
  BY DEF ClearCache, ClearPrefixCache
<1>2. BMNext
  BY <1>1 DEF BMNext
<1>3. PoolInv'
  BY <1>2, PoolInvInductive DEF SchedulerInv
<1>4. SchedulerTypeOK'
  BY <1>1, <1>3 DEF SchedulerInv, SchedulerTypeOK, PoolInv, queue_vars, output_vars
<1>5. QueuesPartitionRequests' /\ RequestsInv' /\ RunningInv'
  BY <1>1 DEF SchedulerInv, QueuesPartitionRequests, RequestsInv, RunningInv,
              queue_vars, sequence_vars, PendingTokens
<1>6. BatchInv' /\ StageInv'
  BY <1>1 DEF SchedulerInv, BatchInv, StageInv, Untouched, output_vars
<1> QED
  BY <1>2, <1>3, <1>4, <1>5, <1>6 DEF SchedulerInv

\* While the budget lasts, a sequence with pending tokens gets some of them.
LEMMA SomeTokensToSchedule ==
  ASSUME SchedulerTypeOK, NEW r \in Requests, PendingTokens(r) > 0, ~ BudgetSpent
  PROVE  TokensToSchedule(r) \in 1 .. PendingTokens(r)
<1>1. PendingTokens(r) \in Int
  BY RequestFacts DEF SchedulerTypeOK
<1>2. num_batched_tokens \in Nat /\ num_batched_tokens < MaxNumBatchedTokens
      /\ MaxNumBatchedTokens \in Nat
  BY SchedulerAssumption DEF SchedulerTypeOK, BudgetSpent
<1> QED
  BY <1>1, <1>2 DEF TokensToSchedule

\* Reserving room for the next tokens of a running or waiting sequence.
LEMMA ReserveForItem ==
  ASSUME SchedulerInv, NEW r \in Requests, status[r] # "Finished",
         NEW count \in 1 .. PendingTokens(r),
         \/ /\ EnsureCapacitySucceeds(r, num_computed_tokens[r] + count)
            /\ SetStatus(r, "Running")
         \/ /\ EnsureCapacityFails(r, num_computed_tokens[r] + count)
            /\ UNCHANGED status
  PROVE  /\ BMNext
         /\ PoolInv'
         /\ UNCHANGED <<num_tokens, num_computed_tokens>>
         /\ \A q \in Requests : Len(block_table[q]) <= Len(block_table'[q])
         /\ EnsureCapacitySucceeds(r, num_computed_tokens[r] + count) =>
              num_computed_tokens[r] + count <= Len(block_table'[r]) * BlockSize
<1> DEFINE target == num_computed_tokens[r] + count
<1>1. TypeOK /\ PoolInv
  BY DEF SchedulerInv, PoolInv
<1>2. target \in 1 .. num_tokens[r] /\ target \in Nat
  BY <1>1, RequestFacts DEF PendingTokens
<1> HIDE DEF target
<1>3. Reserve(r, target)
  BY DEF Reserve, target
<1>4. BMNext
  BY <1>2, <1>3 DEF BMNext
<1>5. PoolInv'
  BY <1>1, <1>4, PoolInvInductive
<1>6. CASE EnsureCapacitySucceeds(r, target)
  <2>1. /\ UNCHANGED <<num_tokens, num_computed_tokens>>
        /\ \A q \in Requests : Len(block_table[q]) <= Len(block_table'[q])
        /\ target <= Len(block_table'[r]) * BlockSize
    BY <1>1, <1>2, <1>6, SuccessMakesRoom
  <2> QED
    BY <1>4, <1>5, <2>1 DEF target
<1>7. CASE ~ EnsureCapacitySucceeds(r, target)
  <2>1. EnsureCapacityFails(r, target)
    BY <1>7 DEF target
  <2>2. /\ UNCHANGED <<num_tokens, num_computed_tokens>>
        /\ \A q \in Requests : Len(block_table[q]) <= Len(block_table'[q])
    BY <1>1, <1>2, <2>1, FailureKeepsTables, TableFacts
  <2> QED
    BY <1>4, <1>5, <1>7, <2>2 DEF target
<1> QED
  BY <1>6, <1>7

\* One more item at the end of the batch.
LEMMA PushItemFacts ==
  ASSUME SchedulerTypeOK, NEW r \in Requests, NEW count \in Nat, PushItem(r, count)
  PROVE  /\ items' \in Seq(ItemType)
         /\ num_batched_tokens' \in Nat
         /\ DOMAIN items' = 1 .. Len(items) + 1
         /\ \A i \in DOMAIN items : items'[i] = items[i]
         /\ items'[Len(items) + 1] =
              [sequence |-> r,
               phase |-> IF IsPrefill(r) THEN "Prefill" ELSE "Decode",
               num_scheduled_tokens |-> count]
<1> DEFINE item == [sequence |-> r,
                    phase |-> IF IsPrefill(r) THEN "Prefill" ELSE "Decode",
                    num_scheduled_tokens |-> count]
<1>1. item \in ItemType
  BY DEF ItemType
<1>2. items \in Seq(ItemType) /\ num_batched_tokens \in Nat
  BY DEF SchedulerTypeOK
<1>3. items' = Append(items, item) /\ num_batched_tokens' = num_batched_tokens + count
  BY DEF PushItem
<1> HIDE DEF item
<1>4. /\ items' \in Seq(ItemType)
      /\ Len(items') = Len(items) + 1
      /\ \A i \in 1 .. Len(items) : items'[i] = items[i]
      /\ items'[Len(items) + 1] = item
  BY <1>1, <1>2, <1>3, AppendProperties
<1>5. DOMAIN items = 1 .. Len(items) /\ DOMAIN items' = 1 .. Len(items')
  BY <1>2, <1>4, LenProperties
<1> QED
  BY <1>2, <1>3, <1>4, <1>5 DEF item

\* What schedule() does for one sequence spoils no item it has pushed before.
LEMMA BatchKept ==
  ASSUME SchedulerTypeOK, TypeOK',
         UNCHANGED <<num_tokens, num_computed_tokens>>,
         \A q \in Requests : Len(block_table[q]) <= Len(block_table'[q]),
         \A q \in Requests : status[q] = "Running" => status'[q] = "Running",
         Range(running) \subseteq Range(running')
  PROVE  \A item \in ItemType : Ready(item) => Ready(item)'
<1> SUFFICES ASSUME NEW item \in ItemType, Ready(item)
             PROVE  Ready(item)'
  OBVIOUS
<1>1. item.sequence \in Requests /\ item.sequence \in Range(running)
      /\ status[item.sequence] = "Running"
  BY DEF ItemType, Ready
<1> QED
  BY <1>1, ReadyKept DEF SchedulerTypeOK

LEMMA BatchGrows ==
  ASSUME SchedulerTypeOK, BatchInv, NEW r \in Requests, NEW count \in Nat,
         PushItem(r, count),
         \A i \in DOMAIN items : items[i].sequence # r,
         pc \notin {"commit", "sample", "release"},
         \A item \in ItemType : Ready(item) => Ready(item)',
         UNCHANGED <<num_tokens, num_computed_tokens>>,
         0 < count, count <= PendingTokens(r),
         num_computed_tokens[r] + count <= Len(block_table'[r]) * BlockSize,
         status'[r] = "Running", r \in Range(running')
  PROVE  BatchInv'
<1>0. PICK new : new = [sequence |-> r,
                        phase |-> IF IsPrefill(r) THEN "Prefill" ELSE "Decode",
                        num_scheduled_tokens |-> count]
  OBVIOUS
<1>1. /\ DOMAIN items' = 1 .. Len(items) + 1
      /\ \A i \in DOMAIN items : items'[i] = items[i]
      /\ items'[Len(items) + 1] = new
  BY <1>0, PushItemFacts
<1>2. Len(items) \in Nat /\ DOMAIN items = 1 .. Len(items)
  BY QueueFacts
<1>3. \A i \in DOMAIN items' : i \in DOMAIN items \/ i = Len(items) + 1
  BY <1>1, <1>2
<1>4. Ready(new)'
  BY <1>0 DEF Ready, PendingTokens, IsPrefill
<1>5. new.sequence = r
  BY <1>0
<1>6. \A i \in DOMAIN items' : Ready(items[i])'
  <2> SUFFICES ASSUME NEW i \in DOMAIN items'
               PROVE  Ready(items[i])'
    OBVIOUS
  <2>1. PICK pushed : pushed = items'[i]
    OBVIOUS
  <2>2. Ready(pushed)'
    <3>1. ASSUME i \in DOMAIN items
          PROVE  pushed \in ItemType /\ Ready(pushed)
      <4>1. i \in Untouched
        BY <3>1 DEF Untouched
      <4> QED
        BY <1>1, <2>1, <3>1, <4>1, QueueFacts DEF BatchInv
    <3>2. i \notin DOMAIN items => pushed = new
      BY <1>1, <1>3, <2>1
    <3>3. CASE i \in DOMAIN items
      BY <3>1, <3>3
    <3>4. CASE i \notin DOMAIN items
      BY <1>4, <3>2, <3>4 DEF Ready
    <3> QED
      BY <3>3, <3>4
  <2> QED
    BY <2>1, <2>2 DEF Ready
<1>7. \A i, j \in DOMAIN items' : items'[i].sequence = items'[j].sequence => i = j
  BY <1>1, <1>3, <1>5 DEF BatchInv
<1>8. Untouched' \subseteq DOMAIN items'
  BY DEF Untouched
<1> QED
  BY <1>6, <1>7, <1>8 DEF BatchInv

LEMMA BatchStays ==
  ASSUME SchedulerTypeOK, BatchInv, UNCHANGED items,
         pc \notin {"commit", "sample", "release"},
         \A item \in ItemType : Ready(item) => Ready(item)'
  PROVE  BatchInv'
<1>1. \A i \in DOMAIN items : items[i] \in ItemType /\ Ready(items[i])
  BY QueueFacts DEF BatchInv, Untouched
<1>2. ASSUME NEW i \in Untouched'
      PROVE  Ready(items[i])'
  <2>1. i \in DOMAIN items
    BY <1>2 DEF Untouched
  <2>2. PICK item \in ItemType : item = items[i] /\ Ready(item)'
    BY <1>1, <2>1
  <2> QED
    BY <2>2 DEF Ready
<1> QED
  BY <1>2 DEF BatchInv

\* One more iteration over running_.
LEMMA ScheduleRunningPreserves ==
  ASSUME SchedulerInv, ScheduleRunning
  PROVE  SchedulerInv' /\ [BMNext]_bm_vars
<1> DEFINE r == running[cursor]
           count == TokensToSchedule(r)
           target == num_computed_tokens[r] + count
<1>1. /\ pc = "running" /\ cursor <= Len(running) /\ ~ BudgetSpent
      /\ \/ EnsureCapacitySucceeds(r, target) /\ PushItem(r, count)
         \/ EnsureCapacityFails(r, target) /\ UNCHANGED output_vars
      /\ cursor' = cursor + 1
      /\ UNCHANGED <<status, waiting, running, known_request_ids, pc>>
  BY DEF ScheduleRunning, MoreRunning, queue_vars
<1>2. SchedulerTypeOK /\ TypeOK /\ cursor \in Nat \ {0}
  BY DEF SchedulerInv, SchedulerTypeOK
<1>3. cursor \in DOMAIN running /\ r \in Requests /\ r \in Range(running)
  BY <1>1, <1>2, QueueFacts
<1>4. status[r] = "Running" /\ PendingTokens(r) > 0
  BY <1>1, <1>3 DEF SchedulerInv, QueuesPartitionRequests, RunningInv
<1>5. count \in 1 .. PendingTokens(r) /\ PendingTokens(r) \in Int
  BY <1>1, <1>2, <1>3, <1>4, SomeTokensToSchedule, RequestFacts
<1> HIDE DEF r
<1> HIDE DEF count
<1>6. SetStatus(r, "Running")
  <2>1. status' = status /\ status \in [Requests -> SequenceStatus]
    BY <1>1, <1>2 DEF TypeOK
  <2> QED
    BY <1>3, <1>4, <2>1 DEF SetStatus
<1>7. /\ BMNext
      /\ PoolInv'
      /\ UNCHANGED <<num_tokens, num_computed_tokens>>
      /\ \A q \in Requests : Len(block_table[q]) <= Len(block_table'[q])
      /\ EnsureCapacitySucceeds(r, target) => target <= Len(block_table'[r]) * BlockSize
  BY <1>1, <1>3, <1>4, <1>5, <1>6, ReserveForItem
<1>8. \A item \in ItemType : Ready(item) => Ready(item)'
  BY <1>1, <1>2, <1>7, BatchKept DEF PoolInv
<1>9. \A i \in DOMAIN items : items[i].sequence # r
  BY <1>1, <1>2, <1>3 DEF SchedulerInv, StageInv, QueuesPartitionRequests, IsInjective, r
<1>10. /\ QueuesPartitionRequests' /\ RequestsInv' /\ RunningInv'
  BY <1>1, <1>7 DEF SchedulerInv, QueuesPartitionRequests, RequestsInv, RunningInv, PendingTokens
<1>11. CASE EnsureCapacitySucceeds(r, target) /\ PushItem(r, count)
  <2>1. count \in Nat /\ 0 < count /\ count <= PendingTokens(r)
    BY <1>5
  <2>2. BatchInv'
    BY <1>1, <1>2, <1>3, <1>4, <1>7, <1>8, <1>9, <1>11, <2>1, BatchGrows DEF SchedulerInv
  <2>3. /\ items' \in Seq(ItemType) /\ num_batched_tokens' \in Nat
        /\ DOMAIN items' = 1 .. Len(items) + 1
        /\ \A i \in DOMAIN items : items'[i] = items[i]
        /\ items'[Len(items) + 1] =
             [sequence |-> r,
              phase |-> IF IsPrefill(r) THEN "Prefill" ELSE "Decode",
              num_scheduled_tokens |-> count]
    BY <1>2, <1>3, <1>11, <2>1, PushItemFacts
  <2>4. SchedulerTypeOK'
    BY <1>1, <1>2, <1>7, <2>3 DEF SchedulerTypeOK, PoolInv
  <2>5. StageInv'
    <3>1. \A i \in DOMAIN items' : i \in DOMAIN items \/ i = Len(items) + 1
      BY <1>2, <2>3, QueueFacts
    <3>2. \A i \in DOMAIN items' : \E k \in DOMAIN running :
            k < cursor + 1 /\ items'[i].sequence = running[k]
      <4>1. ASSUME NEW i \in DOMAIN items
            PROVE  \E k \in DOMAIN running : k < cursor + 1 /\ items'[i].sequence = running[k]
        <5>1. PICK k \in DOMAIN running : k < cursor /\ items[i].sequence = running[k]
          BY <1>1 DEF SchedulerInv, StageInv
        <5>2. k < cursor + 1
          BY <1>2, <5>1, QueueFacts
        <5> QED
          BY <2>3, <5>1, <5>2
      <4>2. cursor < cursor + 1 /\ running[cursor] = r
        BY <1>2 DEF r
      <4> QED
        BY <1>3, <2>3, <3>1, <4>1, <4>2
    <3> QED
      BY <1>1, <3>2 DEF StageInv
  <2> QED
    BY <1>7, <1>10, <2>2, <2>4, <2>5 DEF SchedulerInv
<1>12. CASE UNCHANGED output_vars
  <2>1. BatchInv'
    BY <1>1, <1>2, <1>8, <1>12, BatchStays DEF SchedulerInv, output_vars
  <2>2. SchedulerTypeOK'
    BY <1>1, <1>2, <1>7, <1>12 DEF SchedulerTypeOK, PoolInv, output_vars
  <2>3. StageInv'
    <3>1. \A k \in DOMAIN running : k < cursor => k < cursor + 1
      BY <1>2, QueueFacts
    <3>2. items' = items
      BY <1>12 DEF output_vars
    <3> QED
      BY <1>1, <3>1, <3>2 DEF SchedulerInv, StageInv
  <2> QED
    BY <1>7, <1>10, <2>1, <2>2, <2>3 DEF SchedulerInv
<1> QED
  BY <1>1, <1>7, <1>11, <1>12

\* The head of waiting_ looks up the cache.
LEMMA AdmitFromCachePreserves ==
  ASSUME SchedulerInv, AdmitFromCache
  PROVE  SchedulerInv' /\ [BMNext]_bm_vars
<1> DEFINE r == Head(waiting)
<1>1. /\ pc = "admit" /\ pc' = "admit_capacity" /\ MayAdmit
      /\ ApplyPrefixCache(r)
      /\ UNCHANGED <<queue_vars, output_vars, cursor>>
  BY DEF AdmitFromCache
<1>2. SchedulerTypeOK /\ TypeOK /\ PoolInv /\ QueuesPartitionRequests
      /\ RequestsInv /\ RunningInv /\ BatchInv
  BY DEF SchedulerInv, PoolInv
<1>3. r \in Requests /\ r \in Range(waiting) /\ status[r] = "Waiting"
  BY <1>1, <1>2, QueueFacts DEF MayAdmit, QueuesPartitionRequests
<1> HIDE DEF r
<1>4. BMNext
  BY <1>1, <1>3 DEF BMNext, TryApplyPrefixCache
<1>5. PoolInv' /\ TypeOK'
  BY <1>2, <1>4, PoolInvInductive DEF PoolInv
<1>6. /\ UNCHANGED <<status, num_tokens>>
      /\ \A q \in Requests : q # r =>
           /\ num_computed_tokens'[q] = num_computed_tokens[q]
           /\ block_table'[q] = block_table[q]
      /\ num_computed_tokens'[r] < num_tokens[r]
  BY <1>1, <1>2, <1>3, LookupLeavesAToken DEF RequestsInv
<1>7. SchedulerTypeOK'
  BY <1>1, <1>2, <1>5 DEF SchedulerTypeOK, queue_vars, output_vars, Stages
<1>8. QueuesPartitionRequests'
  BY <1>1, <1>2, <1>6 DEF QueuesPartitionRequests, queue_vars
<1>9. RequestsInv'
  <2> SUFFICES ASSUME NEW q \in Requests
               PROVE  /\ num_computed_tokens'[q] <= num_tokens[q]
                      /\ status[q] = "Waiting" => num_computed_tokens'[q] < num_tokens[q]
    BY <1>2, <1>6 DEF RequestsInv
  <2>1. CASE q = r
    <3>1. /\ num_computed_tokens'[r] \in Nat /\ num_tokens[r] \in Nat
          /\ PromptLen(r) \in Nat /\ PromptLen(r) <= num_tokens[r]
      BY <1>2, <1>3, <1>5, RequestFacts DEF TypeOK, RequestsInv
    <3> QED
      BY <1>6, <2>1, <3>1
  <2>2. CASE q # r
    BY <1>2, <1>6, <2>2 DEF RequestsInv
  <2> QED
    BY <2>1, <2>2
<1>10. \A q \in Range(running) : q \in Requests /\ status[q] = "Running" /\ q # r
  BY <1>1, <1>2, <1>3, QueueFacts DEF QueuesPartitionRequests
<1>11. RunningInv'
  BY <1>1, <1>2, <1>6, <1>10 DEF RunningInv, queue_vars, PendingTokens
<1>12. \A item \in ItemType : Ready(item) => Ready(item)'
  <2> SUFFICES ASSUME NEW item \in ItemType, Ready(item)
               PROVE  Ready(item)'
    OBVIOUS
  <2>1. item.sequence \in Range(running) /\ Range(running)' = Range(running)
    BY <1>1 DEF Ready, queue_vars
  <2>2. Len(block_table[item.sequence]) <= Len(block_table'[item.sequence])
    BY <1>2, <1>6, <1>10, <2>1, RequestFacts
  <2> QED
    BY <1>2, <1>5, <1>6, <1>10, <2>1, <2>2, ReadyKept
<1>13. BatchInv'
  BY <1>1, <1>2, <1>12, BatchStays DEF output_vars
<1>14. StageInv'
  BY <1>1 DEF StageInv, MayAdmit, queue_vars, output_vars, ItemsFull, BudgetSpent
<1> QED
  BY <1>4, <1>5, <1>7, <1>8, <1>9, <1>11, <1>13, <1>14 DEF SchedulerInv

\* The head changes queues.
LEMMA StartRunningMovesHead ==
  ASSUME SchedulerTypeOK, QueuesPartitionRequests, waiting # << >>,
         waiting' = Tail(waiting), running' = Append(running, Head(waiting))
  PROVE  /\ waiting' \in Seq(Requests) /\ running' \in Seq(Requests)
         /\ IsInjective(waiting') /\ IsInjective(running')
         /\ Range(waiting') = Range(waiting) \ {Head(waiting)}
         /\ Range(running') = Range(running) \cup {Head(waiting)}
<1> DEFINE r == Head(waiting)
<1>1. waiting \in Seq(Requests) /\ running \in Seq(Requests)
  BY DEF SchedulerTypeOK
<1>2. /\ Len(waiting) \in Nat \ {0} /\ DOMAIN waiting = 1 .. Len(waiting)
      /\ Len(running) \in Nat /\ DOMAIN running = 1 .. Len(running)
      /\ r = waiting[1] /\ r \in Requests /\ r \in Range(waiting)
  BY QueueFacts
<1>3. IsInjective(waiting) /\ IsInjective(running) /\ r \notin Range(running)
  <2>1. status[r] = "Waiting"
    BY <1>2 DEF QueuesPartitionRequests
  <2>2. ASSUME r \in Range(running)
        PROVE  FALSE
    <3>1. status[r] = "Running" \/ status[r] = "Finished"
      BY <2>2 DEF QueuesPartitionRequests, FinishedItems
    <3> QED
      BY <2>1, <3>1
  <2> QED
    BY <2>2 DEF QueuesPartitionRequests
<1>4. /\ waiting' \in Seq(Requests)
      /\ DOMAIN waiting' = 1 .. Len(waiting) - 1
      /\ \A i \in 1 .. Len(waiting) - 1 : waiting'[i] = waiting[i + 1]
  BY <1>1, <1>2, HeadTailProperties, LenProperties
<1> HIDE DEF r
<1>5. /\ running' \in Seq(Requests)
      /\ DOMAIN running' = 1 .. Len(running) + 1
      /\ \A i \in 1 .. Len(running) : running'[i] = running[i]
      /\ running'[Len(running) + 1] = r
  BY <1>1, <1>2, AppendProperties, LenProperties DEF r
<1>6. IsInjective(waiting') /\ Range(waiting') = Range(waiting) \ {r}
  <2>1. \A i \in 1 .. Len(waiting) - 1 : i + 1 \in 1 .. Len(waiting) /\ i + 1 # 1
    BY <1>2
  <2>2. \A i \in 1 .. Len(waiting) : i # 1 => i - 1 \in 1 .. Len(waiting) - 1 /\ (i - 1) + 1 = i
    BY <1>2
  <2>3. \A i, j \in 1 .. Len(waiting) : waiting[i] = waiting[j] => i = j
    BY <1>2, <1>3 DEF IsInjective
  <2>4. ASSUME NEW i \in 1 .. Len(waiting) - 1, NEW j \in 1 .. Len(waiting) - 1,
               waiting'[i] = waiting'[j]
        PROVE  i = j
    <3>1. i + 1 = j + 1
      BY <1>4, <2>1, <2>3, <2>4
    <3> QED
      BY <3>1
  <2>5. IsInjective(waiting')
    BY <1>4, <2>4 DEF IsInjective
  <2>6. ASSUME NEW i \in 1 .. Len(waiting) - 1
        PROVE  waiting'[i] \in Range(waiting) \ {r}
    <3>1. waiting'[i] = waiting[i + 1] /\ i + 1 \in 1 .. Len(waiting) /\ i + 1 # 1
      BY <1>4, <2>1
    <3>2. 1 \in 1 .. Len(waiting)
      BY <1>2
    <3>3. waiting[i + 1] # waiting[1]
      BY <2>3, <3>1, <3>2
    <3> QED
      BY <1>2, <3>1, <3>3 DEF Range
  <2>7. ASSUME NEW i \in 1 .. Len(waiting), waiting[i] # r
        PROVE  waiting[i] \in Range(waiting')
    <3>1. i # 1
      BY <1>2, <2>7
    <3>2. i - 1 \in 1 .. Len(waiting) - 1 /\ waiting'[i - 1] = waiting[i]
      BY <1>4, <2>2, <3>1
    <3> QED
      BY <1>4, <3>2 DEF Range
  <2>8. Range(waiting') \subseteq Range(waiting) \ {r}
    BY <1>4, <2>6 DEF Range
  <2>9. Range(waiting) \ {r} \subseteq Range(waiting')
    BY <1>2, <2>7 DEF Range
  <2> QED
    BY <2>5, <2>8, <2>9
<1>7. IsInjective(running') /\ Range(running') = Range(running) \cup {r}
  <2>1. DOMAIN running' = DOMAIN running \cup {Len(running) + 1}
    BY <1>2, <1>5
  <2>2. Range(running') = Range(running) \cup {r}
    BY <1>2, <1>5, <2>1 DEF Range
  <2>3. \A k \in 1 .. Len(running) : running[k] # r
    BY <1>2, <1>3 DEF Range
  <2>4. \A k \in DOMAIN running' : k \in 1 .. Len(running) \/ k = Len(running) + 1
    BY <1>2, <2>1
  <2>5. IsInjective(running')
    BY <1>2, <1>3, <1>5, <2>3, <2>4 DEF IsInjective
  <2> QED
    BY <2>2, <2>5
<1> QED
  BY <1>4, <1>5, <1>6, <1>7 DEF r

\* The head is admitted, or stops the admission.
LEMMA AdmitPreserves ==
  ASSUME SchedulerInv, Admit
  PROVE  SchedulerInv' /\ [BMNext]_bm_vars
<1> DEFINE r == Head(waiting)
           count == TokensToSchedule(r)
           target == num_computed_tokens[r] + count
<1>1. /\ pc = "admit_capacity"
      /\ \/ /\ EnsureCapacitySucceeds(r, target) /\ PushItem(r, count)
            /\ StartRunning(r) /\ pc' = "admit"
         \/ /\ EnsureCapacityFails(r, target) /\ pc' = "model"
            /\ UNCHANGED <<status, waiting, running, items, num_batched_tokens>>
      /\ UNCHANGED <<known_request_ids, cursor>>
  BY DEF Admit, output_vars
<1>2. SchedulerTypeOK /\ TypeOK /\ QueuesPartitionRequests
      /\ RequestsInv /\ RunningInv /\ BatchInv
  BY DEF SchedulerInv, PoolInv
<1>3. waiting # << >> /\ ~ BudgetSpent
  BY <1>1 DEF SchedulerInv, StageInv, MayAdmit
<1>4. /\ r \in Requests /\ r \in Range(waiting) /\ r \in known_request_ids
      /\ status[r] = "Waiting"
  BY <1>2, <1>3, QueueFacts DEF QueuesPartitionRequests
<1>5. PendingTokens(r) \in Int /\ PendingTokens(r) > 0
  BY <1>2, <1>4, RequestFacts DEF RequestsInv, PendingTokens
<1>6. count \in 1 .. PendingTokens(r)
  BY <1>2, <1>3, <1>4, <1>5, SomeTokensToSchedule
<1>7. \A q \in Range(running) : q \in Requests /\ status[q] = "Running"
  BY <1>1, <1>2, QueueFacts DEF QueuesPartitionRequests
<1>8. /\ \A i \in DOMAIN items : items[i].sequence \in Range(running)
      /\ r \notin Range(running)
  BY <1>1, <1>2, <1>4, <1>7 DEF BatchInv, Untouched, Ready
<1> HIDE DEF r
<1> HIDE DEF count
<1>9. /\ BMNext
      /\ PoolInv'
      /\ UNCHANGED <<num_tokens, num_computed_tokens>>
      /\ \A q \in Requests : Len(block_table[q]) <= Len(block_table'[q])
      /\ EnsureCapacitySucceeds(r, target) => target <= Len(block_table'[r]) * BlockSize
  BY <1>1, <1>4, <1>6, ReserveForItem DEF StartRunning
<1>10. TypeOK'
  BY <1>9 DEF PoolInv
<1>11. CASE /\ EnsureCapacitySucceeds(r, target) /\ PushItem(r, count)
            /\ StartRunning(r) /\ pc' = "admit"
  <2>1. /\ waiting' = Tail(waiting) /\ running' = Append(running, r)
        /\ status' = [status EXCEPT ![r] = "Running"]
    BY <1>11 DEF StartRunning, SetStatus
  <2>2. /\ status'[r] = "Running"
        /\ \A q \in Requests : q # r => status'[q] = status[q]
    BY <1>2, <1>4, <2>1 DEF TypeOK
  <2>3. /\ waiting' \in Seq(Requests) /\ running' \in Seq(Requests)
        /\ IsInjective(waiting') /\ IsInjective(running')
        /\ Range(waiting') = Range(waiting) \ {r}
        /\ Range(running') = Range(running) \cup {r}
    BY <1>2, <1>3, <2>1, StartRunningMovesHead DEF r
  <2>4. count \in Nat /\ 0 < count /\ count <= PendingTokens(r)
    BY <1>5, <1>6
  <2>5. items' \in Seq(ItemType) /\ num_batched_tokens' \in Nat
    BY <1>2, <1>4, <1>11, <2>4, PushItemFacts
  <2>6. SchedulerTypeOK'
    BY <1>1, <1>2, <1>10, <1>11, <2>3, <2>5 DEF SchedulerTypeOK, Stages
  <2>7. QueuesPartitionRequests'
    <3>1. \A q \in Range(waiting') :
            q \in Requests /\ status'[q] = "Waiting" /\ q \in known_request_ids
      BY <1>2, <2>2, <2>3, QueueFacts DEF QueuesPartitionRequests
    <3>2. \A q \in Range(running') : status'[q] = "Running"
      BY <1>7, <2>2, <2>3
    <3>3. \A q \in known_request_ids :
            status'[q] # "Finished" => q \in Range(waiting') \cup Range(running')
      BY <1>2, <2>2, <2>3 DEF QueuesPartitionRequests, SchedulerTypeOK
    <3> QED
      BY <1>1, <2>3, <3>1, <3>2, <3>3 DEF QueuesPartitionRequests
  <2>8. RequestsInv'
    <3> SUFFICES ASSUME NEW q \in Requests
                 PROVE  /\ status'[q] = "Waiting" => num_computed_tokens[q] < num_tokens[q]
                        /\ status'[q] # "Finished" =>
                             num_tokens[q] - PromptLen(q) < MaxNewTokens[q]
      BY <1>2, <1>9 DEF RequestsInv
    <3>1. CASE q = r
      BY <1>2, <1>4, <2>2, <3>1 DEF RequestsInv
    <3>2. CASE q # r
      BY <1>2, <2>2, <3>2 DEF RequestsInv
    <3> QED
      BY <3>1, <3>2
  <2>9. RunningInv'
    <3>1. \A q \in Range(running') : q \in known_request_ids /\ PendingTokens(q) > 0
      BY <1>1, <1>2, <1>4, <1>5, <1>7, <2>3 DEF RunningInv
    <3> QED
      BY <1>1, <1>9, <3>1 DEF RunningInv, PendingTokens
  <2>10. \A item \in ItemType : Ready(item) => Ready(item)'
    <3>1. \A q \in Requests : status[q] = "Running" => status'[q] = "Running"
      BY <2>2
    <3> QED
      BY <1>2, <1>9, <1>10, <2>3, <3>1, BatchKept
  <2>11. BatchInv'
    <3>1. \A i \in DOMAIN items : items[i].sequence # r
      BY <1>8
    <3>2. r \in Range(running') /\ pc \notin {"commit", "sample", "release"}
      BY <1>1, <2>3
    <3> QED
      BY <1>2, <1>4, <1>9, <1>11, <2>2, <2>4, <2>10, <3>1, <3>2, BatchGrows
  <2>12. StageInv'
    BY <1>11 DEF StageInv
  <2> QED
    BY <1>9, <2>6, <2>7, <2>8, <2>9, <2>11, <2>12 DEF SchedulerInv
<1>12. CASE /\ pc' = "model"
            /\ UNCHANGED <<status, waiting, running, items, num_batched_tokens>>
  <2>1. SchedulerTypeOK'
    BY <1>1, <1>2, <1>10, <1>12 DEF SchedulerTypeOK, Stages
  <2>2. QueuesPartitionRequests' /\ RequestsInv'
    BY <1>1, <1>2, <1>7, <1>9, <1>12 DEF QueuesPartitionRequests, RequestsInv
  <2>3. RunningInv'
    BY <1>1, <1>2, <1>9, <1>12 DEF RunningInv, PendingTokens
  <2>4. \A item \in ItemType : Ready(item) => Ready(item)'
    BY <1>2, <1>9, <1>10, <1>12, BatchKept
  <2>5. BatchInv'
    BY <1>1, <1>2, <1>12, <2>4, BatchStays
  <2>6. StageInv'
    BY <1>12 DEF StageInv
  <2> QED
    BY <1>9, <2>1, <2>2, <2>3, <2>5, <2>6 DEF SchedulerInv
<1> QED
  BY <1>1, <1>9, <1>11, <1>12

\* Inside commit(), what happens to one item's sequence spoils no later item.
LEMMA LaterItemsKept ==
  ASSUME SchedulerTypeOK, TypeOK', BatchInv, UNCHANGED <<items, running>>,
         NEW r \in Requests, cursor \in DOMAIN items, items[cursor].sequence = r,
         \A q \in Requests : q # r =>
           /\ status'[q] = status[q] /\ num_tokens'[q] = num_tokens[q]
           /\ num_computed_tokens'[q] = num_computed_tokens[q]
           /\ block_table'[q] = block_table[q],
         \A i \in Untouched' : i \in Untouched /\ i # cursor
  PROVE  BatchInv'
<1>1. ASSUME NEW i \in Untouched'
      PROVE  Ready(items[i])'
  <2>1. i \in DOMAIN items /\ i \in Untouched /\ i # cursor
    BY <1>1 DEF Untouched
  <2>2. PICK item \in ItemType : item = items[i]
    BY <2>1, QueueFacts
  <2>3. Ready(item) /\ item.sequence \in Requests /\ item.sequence # r
    BY <2>1, <2>2, QueueFacts DEF BatchInv
  <2>4. Len(block_table[item.sequence]) <= Len(block_table'[item.sequence])
    BY <2>3, RequestFacts DEF SchedulerTypeOK
  <2>5. item.sequence \in Range(running)'
    BY <2>3 DEF Ready
  <2>6. Ready(item)'
    BY <2>3, <2>4, <2>5, ReadyKept DEF SchedulerTypeOK
  <2> QED
    BY <2>2, <2>6 DEF Ready
<1> QED
  BY <1>1 DEF BatchInv

\* The item's tokens are counted as computed.
LEMMA CommitItemPreserves ==
  ASSUME SchedulerInv, CommitItem
  PROVE  SchedulerInv' /\ [BMNext]_bm_vars
<1> DEFINE r == items[cursor].sequence
           count == items[cursor].num_scheduled_tokens
<1>1. /\ pc = "commit" /\ cursor <= Len(items)
      /\ ComputeTokens(r, count)
      /\ \/ count < PendingTokens(r) /\ pc' = "commit" /\ cursor' = cursor + 1
         \/ ~ (count < PendingTokens(r)) /\ pc' = "sample" /\ cursor' = cursor
      /\ UNCHANGED <<queue_vars, output_vars>>
  BY DEF CommitItem
<1>2. SchedulerTypeOK /\ TypeOK /\ QueuesPartitionRequests
      /\ RequestsInv /\ RunningInv /\ BatchInv /\ cursor \in Nat \ {0}
  BY DEF SchedulerInv, PoolInv, SchedulerTypeOK
<1>3. cursor \in DOMAIN items /\ r \in Requests /\ count \in Nat
  BY <1>1, <1>2, QueueFacts
<1>4. Ready(items[cursor])
  BY <1>1, <1>2, <1>3 DEF BatchInv, Untouched
<1>5. /\ r \in Range(running) /\ status[r] = "Running"
      /\ 0 < count /\ count <= PendingTokens(r)
      /\ num_computed_tokens[r] + count <= Len(block_table[r]) * BlockSize
  BY <1>4 DEF Ready
<1> HIDE DEF r
<1> HIDE DEF count
<1>6. /\ num_tokens[r] \in Nat /\ num_computed_tokens[r] \in Nat
      /\ Len(block_table[r]) \in Nat /\ PendingTokens(r) \in Int
  BY <1>2, <1>3, RequestFacts
<1>7. BMNext
  <2>1. count \in 1 .. PendingTokens(r)
    BY <1>3, <1>5, <1>6
  <2>2. Compute(r, count)
    BY <1>1, <1>5 DEF Compute
  <2> QED
    BY <1>3, <2>1, <2>2 DEF BMNext
<1>8. PoolInv' /\ TypeOK'
  BY <1>7, PoolInvInductive DEF SchedulerInv, PoolInv
<1>9. /\ UNCHANGED <<status, num_tokens, block_table>>
      /\ num_computed_tokens'[r] = num_computed_tokens[r] + count
      /\ \A q \in Requests : q # r => num_computed_tokens'[q] = num_computed_tokens[q]
  BY <1>1, <1>2, <1>3 DEF ComputeTokens, MarkComputed, TypeOK
<1>10. SchedulerTypeOK'
  BY <1>1, <1>2, <1>8 DEF SchedulerTypeOK, queue_vars, output_vars, Stages
<1>11. QueuesPartitionRequests'
  BY <1>1, <1>2, <1>9 DEF QueuesPartitionRequests, FinishedItems, queue_vars, output_vars
<1>12. RequestsInv'
  <2> SUFFICES ASSUME NEW q \in Requests
               PROVE  /\ num_computed_tokens'[q] <= num_tokens[q]
                      /\ status[q] = "Waiting" => num_computed_tokens'[q] < num_tokens[q]
    BY <1>2, <1>9 DEF RequestsInv
  <2>1. CASE q = r
    BY <1>3, <1>5, <1>6, <1>9, <2>1 DEF PendingTokens
  <2>2. CASE q # r
    BY <1>2, <1>9, <2>2 DEF RequestsInv
  <2> QED
    BY <2>1, <2>2
<1>13. RunningInv'
  <2> SUFFICES ASSUME NEW q \in Range(running), status[q] = "Running"
               PROVE  \/ num_tokens[q] - num_computed_tokens'[q] > 0
                      \/ pc' = "sample" /\ q = items[cursor'].sequence
    BY <1>1, <1>2, <1>9 DEF RunningInv, PendingTokens, queue_vars, output_vars
  <2>1. CASE q = r
    BY <1>1, <1>3, <1>6, <1>9, <2>1 DEF r, PendingTokens
  <2>2. CASE q # r
    BY <1>1, <1>2, <1>9, <2>2, QueueFacts DEF RunningInv, PendingTokens
  <2> QED
    BY <2>1, <2>2
<1>14. BatchInv'
  <2>1. \A i \in Untouched' : i \in Untouched /\ i # cursor
    <3> SUFFICES ASSUME NEW i \in Untouched'
                 PROVE  i \in Untouched /\ i # cursor
      OBVIOUS
    <3>1. i \in DOMAIN items /\ i \in Nat /\ i > cursor
      BY <1>1, <1>2, QueueFacts DEF Untouched, output_vars
    <3> QED
      BY <1>1, <1>2, <3>1 DEF Untouched
  <2>2. UNCHANGED <<items, running>> /\ items[cursor].sequence = r
    BY <1>1 DEF queue_vars, output_vars, r
  <2> QED
    BY <1>2, <1>3, <1>8, <1>9, <2>1, <2>2, LaterItemsKept
<1>15. StageInv'
  <2>1. CASE pc' = "commit"
    BY <2>1 DEF StageInv
  <2>2. CASE pc' = "sample"
    <3>1. cursor' = cursor /\ items' = items /\ running' = running
      BY <1>1, <2>2 DEF queue_vars, output_vars
    <3>2. num_tokens[r] - num_computed_tokens'[r] = 0
      BY <1>1, <1>3, <1>5, <1>6, <1>9, <2>2 DEF PendingTokens
    <3>3. block_table[r] # << >>
      <4>1. Len(block_table[r]) # 0
        <5> SUFFICES ASSUME Len(block_table[r]) = 0
                     PROVE  FALSE
          OBVIOUS
        <5>1. Len(block_table[r]) * BlockSize = 0
          BY BlockManagerAssumption
        <5> QED
          BY <1>3, <1>5, <1>6, <5>1
      <4> QED
        BY <1>2, <1>3, <4>1, TableFacts, EmptySeq
    <3> QED
      BY <1>3, <1>5, <1>9, <2>2, <3>1, <3>2, <3>3 DEF StageInv, PendingTokens, r, count
  <2> QED
    BY <1>1, <2>1, <2>2
<1> QED
  BY <1>7, <1>8, <1>10, <1>11, <1>12, <1>13, <1>14, <1>15 DEF SchedulerInv

\* The next token, which may be the last.
LEMMA CommitSamplePreserves ==
  ASSUME SchedulerInv, CommitSample
  PROVE  SchedulerInv' /\ [BMNext]_bm_vars
<1> DEFINE r == items[cursor].sequence
<1>1. PICK eos \in BOOLEAN :
        /\ Sample(r, eos)
        /\ IF ShouldFinishAfter(r, num_tokens[r] + 1, eos)
           THEN pc' = "release" /\ cursor' = cursor
           ELSE pc' = "commit" /\ cursor' = cursor + 1
  BY DEF CommitSample
<1>2. pc = "sample" /\ UNCHANGED <<queue_vars, output_vars>>
  BY DEF CommitSample
<1>3. SchedulerTypeOK /\ TypeOK /\ QueuesPartitionRequests
      /\ RequestsInv /\ RunningInv /\ BatchInv /\ cursor \in Nat \ {0}
  BY DEF SchedulerInv, PoolInv, SchedulerTypeOK
<1>4. /\ cursor \in DOMAIN items /\ r \in Range(running)
      /\ items[cursor].num_scheduled_tokens > 0
      /\ block_table[r] # << >>
      /\ status[r] = "Running" /\ PendingTokens(r) = 0
  BY <1>2 DEF SchedulerInv, StageInv
<1>5. /\ r \in Requests
      /\ num_tokens[r] \in Nat /\ num_computed_tokens[r] \in Nat /\ PromptLen(r) \in Nat
      /\ MaxNewTokens[r] \in Nat
  BY <1>3, <1>4, QueueFacts, RequestFacts
<1>6. UNCHANGED <<items, running, waiting, known_request_ids, num_batched_tokens>>
  BY <1>2 DEF queue_vars, output_vars
<1>7. items[cursor].sequence = r
  OBVIOUS
<1> HIDE DEF r
<1>8. BMNext
  BY <1>1, <1>4, <1>5 DEF BMNext, Generate
<1>9. PoolInv' /\ TypeOK'
  BY <1>8, PoolInvInductive DEF SchedulerInv, PoolInv
<1>10. /\ UNCHANGED <<num_computed_tokens, block_table>>
       /\ num_tokens'[r] = num_tokens[r] + 1
       /\ \A q \in Requests : q # r =>
            num_tokens'[q] = num_tokens[q] /\ status'[q] = status[q]
       /\ IF ShouldFinishAfter(r, num_tokens[r] + 1, eos)
          THEN status'[r] = "Finished" ELSE status'[r] = "Running"
  BY <1>1, <1>3, <1>4, <1>5 DEF Sample, AppendToken, SetStatus, TypeOK
<1>11. SchedulerTypeOK'
  BY <1>1, <1>3, <1>6, <1>9 DEF SchedulerTypeOK, Stages
<1>12. \A q \in Range(running) : q \in Requests /\ (q # r => status[q] = "Running" \/ q \in FinishedItems)
  BY <1>3, QueueFacts DEF QueuesPartitionRequests
<1>13. QueuesPartitionRequests'
  <2>1. \A q \in Range(waiting) : q \in Requests /\ q # r /\ status'[q] = "Waiting"
    BY <1>3, <1>4, <1>10, QueueFacts DEF QueuesPartitionRequests
  <2>2. FinishedItems' = {q \in {items[i].sequence : i \in DOMAIN items} : status'[q] = "Finished"}
    BY <1>6 DEF FinishedItems
  <2>3. \A q \in Range(running) : status'[q] = "Running" \/ q \in FinishedItems'
    <3> SUFFICES ASSUME NEW q \in Range(running), status'[q] # "Running"
                 PROVE  q \in FinishedItems'
      OBVIOUS
    <3>1. CASE q = r
      BY <1>4, <1>7, <1>10, <2>2, <3>1
    <3>2. CASE q # r
      BY <1>10, <1>12, <2>2, <3>2 DEF FinishedItems
    <3> QED
      BY <3>1, <3>2
  <2>4. pc' \in {"commit", "release"}
    BY <1>1
  <2>5. \A q \in known_request_ids : q \in Requests /\
          (status'[q] # "Finished" => q \in Range(waiting) \cup Range(running))
    BY <1>3, <1>4, <1>10 DEF QueuesPartitionRequests, SchedulerTypeOK
  <2> QED
    BY <1>3, <1>6, <2>1, <2>3, <2>4, <2>5 DEF QueuesPartitionRequests
<1>14. RequestsInv'
  <2> SUFFICES ASSUME NEW q \in Requests
               PROVE  /\ PromptLen(q) <= num_tokens'[q]
                      /\ num_computed_tokens[q] <= num_tokens'[q]
                      /\ status'[q] = "Waiting" => num_computed_tokens[q] < num_tokens'[q]
                      /\ status'[q] # "Finished" =>
                           num_tokens'[q] - PromptLen(q) < MaxNewTokens[q]
    BY <1>10 DEF RequestsInv
  <2>1. CASE q = r
    <3>1. status'[r] # "Waiting"
      BY <1>10
    <3>2. status'[r] # "Finished" => num_tokens[r] + 1 - PromptLen(r) < MaxNewTokens[r]
      BY <1>5, <1>10 DEF ShouldFinishAfter
    <3>3. PromptLen(r) <= num_tokens[r] /\ num_computed_tokens[r] <= num_tokens[r]
      BY <1>3, <1>5 DEF RequestsInv
    <3> QED
      BY <1>5, <1>10, <2>1, <3>1, <3>2, <3>3
  <2>2. CASE q # r
    BY <1>3, <1>10, <2>2 DEF RequestsInv
  <2> QED
    BY <2>1, <2>2
<1>15. RunningInv'
  <2> SUFFICES ASSUME NEW q \in Range(running)
               PROVE  /\ q \in known_request_ids
                      /\ status'[q] = "Running" => num_tokens'[q] - num_computed_tokens[q] > 0
    BY <1>6, <1>10 DEF RunningInv, PendingTokens
  <2>1. q \in Requests /\ q \in known_request_ids
    BY <1>3, <1>12 DEF RunningInv
  <2>2. CASE q = r
    BY <1>4, <1>5, <1>10, <2>1, <2>2 DEF PendingTokens
  <2>3. CASE q # r
    BY <1>3, <1>7, <1>10, <2>1, <2>3 DEF RunningInv, PendingTokens
  <2> QED
    BY <2>1, <2>2, <2>3
<1>16. BatchInv'
  <2>1. \A i \in Untouched' : i \in Untouched /\ i # cursor
    <3> SUFFICES ASSUME NEW i \in Untouched'
                 PROVE  i \in Untouched /\ i # cursor
      OBVIOUS
    <3>1. i \in DOMAIN items /\ i \in Nat /\ i > cursor
      BY <1>1, <1>3, <1>6, QueueFacts DEF Untouched
    <3> QED
      BY <1>2, <1>3, <3>1 DEF Untouched
  <2> QED
    BY <1>3, <1>4, <1>5, <1>6, <1>7, <1>9, <1>10, <2>1, LaterItemsKept
<1>17. StageInv'
  <2>1. CASE ShouldFinishAfter(r, num_tokens[r] + 1, eos)
    <3>1. pc' = "release" /\ cursor' = cursor /\ status'[r] = "Finished"
      BY <1>1, <1>10, <2>1
    <3> QED
      BY <1>4, <1>6, <1>7, <1>10, <3>1 DEF StageInv
  <2>2. CASE ~ ShouldFinishAfter(r, num_tokens[r] + 1, eos)
    BY <1>1, <2>2 DEF StageInv
  <2> QED
    BY <2>1, <2>2
<1> QED
  BY <1>8, <1>9, <1>11, <1>13, <1>14, <1>15, <1>16, <1>17 DEF SchedulerInv

\* A finished sequence gives its blocks back.
LEMMA CommitReleasePreserves ==
  ASSUME SchedulerInv, CommitRelease
  PROVE  SchedulerInv' /\ [BMNext]_bm_vars
<1> DEFINE r == items[cursor].sequence
<1>1. /\ pc = "release" /\ pc' = "commit" /\ cursor' = cursor + 1
      /\ Release(r)
      /\ UNCHANGED <<items, running, waiting, known_request_ids, num_batched_tokens>>
  BY DEF CommitRelease, queue_vars, output_vars
<1>2. SchedulerTypeOK /\ TypeOK /\ QueuesPartitionRequests
      /\ RequestsInv /\ RunningInv /\ BatchInv /\ cursor \in Nat \ {0}
  BY DEF SchedulerInv, PoolInv, SchedulerTypeOK
<1>3. cursor \in DOMAIN items /\ r \in Range(running) /\ status[r] = "Finished"
  BY <1>1 DEF SchedulerInv, StageInv
<1>4. r \in Requests /\ items[cursor].sequence = r
  BY <1>2, <1>3, QueueFacts
<1> HIDE DEF r
<1>5. BMNext
  BY <1>1, <1>3, <1>4 DEF BMNext, Retire
<1>6. PoolInv' /\ TypeOK'
  BY <1>5, PoolInvInductive DEF SchedulerInv, PoolInv
<1>7. /\ UNCHANGED <<status, num_tokens, num_computed_tokens>>
      /\ \A q \in Requests : q # r => block_table'[q] = block_table[q]
  BY <1>1, <1>2, <1>4 DEF Release, TypeOK
<1>8. SchedulerTypeOK'
  BY <1>1, <1>2, <1>6 DEF SchedulerTypeOK, Stages
<1>9. QueuesPartitionRequests' /\ RequestsInv' /\ RunningInv'
  BY <1>1, <1>2, <1>7 DEF QueuesPartitionRequests, FinishedItems, RequestsInv, RunningInv,
                          PendingTokens
<1>10. BatchInv'
  <2>1. \A i \in Untouched' : i \in Untouched /\ i # cursor
    <3> SUFFICES ASSUME NEW i \in Untouched'
                 PROVE  i \in Untouched /\ i # cursor
      OBVIOUS
    <3>1. i \in DOMAIN items /\ i \in Nat /\ i > cursor
      BY <1>1, <1>2, QueueFacts DEF Untouched
    <3> QED
      BY <1>1, <1>2, <3>1 DEF Untouched
  <2> QED
    BY <1>1, <1>2, <1>3, <1>4, <1>6, <1>7, <2>1, LaterItemsKept
<1>11. StageInv'
  BY <1>1 DEF StageInv
<1> QED
  BY <1>5, <1>6, <1>8, <1>9, <1>10, <1>11 DEF SchedulerInv

\* The finished leave running_.
LEMMA EndCommitPreserves ==
  ASSUME SchedulerInv, EndCommit
  PROVE  SchedulerInv'
<1> DEFINE S == {i \in DOMAIN running : running[i] \notin FinishedItems}
<1>1. PICK kept \in Ascending(S) : running' = [i \in DOMAIN kept |-> running[kept[i]]]
  BY DEF EndCommit
<1>2. /\ pc = "commit" /\ pc' = "idle" /\ cursor' = 1
      /\ items' = << >> /\ num_batched_tokens' = 0
      /\ UNCHANGED <<bm_vars, waiting, known_request_ids>>
  BY DEF EndCommit, EndStep
<1>3. SchedulerTypeOK /\ TypeOK /\ QueuesPartitionRequests /\ RunningInv
  BY DEF SchedulerInv, PoolInv
<1>4. PoolInv' /\ RequestsInv'
  BY <1>2, PoolAlone
<1>5. /\ IsFiniteSet(S) /\ Cardinality(S) \in Nat
      /\ S \subseteq 1 .. Len(running) /\ Len(running) \in Nat
      /\ DOMAIN running = 1 .. Len(running)
  <2>1. S \in SUBSET (1 .. Len(running)) /\ Len(running) \in Nat
        /\ DOMAIN running = 1 .. Len(running)
    BY <1>3, QueueFacts
  <2> HIDE DEF S
  <2>2. IsFiniteSet(1 .. Len(running))
    BY <2>1, FS_Interval
  <2>3. IsFiniteSet(S)
    BY <2>1, <2>2, FS_Subset
  <2> QED
    BY <2>1, <2>3, FS_CardinalityType
<1> DEFINE n == Cardinality(S)
<1>6. /\ kept \in [1 .. n -> S]
      /\ \A i, j \in 1 .. n : i < j => kept[i] < kept[j]
  BY DEF Ascending
<1>7. \A i, j \in 1 .. n : kept[i] = kept[j] => i = j
  <2> SUFFICES ASSUME NEW i \in 1 .. n, NEW j \in 1 .. n, i # j
               PROVE  kept[i] # kept[j]
    OBVIOUS
  <2>1. kept[i] \in Nat /\ kept[j] \in Nat
    BY <1>5, <1>6
  <2>2. i < j \/ j < i
    BY <1>5
  <2> QED
    BY <2>1, <2>2, <1>6
<1>8. Range(kept) = S
  BY <1>5, <1>6, <1>7, ListingIsOnto
<1>9. /\ DOMAIN running' = 1 .. n
      /\ \A i \in 1 .. n : /\ running'[i] = running[kept[i]] /\ kept[i] \in S
                           /\ running'[i] \in Requests
  BY <1>1, <1>3, <1>6, QueueFacts
<1>10. running' \in Seq(Requests)
  <2>1. running' \in [1 .. n -> Requests]
    BY <1>1, <1>6, <1>9
  <2>2. n \in Nat
    BY <1>5
  <2> HIDE DEF n
  <2> QED
    BY <2>1, <2>2, SeqDef
<1>11. IsInjective(running')
  <2>1. \A i, j \in DOMAIN running : running[i] = running[j] => i = j
    BY <1>3 DEF QueuesPartitionRequests, IsInjective
  <2>2. \A i, j \in 1 .. n : running'[i] = running'[j] => kept[i] = kept[j]
    BY <1>9, <2>1
  <2> QED
    BY <1>7, <1>9, <2>2 DEF IsInjective
<1> HIDE DEF n
<1>12. Range(running') \subseteq Range(running) \ FinishedItems
  BY <1>9 DEF Range
<1>13. Range(running) \ FinishedItems \subseteq Range(running')
  <2> SUFFICES ASSUME NEW i \in DOMAIN running, running[i] \notin FinishedItems
               PROVE  running[i] \in Range(running')
    BY DEF Range
  <2>1. i \in S
    OBVIOUS
  <2>2. PICK k \in 1 .. n : kept[k] = i
    BY <1>6, <1>8, <2>1 DEF Range, n
  <2> QED
    BY <1>9, <2>2 DEF Range
<1> HIDE DEF S
<1>14. \A q \in Range(running') : status[q] = "Running" /\ q \in Range(running)
  BY <1>3, <1>12 DEF QueuesPartitionRequests
<1>15. SchedulerTypeOK'
  BY <1>2, <1>3, <1>4, <1>10, EmptySeq DEF SchedulerTypeOK, PoolInv, Stages
<1>16. QueuesPartitionRequests'
  <2>1. \A q \in known_request_ids :
          status[q] # "Finished" => q \in Range(waiting) \cup Range(running')
    BY <1>3, <1>13 DEF QueuesPartitionRequests, FinishedItems
  <2> QED
    BY <1>2, <1>3, <1>11, <1>14, <2>1 DEF QueuesPartitionRequests, bm_vars
<1>17. RunningInv'
  BY <1>2, <1>3, <1>14 DEF RunningInv, PendingTokens, bm_vars
<1>18. BatchInv' /\ StageInv'
  BY <1>2 DEF BatchInv, StageInv, Untouched
<1> QED
  BY <1>4, <1>15, <1>16, <1>17, <1>18 DEF SchedulerInv

LEMMA SchedulerInvInductive ==
  ASSUME SchedulerInv, [Next]_vars
  PROVE  SchedulerInv' /\ [BMNext]_bm_vars
<1>1. CASE UNCHANGED vars
  <2>1. /\ UNCHANGED bm_vars
        /\ UNCHANGED <<waiting, running, known_request_ids, items, num_batched_tokens,
                       pc, cursor>>
    BY <1>1 DEF vars, bm_vars
  <2>2. PoolInv' /\ RequestsInv'
    BY <2>1, PoolAlone
  <2>3. SchedulerTypeOK'
    BY <2>1, <2>2 DEF SchedulerInv, SchedulerTypeOK, PoolInv
  <2>4. QueuesPartitionRequests' /\ RunningInv' /\ BatchInv' /\ StageInv'
    BY <2>1 DEF SchedulerInv, QueuesPartitionRequests, FinishedItems, RunningInv, BatchInv,
                StageInv, Untouched, Ready, MayAdmit, ItemsFull, BudgetSpent, PendingTokens,
                IsPrefill, bm_vars
  <2> QED
    BY <2>1, <2>2, <2>3, <2>4 DEF SchedulerInv
<1>2. ASSUME NEW r \in Requests, Add(r)
      PROVE  SchedulerInv' /\ [BMNext]_bm_vars
  BY <1>2, AddPreserves DEF Add
<1>3. CASE ClearCache
  BY <1>3, ClearCachePreserves
<1>4. CASE StartStep \/ EndRunning \/ EndAdmit \/ RunSucceeds
  BY <1>4, NextStagePreserves DEF StartStep, EndRunning, EndAdmit, RunSucceeds
<1>5. CASE NoProgress \/ RunFails
  BY <1>5, AbortPreserves DEF NoProgress, RunFails
<1>6. CASE ScheduleRunning
  BY <1>6, ScheduleRunningPreserves
<1>7. CASE AdmitFromCache
  BY <1>7, AdmitFromCachePreserves
<1>8. CASE Admit
  BY <1>8, AdmitPreserves
<1>9. CASE CommitItem
  BY <1>9, CommitItemPreserves
<1>10. CASE CommitSample
  BY <1>10, CommitSamplePreserves
<1>11. CASE CommitRelease
  BY <1>11, CommitReleasePreserves
<1>12. CASE EndCommit
  BY <1>12, EndCommitPreserves DEF EndCommit
<1> QED
  BY <1>1, <1>2, <1>3, <1>4, <1>5, <1>6, <1>7, <1>8, <1>9, <1>10, <1>11, <1>12
  DEF Next, EngineStep, Done

----------------------------------------------------------------------------
(***************************************************************************)
(* What follows.                                                           *)
(***************************************************************************)

\* In every reachable state of the engine's loop, between any two of its steps, the
\* whole invariant holds: the pool's part and the scheduler's.
THEOREM SchedulerInvariant == Spec => []SchedulerInv
<1>1. Init => SchedulerInv
  BY SchedulerInvInit
<1>2. SchedulerInv /\ [Next]_vars => SchedulerInv'
  BY SchedulerInvInductive
<1> QED
  BY <1>1, <1>2, PTL DEF Spec

\* The scheduler computes only tokens that have blocks, samples only what is wholly
\* computed and releases only what is finished (scheduler.hpp never drives
\* block_manager.hpp into one of its exceptions).
THEOREM KeepsCallingDiscipline == Spec => SchedulerUsesPoolAsSpecified
<1>1. Init => BMInit
  BY DEF Init
<1>2. SchedulerInv /\ [Next]_vars => [BMNext]_bm_vars
  BY SchedulerInvInductive
<1> QED
  BY <1>1, <1>2, SchedulerInvariant, PTL DEF Spec, SchedulerUsesPoolAsSpecified, BMSpec

\* So what the pool promises every client, it promises the engine: no token is written
\* to a block somebody else reads, and no reader loses a block.
THEOREM EngineLoopSharesSafely ==
  Spec => []WriteIsolation /\ []SharedBlocksAgree /\ []RefCountsOwners /\ ReadersKeepBlocks
<1>1. RefCountsOwners /\ FreeListExact /\ NoAliasing /\ LiveIffHolding => RefCountsOwners
  OBVIOUS
<1>2. SharedBlocksAgree /\ CacheCoherent => SharedBlocksAgree
  OBVIOUS
<1> QED
  BY <1>1, <1>2, KeepsCallingDiscipline, WritesAreIsolated, SharingIsSound,
     ReferencesAreAccounted, ReadersAreNotRobbed, PTL DEF SchedulerUsesPoolAsSpecified

\* Whatever schedule() does after it has made room for an item, for other items or for
\* waiting requests, the item still has its room, its sequence and its pending tokens
\* when the model runs and when commit() reaches it.
THEOREM BatchStaysBacked == Spec => []ItemsBacked
<1>1. ASSUME SchedulerInv
      PROVE  ItemsBacked
  <2>1. BatchInv /\ StageInv /\ SchedulerTypeOK /\ cursor \in Nat
    BY <1>1 DEF SchedulerInv, SchedulerTypeOK
  <2> SUFFICES ASSUME NEW i \in OpenItems, pc # "release" \/ i > cursor
               PROVE  LET r == items[i].sequence
                          count == items[i].num_scheduled_tokens
                      IN  /\ r \in Range(running)
                          /\ count > 0
                          /\ pc # "sample" \/ i > cursor =>
                               /\ count <= PendingTokens(r)
                               /\ num_computed_tokens[r] + count <= Len(block_table[r]) * BlockSize
                               /\ items[i].phase = (IF IsPrefill(r) THEN "Prefill" ELSE "Decode")
    BY DEF ItemsBacked
  <2>2. i \in DOMAIN items /\ i \in Nat /\ items[i].num_scheduled_tokens \in Nat
    BY <2>1, QueueFacts DEF OpenItems
  <2>3. CASE pc = "sample" /\ ~ (i > cursor)
    <3>1. i = cursor
      BY <2>1, <2>2, <2>3 DEF OpenItems
    <3> QED
      BY <2>1, <2>2, <2>3, <3>1 DEF StageInv
  <2>4. CASE pc # "sample" \/ i > cursor
    <3>1. Ready(items[i])
      <4>1. i \in Untouched
        BY <2>1, <2>2, <2>4 DEF OpenItems, Untouched
      <4> QED
        BY <2>1, <4>1 DEF BatchInv
    <3> QED
      BY <2>2, <3>1 DEF Ready
  <2> QED
    BY <2>3, <2>4
<1> QED
  BY <1>1, SchedulerInvariant, PTL

\* The exceptions of try_schedule, mark_computed, append_token and release are never
\* thrown, whatever was scheduled, failed, dropped and scheduled again before.
THEOREM NoExceptions == Spec => []NoLogicError
<1>1. ASSUME SchedulerInv
      PROVE  NoLogicError
  <2>1. /\ PoolInv /\ TypeOK /\ SchedulerTypeOK /\ QueuesPartitionRequests
        /\ RequestsInv /\ RunningInv /\ StageInv
    BY <1>1 DEF SchedulerInv, PoolInv
  <2>2. ASSUME NEW r \in Range(waiting)
        PROVE  PendingTokens(r) > 0
    <3>1. r \in Requests /\ status[r] = "Waiting"
      BY <2>1, QueueFacts DEF QueuesPartitionRequests
    <3>2. /\ num_tokens[r] \in Nat /\ num_computed_tokens[r] \in Nat
          /\ num_computed_tokens[r] < num_tokens[r]
      BY <2>1, <3>1, RequestFacts DEF RequestsInv
    <3> QED
      BY <3>2 DEF PendingTokens
  <2>3. ASSUME NEW r \in Range(running), pc \notin {"sample", "release", "commit"}
        PROVE  PendingTokens(r) > 0
    BY <2>1, <2>3 DEF QueuesPartitionRequests, RunningInv
  <2>4. pc = "sample" => PendingTokens(items[cursor].sequence) = 0
    BY <2>1 DEF StageInv
  <2>5. ASSUME pc = "release"
        PROVE  /\ items[cursor].sequence \in live_sequences
               /\ block_table[items[cursor].sequence] # << >>
    <3>1. items[cursor].sequence \in Requests /\ block_table[items[cursor].sequence] # << >>
      BY <2>1, <2>5, QueueFacts DEF StageInv
    <3> QED
      BY <2>1, <3>1 DEF PoolInv, LiveIffHolding
  <2> QED
    BY <2>2, <2>3, <2>4, <2>5 DEF NoLogicError
<1> QED
  BY <1>1, SchedulerInvariant, PTL

\* A request is in one queue at most, and in the one its status says.
THEOREM RequestsAreQueuedOnce == Spec => []QueuesPartitionRequests
<1>1. SchedulerInv => QueuesPartitionRequests
  BY DEF SchedulerInv
<1> QED
  BY <1>1, SchedulerInvariant, PTL

----------------------------------------------------------------------------
(***************************************************************************)
(* The scheduler implements Serving.                                       *)
(***************************************************************************)

\* The two variables of Serving, as Scheduler maps them.
ServedPhase ==
  [r \in Requests |-> IF r \notin known_request_ids THEN "unknown"
                      ELSE IF status[r] = "Finished" THEN "finished" ELSE "accepted"]
ServedTokens == [r \in Requests |-> num_tokens[r] - PromptLen(r)]

\* Steps that append no token and finish nobody do not show.
LEMMA UnseenSteps ==
  ASSUME SchedulerInv, UNCHANGED <<known_request_ids, num_tokens>>,
         \A q \in Requests : status'[q] = "Finished" <=> status[q] = "Finished"
  PROVE  UNCHANGED <<ServedPhase, ServedTokens>>
  BY DEF ServedPhase, ServedTokens

\* A sample is one token more, and the last one finishes its request.
LEMMA SampleIsServed ==
  ASSUME SchedulerInv, CommitSample
  PROVE  Served!Next
<1>1. /\ SchedulerTypeOK /\ TypeOK /\ RequestsInv /\ pc = "sample"
      /\ items[cursor].sequence \in Range(running)
      /\ items[cursor].sequence \in Requests
      /\ status[items[cursor].sequence] = "Running"
  BY QueueFacts DEF CommitSample, SchedulerInv, PoolInv, StageInv
<1>2. PICK r \in Requests : r = items[cursor].sequence
  BY <1>1
<1>3. PICK eos \in BOOLEAN : Sample(r, eos)
  BY <1>2 DEF CommitSample
<1>4. /\ r \in known_request_ids /\ status[r] = "Running"
      /\ UNCHANGED known_request_ids
  BY <1>1, <1>2 DEF SchedulerInv, RunningInv, CommitSample, queue_vars
<1>5. /\ num_tokens[r] \in Nat /\ PromptLen(r) \in Nat /\ MaxNewTokens[r] \in Nat
      /\ num_tokens[r] - PromptLen(r) < MaxNewTokens[r]
  BY <1>1, <1>4, RequestFacts DEF RequestsInv
<1>6. /\ num_tokens' = [num_tokens EXCEPT ![r] = @ + 1]
      /\ \/ /\ ShouldFinishAfter(r, num_tokens[r] + 1, eos)
            /\ status' = [status EXCEPT ![r] = "Finished"]
         \/ /\ ~ ShouldFinishAfter(r, num_tokens[r] + 1, eos)
            /\ UNCHANGED status
  BY <1>3 DEF Sample, AppendToken, SetStatus
<1>7. ServedTokens' = [ServedTokens EXCEPT ![r] = @ + 1]
  <2>1. \A q \in Requests :
          num_tokens'[q] = IF q = r THEN num_tokens[r] + 1 ELSE num_tokens[q]
    BY <1>1, <1>6 DEF TypeOK
  <2>2. \A q \in Requests : num_tokens'[q] - PromptLen(q) =
          IF q = r THEN num_tokens[r] - PromptLen(r) + 1 ELSE num_tokens[q] - PromptLen(q)
    <3> SUFFICES ASSUME NEW q \in Requests
                 PROVE  num_tokens'[q] - PromptLen(q) =
                          IF q = r THEN num_tokens[r] - PromptLen(r) + 1
                          ELSE num_tokens[q] - PromptLen(q)
      OBVIOUS
    <3>1. CASE q = r
      <4>1. num_tokens'[q] = num_tokens[r] + 1
        BY <2>1, <3>1
      <4> QED
        BY <1>5, <3>1, <4>1
    <3>2. CASE q # r
      BY <2>1, <3>2
    <3> QED
      BY <3>1, <3>2
  <2> QED
    BY <2>2, Zenon DEF ServedTokens
<1>8. ServedPhase[r] = "accepted" /\ ServedTokens[r] = num_tokens[r] - PromptLen(r)
  BY <1>4 DEF ServedPhase, ServedTokens
<1>9. \/ /\ ServedTokens[r] + 1 < MaxNewTokens[r]
         /\ UNCHANGED ServedPhase
      \/ /\ ServedTokens[r] + 1 = MaxNewTokens[r] \/ r \in HonorsEos
         /\ ServedPhase' = [ServedPhase EXCEPT ![r] = "finished"]
  <2>1. CASE ~ ShouldFinishAfter(r, num_tokens[r] + 1, eos)
    <3>1. ServedTokens[r] + 1 < MaxNewTokens[r]
      BY <1>5, <1>8, <2>1 DEF ShouldFinishAfter
    <3> QED
      BY <1>4, <1>6, <2>1, <3>1 DEF ServedPhase
  <2>2. CASE ShouldFinishAfter(r, num_tokens[r] + 1, eos)
    <3>1. ServedTokens[r] + 1 = MaxNewTokens[r] \/ r \in HonorsEos
      BY <1>5, <1>8, <2>2 DEF ShouldFinishAfter
    <3>2. ServedPhase' = [ServedPhase EXCEPT ![r] = "finished"]
      BY <1>1, <1>4, <1>6, <2>2 DEF ServedPhase, TypeOK
    <3> QED
      BY <3>1, <3>2
  <2> QED
    BY <2>1, <2>2
<1>10. Served!Generate(r)
  BY <1>7, <1>8, <1>9 DEF Served!Generate, ServedPhase, ServedTokens
<1> QED
  BY <1>10 DEF Served!Next

LEMMA StepsAreServed ==
  ASSUME SchedulerInv, [Next]_vars
  PROVE  [Served!Next]_<<ServedPhase, ServedTokens>>
<1>0. SchedulerTypeOK /\ TypeOK /\ QueuesPartitionRequests
  BY DEF SchedulerInv, PoolInv
<1>1. CASE UNCHANGED vars
  BY <1>1 DEF vars, ServedPhase, ServedTokens
<1>2. ASSUME NEW r \in Requests, Add(r)
      PROVE  Served!Next
  <2>1. /\ status[r] = "Waiting" /\ r \notin known_request_ids
        /\ known_request_ids' = known_request_ids \cup {r}
        /\ UNCHANGED <<status, num_tokens>>
    BY <1>2 DEF Add, bm_vars
  <2>2. ServedPhase[r] = "unknown" /\ UNCHANGED ServedTokens
    BY <2>1 DEF ServedPhase, ServedTokens
  <2>3. ServedPhase' = [ServedPhase EXCEPT ![r] = "accepted"]
    BY <2>1 DEF ServedPhase
  <2>4. Served!Submit(r)
    BY <2>2, <2>3 DEF Served!Submit, ServedPhase, ServedTokens
  <2> QED
    BY <2>4 DEF Served!Next
<1>3. CASE ClearCache
  BY <1>3, UnseenSteps DEF ClearCache, ClearPrefixCache, sequence_vars, queue_vars
<1>4. CASE StartStep \/ EndRunning \/ EndAdmit \/ NoProgress \/ RunFails \/ RunSucceeds
  BY <1>4, UnseenSteps DEF StartStep, EndRunning, EndAdmit, NoProgress, RunFails,
                           RunSucceeds, bm_vars, queue_vars
<1>5. CASE ScheduleRunning
  BY <1>5, UnseenSteps DEF ScheduleRunning, EnsureCapacitySucceeds, EnsureCapacityFails,
                           EvictAndAllocate, queue_vars
<1>6. CASE AdmitFromCache
  BY <1>6, UnseenSteps DEF AdmitFromCache, ApplyPrefixCache, queue_vars
<1>7. CASE Admit
  <2>1. UNCHANGED <<known_request_ids, num_tokens>>
    BY <1>7 DEF Admit, EnsureCapacitySucceeds, EnsureCapacityFails, EvictAndAllocate
  <2>2. Head(waiting) \in Requests /\ status[Head(waiting)] = "Waiting"
    <3>1. waiting # << >>
      BY <1>7 DEF Admit, SchedulerInv, StageInv, MayAdmit
    <3> QED
      BY <1>0, <3>1, QueueFacts DEF QueuesPartitionRequests
  <2>3. status' = [status EXCEPT ![Head(waiting)] = "Running"] \/ UNCHANGED status
    BY <1>7 DEF Admit, StartRunning, SetStatus
  <2>4. \A q \in Requests : status'[q] = "Finished" <=> status[q] = "Finished"
    BY <1>0, <2>2, <2>3 DEF TypeOK
  <2> QED
    BY <2>1, <2>4, UnseenSteps
<1>8. CASE CommitItem
  BY <1>8, UnseenSteps DEF CommitItem, ComputeTokens, queue_vars
<1>9. CASE CommitSample
  BY <1>9, SampleIsServed
<1>10. CASE CommitRelease
  BY <1>10, UnseenSteps DEF CommitRelease, Release, queue_vars
<1>11. CASE EndCommit
  BY <1>11, UnseenSteps DEF EndCommit, bm_vars
<1> QED
  BY <1>1, <1>2, <1>3, <1>4, <1>5, <1>6, <1>7, <1>8, <1>9, <1>10, <1>11
  DEF Next, EngineStep, Done

\* Through batching, chunking, waiting, failed and repeated steps, a user sees each
\* request accepted once, its tokens one at a time, and nothing after the last.
THEOREM ImplementsServing == Spec => SchedulerImplementsServing
<1>1. Init => Served!Init
  <2> SUFFICES ASSUME Init
               PROVE  Served!Init
    OBVIOUS
  <2>1. /\ known_request_ids = {} /\ num_tokens = [r \in Requests |-> PromptLen(r)]
    BY DEF Init, BMInit, SequenceInit
  <2>2. \A r \in Requests : PromptLen(r) \in Nat
    BY PrefixKeyFacts
  <2> QED
    BY <2>1, <2>2 DEF Served!Init
<1>2. SchedulerInv /\ [Next]_vars => [Served!Next]_<<ServedPhase, ServedTokens>>
  BY StepsAreServed
<1> QED
  BY <1>1, <1>2, SchedulerInvariant, PTL
  DEF Spec, SchedulerImplementsServing, Served!Spec, ServedPhase, ServedTokens

-----------------------------------------------------------------------------
(***************************************************************************)
(* With room for max_num_sequences requests of any size, no reservation    *)
(* fails, so no step stalls.                                               *)
(***************************************************************************)

\* The head of waiting_ may hold blocks while there is room for it to start: the cache
\* hits that a failed admission has left it.
Admitting ==
  IF waiting # << >> /\ Len(running) < MaxNumSequences THEN {Head(waiting)} ELSE {}

\* Who may hold blocks, and at most how many.
QuotaInv(quota) ==
  /\ Len(running) <= MaxNumSequences
  /\ \A r \in Requests :
       /\ Len(block_table[r]) <= quota
       /\ block_table[r] # << >> => r \in Range(running) \cup Admitting
       /\ status[r] = "Finished" /\ block_table[r] # << >> =>
            pc = "release" /\ r = items[cursor].sequence

\* As long as nothing is scheduled in a step, there is somebody left to schedule.
StartInv ==
  /\ pc = "idle" => cursor = 1 /\ num_batched_tokens = 0
  /\ pc \in {"running", "admit", "admit_capacity", "model"} /\ items = << >> =>
       /\ num_batched_tokens = 0
       /\ pc = "running" => cursor = 1 /\ ~ IsFinished
       /\ pc # "running" => pc # "model" /\ running = << >> /\ waiting # << >>

LEMMA ImageBound ==
  ASSUME NEW S, IsFiniteSet(S), NEW T, NEW f \in [S -> T]
  PROVE  IsFiniteSet(Range(f)) /\ Cardinality(Range(f)) <= Cardinality(S)
         /\ Cardinality(Range(f)) \in Nat
<1>1. f \in Surjection(S, Range(f))
  BY DEF Range, Surjection
<1> QED
  BY <1>1, FS_Surjection, FS_CardinalityType

LEMMA ListBound ==
  ASSUME NEW n \in Nat, NEW T, NEW f \in [1 .. n -> T]
  PROVE  IsFiniteSet(Range(f)) /\ Cardinality(Range(f)) <= n /\ Cardinality(Range(f)) \in Nat
<1>1. IsFiniteSet(1 .. n) /\ Cardinality(1 .. n) = n
  BY FS_Interval
<1> QED
  BY <1>1, ImageBound

LEMMA UnionBound ==
  ASSUME NEW S, NEW T, IsFiniteSet(S), IsFiniteSet(T)
  PROVE  /\ IsFiniteSet(S \cup T)
         /\ Cardinality(S \cup T) <= Cardinality(S) + Cardinality(T)
         /\ Cardinality(S) \in Nat /\ Cardinality(T) \in Nat /\ Cardinality(S \cup T) \in Nat
<1>1. /\ IsFiniteSet(S \cup T) /\ IsFiniteSet(S \cap T)
      /\ Cardinality(S \cup T) = Cardinality(S) + Cardinality(T) - Cardinality(S \cap T)
  BY FS_Union, FS_Intersection
<1>2. /\ Cardinality(S) \in Nat /\ Cardinality(T) \in Nat /\ Cardinality(S \cap T) \in Nat
      /\ Cardinality(S \cup T) \in Nat
  BY <1>1, FS_CardinalityType
<1> QED
  BY <1>1, <1>2

\* At most max_num_sequences requests hold blocks.
LEMMA FewHolders ==
  ASSUME SchedulerTypeOK, Len(running) <= MaxNumSequences
  PROVE  LET holders == Range(running) \cup Admitting
         IN  IsFiniteSet(holders) /\ Cardinality(holders) <= MaxNumSequences
<1>1. /\ Len(running) \in Nat /\ DOMAIN running = 1 .. Len(running) /\ MaxNumSequences \in Nat
  BY QueueFacts, SchedulerAssumption
<1>2. /\ IsFiniteSet(Range(running)) /\ Cardinality(Range(running)) <= Len(running)
      /\ Cardinality(Range(running)) \in Nat
  <2>1. running \in [1 .. Len(running) -> Requests]
    BY LenProperties DEF SchedulerTypeOK
  <2> QED
    BY <1>1, <2>1, ListBound
<1>3. CASE Admitting = {}
  BY <1>1, <1>2, <1>3
<1>4. CASE Admitting # {}
  <2>1. Admitting = {Head(waiting)} /\ Len(running) < MaxNumSequences
    BY <1>4 DEF Admitting
  <2>2. IsFiniteSet(Admitting) /\ Cardinality(Admitting) = 1
    BY <2>1, FS_Singleton
  <2>3. /\ IsFiniteSet(Range(running) \cup Admitting)
        /\ Cardinality(Range(running) \cup Admitting) <= Cardinality(Range(running)) + 1
        /\ Cardinality(Range(running) \cup Admitting) \in Nat
    BY <1>2, <2>2, UnionBound
  <2> QED
    BY <1>1, <1>2, <2>1, <2>3
<1> QED
  BY <1>3, <1>4

\* The blocks of all requests but r, counted through their places in the tables.
LEMMA OthersBound ==
  ASSUME SchedulerTypeOK, NEW quota \in Nat, QuotaInv(quota),
         NEW r \in Range(running) \cup Admitting
  PROVE  LET others == {b \in Blocks : \E q \in Requests : q # r /\ q \in Holders(b)}
         IN  /\ IsFiniteSet(others) /\ Cardinality(others) \in Nat
             /\ Cardinality(others) + quota <= MaxNumSequences * quota
<1> DEFINE others == {b \in Blocks : \E q \in Requests : q # r /\ q \in Holders(b)}
           holders == Range(running) \cup Admitting
           rest == holders \ {r}
           places == rest \X (1 .. quota)
           f == [p \in places |-> IF p[2] \in DOMAIN block_table[p[1]]
                                  THEN block_table[p[1]][p[2]] ELSE 0]
<1>1. TypeOK
  BY DEF SchedulerTypeOK
<1>2. /\ IsFiniteSet(holders) /\ Cardinality(holders) <= MaxNumSequences
      /\ Cardinality(holders) \in Nat /\ MaxNumSequences \in Nat
  BY FewHolders, FS_CardinalityType, SchedulerAssumption DEF QuotaInv
<1>3. /\ IsFiniteSet(rest) /\ Cardinality(rest) = Cardinality(holders) - 1
      /\ Cardinality(rest) \in Nat
  BY <1>2, FS_RemoveElement, FS_CardinalityType
<1>4. IsFiniteSet(1 .. quota) /\ Cardinality(1 .. quota) = quota
  BY FS_Interval
<1> DEFINE n == Cardinality(rest)
<1>5. IsFiniteSet(places) /\ Cardinality(places) = n * quota
  BY <1>3, <1>4, FS_Product
<1>6. others \subseteq Range(f)
  <2> SUFFICES ASSUME NEW b \in Blocks, NEW q \in Requests, q # r, q \in Holders(b)
               PROVE  b \in Range(f)
    OBVIOUS
  <2>1. PICK i \in DOMAIN block_table[q] : b = block_table[q][i]
    BY <1>1, TableFacts
  <2>2. /\ Len(block_table[q]) \in Nat /\ DOMAIN block_table[q] = 1 .. Len(block_table[q])
        /\ Len(block_table[q]) <= quota
    BY <1>1, TableFacts DEF QuotaInv
  <2>3. i \in 1 .. quota /\ block_table[q] # << >>
    BY <2>1, <2>2
  <2>4. q \in rest
    BY <2>3 DEF QuotaInv
  <2>5. <<q, i>> \in places /\ f[<<q, i>>] = b
    BY <2>1, <2>3, <2>4
  <2> QED
    BY <2>5 DEF Range
<1>7. IsFiniteSet(Range(f)) /\ Cardinality(Range(f)) <= n * quota
      /\ Cardinality(Range(f)) \in Nat
  <2>1. f \in [places -> Range(f)]
    BY DEF Range
  <2> HIDE DEF f, places, n
  <2> QED
    BY <1>5, <2>1, ImageBound
<1>8. IsFiniteSet(others) /\ Cardinality(others) \in Nat /\ Cardinality(others) <= n * quota
  <2>1. others \in SUBSET Range(f)
    BY <1>6
  <2> HIDE DEF others, f, n
  <2>2. IsFiniteSet(others) /\ Cardinality(others) <= Cardinality(Range(f))
    BY <1>7, <2>1, FS_Subset
  <2>3. Cardinality(others) \in Nat
    BY <2>2, FS_CardinalityType
  <2>4. n * quota \in Nat
    BY <1>3 DEF n
  <2> QED
    BY <1>7, <2>2, <2>3, <2>4
<1>9. n \in Nat /\ n + 1 <= MaxNumSequences
  BY <1>2, <1>3
<1> HIDE DEF n, others
<1>10. n * quota + quota <= MaxNumSequences * quota /\ n * quota \in Nat
  <2>1. (n + 1) * quota <= MaxNumSequences * quota
    BY <1>2, <1>9
  <2>2. (n + 1) * quota = n * quota + quota
    BY <1>9
  <2> QED
    BY <1>9, <2>1, <2>2
<1>11. Cardinality(others) + quota <= MaxNumSequences * quota
  BY <1>2, <1>8, <1>10
<1> QED
  BY <1>8, <1>11 DEF others

LEMMA BlocksAddUp ==
  ASSUME NEW quota \in Nat, NEW additional \in Nat, NEW len \in Nat, NEW n \in Nat,
         NEW table \in Nat, NEW blocks \in Nat,
         NEW free \in Nat, NEW gone \in Nat, NEW own \in Nat, NEW others \in Nat,
         free <= len, gone <= n, own <= table, others + quota <= blocks,
         additional + table <= quota, blocks <= free + gone + own + others
  PROVE  additional <= len + n
  OBVIOUS

\* So a request that may hold blocks gets all it needs, after evictions if need be.
LEMMA ReservationFits ==
  ASSUME SchedulerTypeOK, PoolInv, NEW quota \in Nat, QuotaInv(quota),
         MaxNumSequences * quota <= NumBlocks,
         NEW r \in Range(running) \cup Admitting, r \in Requests,
         NEW tokens \in Nat, BlocksNeeded(tokens) <= quota
  PROVE  ~ EnsureCapacityFails(r, tokens)
<1> SUFFICES ASSUME EnsureCapacityFails(r, tokens) PROVE FALSE
  OBVIOUS
<1> DEFINE additional == AdditionalBlocks(r, tokens)
           free == Range(free_block_ids)
           own == Range(block_table[r])
           others == {b \in Blocks : \E q \in Requests : q # r /\ q \in Holders(b)}
<1>1. TypeOK /\ RefCountsOwners /\ FreeListExact
  BY DEF PoolInv
<1>2. PICK n \in 0 .. additional : \E victims \in [1 .. n -> Evictable] :
        EvictionOrder(victims, n, additional) /\ additional > Len(free_block_ids) + n
  BY DEF EnsureCapacityFails
<1>3. PICK victims \in [1 .. n -> Evictable] : EvictionOrder(victims, n, additional)
  BY <1>2
<1>4. additional \in Nat /\ n \in Nat /\ Len(free_block_ids) \in Nat
      /\ additional > Len(free_block_ids) + n
  BY <1>1, <1>2, AdditionalBlocksNat DEF TypeOK
<1>5. /\ Len(block_table[r]) \in Nat /\ BlocksNeeded(tokens) \in Nat
      /\ block_table[r] \in [1 .. Len(block_table[r]) -> Blocks]
      /\ free_block_ids \in [1 .. Len(free_block_ids) -> Blocks]
  BY <1>1, TableFacts, BlocksNeededNat, LenProperties DEF TypeOK
<1>6. additional + Len(block_table[r]) <= quota
  BY <1>4, <1>5 DEF AdditionalBlocks
<1> DEFINE evicted == EvictedBlocks(victims, n)
<1>7. evicted \in [1 .. n -> Blocks]
  BY <1>1, EvictableFacts DEF EvictedBlocks
<1>8. Evictable \subseteq Range(victims)
  BY <1>3, <1>4 DEF EvictionOrder
<1> HIDE DEF additional
<1>9. Blocks \subseteq (free \cup Range(evicted)) \cup (own \cup others)
  <2> SUFFICES ASSUME NEW b \in Blocks, b \notin free, b \notin own, b \notin others
               PROVE  b \in Range(evicted)
    OBVIOUS
  <2>1. Holders(b) = {}
    <3>1. \A q \in Holders(b) : q \in Requests /\ b \in Range(block_table[q])
      BY DEF Holders
    <3> QED
      BY <3>1
  <2>2. Cardinality(Holders(b)) = 0 /\ ref_count[b] # 0
    BY <1>1, <2>1, FS_EmptySet DEF FreeListExact
  <2>3. b \in CachedBlocks /\ ref_count[b] = 1
    BY <1>1, <2>2 DEF RefCountsOwners
  <2>4. PICK k \in PrefixKeys : IsCached(k) /\ b = prefix_cache[k]
    BY <2>3 DEF CachedBlocks
  <2>5. k \in Evictable
    BY <2>3, <2>4 DEF Evictable
  <2>6. PICK i \in 1 .. n : k = victims[i]
    BY <1>8, <2>5 DEF Range
  <2>7. evicted[i] = b
    BY <2>4, <2>6 DEF EvictedBlocks
  <2> QED
    BY <1>7, <2>7 DEF Range
<1>11. /\ IsFiniteSet(free) /\ Cardinality(free) <= Len(free_block_ids) /\ Cardinality(free) \in Nat
       /\ IsFiniteSet(own) /\ Cardinality(own) <= Len(block_table[r]) /\ Cardinality(own) \in Nat
       /\ IsFiniteSet(Range(evicted)) /\ Cardinality(Range(evicted)) <= n
       /\ Cardinality(Range(evicted)) \in Nat
  <2> HIDE DEF evicted
  <2>1. IsFiniteSet(free) /\ Cardinality(free) <= Len(free_block_ids) /\ Cardinality(free) \in Nat
    BY <1>4, <1>5, ListBound
  <2>2. IsFiniteSet(own) /\ Cardinality(own) <= Len(block_table[r]) /\ Cardinality(own) \in Nat
    BY <1>5, ListBound
  <2>3. IsFiniteSet(Range(evicted)) /\ Cardinality(Range(evicted)) <= n
        /\ Cardinality(Range(evicted)) \in Nat
    BY <1>4, <1>7, ListBound
  <2> QED
    BY <2>1, <2>2, <2>3
<1>12. /\ IsFiniteSet(others) /\ Cardinality(others) \in Nat
       /\ Cardinality(others) + quota <= NumBlocks
  <2>1. /\ IsFiniteSet(others) /\ Cardinality(others) \in Nat
        /\ Cardinality(others) + quota <= MaxNumSequences * quota
    BY OthersBound
  <2>2. MaxNumSequences * quota \in Nat /\ NumBlocks \in Nat
    BY SchedulerAssumption, BlockManagerAssumption
  <2> HIDE DEF others
  <2> QED
    BY <2>1, <2>2
<1>13. IsFiniteSet(Blocks) /\ Cardinality(Blocks) = NumBlocks /\ NumBlocks \in Nat
  BY BlockManagerAssumption, FS_Interval DEF Blocks
<1> DEFINE gone == Range(evicted)
<1> HIDE DEF free, own, others, gone
<1>14. IsFiniteSet(free) /\ IsFiniteSet(gone) /\ IsFiniteSet(own) /\ IsFiniteSet(others)
       /\ Blocks \subseteq (free \cup gone) \cup (own \cup others)
  BY <1>9, <1>11, <1>12 DEF gone
<1>15. /\ Cardinality(free \cup gone) <= Cardinality(free) + Cardinality(gone)
       /\ Cardinality(own \cup others) <= Cardinality(own) + Cardinality(others)
       /\ IsFiniteSet(free \cup gone) /\ IsFiniteSet(own \cup others)
       /\ Cardinality(free \cup gone) \in Nat /\ Cardinality(own \cup others) \in Nat
  BY <1>14, UnionBound
<1> DEFINE all == (free \cup gone) \cup (own \cup others)
<1>16. /\ Cardinality(all) <= Cardinality(free \cup gone) + Cardinality(own \cup others)
       /\ IsFiniteSet(all) /\ Cardinality(all) \in Nat
  BY <1>15, UnionBound
<1>17. Cardinality(Blocks) <= Cardinality(all)
  <2>1. Blocks \in SUBSET all
    BY <1>14
  <2> HIDE DEF all
  <2> QED
    BY <1>16, <2>1, FS_Subset
<1> HIDE DEF all
<1>18. /\ Cardinality(gone) <= n /\ Cardinality(gone) \in Nat
  BY <1>11 DEF gone
<1>19. Cardinality(free) <= Len(free_block_ids) /\ Cardinality(free) \in Nat
       /\ Cardinality(own) <= Len(block_table[r]) /\ Cardinality(own) \in Nat
  BY <1>11
<1>20. NumBlocks <= Cardinality(free) + Cardinality(gone) + Cardinality(own) + Cardinality(others)
  BY <1>12, <1>13, <1>15, <1>16, <1>17, <1>18, <1>19
<1>21. additional <= Len(free_block_ids) + n
  BY <1>4, <1>5, <1>6, <1>12, <1>13, <1>18, <1>19, <1>20, BlocksAddUp
<1> QED
  BY <1>4, <1>21

\* A pool with room: no request needs more blocks than the quota, up to its longest
\* length at which anything is still computed, and max_num_sequences quotas fit.
RoomFor(quota) ==
  /\ \A r \in Requests : BlocksNeeded(PromptLen(r) + MaxNewTokens[r] - 1) <= quota
  /\ MaxNumSequences * quota <= NumBlocks

\* Whatever an unfinished request asks for is within the quota.
LEMMA NeedsWithinQuota ==
  ASSUME SchedulerInv, NEW quota \in Nat, RoomFor(quota),
         NEW r \in Requests, status[r] # "Finished",
         NEW tokens \in Nat, tokens <= num_tokens[r]
  PROVE  BlocksNeeded(tokens) \in Nat /\ BlocksNeeded(tokens) <= quota
<1>1. TypeOK /\ RequestsInv
  BY DEF SchedulerInv, PoolInv
<1> DEFINE longest == PromptLen(r) + MaxNewTokens[r] - 1
<1>2. longest \in Nat /\ tokens <= longest
  <2>1. /\ PromptLen(r) \in Nat \ {0} /\ MaxNewTokens[r] \in Nat /\ num_tokens[r] \in Nat
        /\ num_tokens[r] - PromptLen(r) < MaxNewTokens[r]
    BY <1>1, RequestFacts DEF RequestsInv
  <2> QED
    BY <2>1
<1>3. BlocksNeeded(longest) <= quota
  BY DEF RoomFor
<1> HIDE DEF longest
<1> QED
  BY <1>2, <1>3, BlocksNeededFacts

\* So no table outgrows the quota in a reservation ...
LEMMA ReservationWithinQuota ==
  ASSUME SchedulerInv, NEW quota \in Nat, RoomFor(quota),
         NEW r \in Requests, status[r] # "Finished", Len(block_table[r]) <= quota,
         NEW tokens \in Nat, tokens <= num_tokens[r],
         EnsureCapacitySucceeds(r, tokens) \/ EnsureCapacityFails(r, tokens)
  PROVE  /\ Len(block_table'[r]) <= quota
         /\ \A q \in Requests : q # r => Len(block_table'[q]) = Len(block_table[q])
<1>1. PoolInv
  BY DEF SchedulerInv
<1>2. BlocksNeeded(tokens) <= quota
  BY NeedsWithinQuota
<1>3. CASE EnsureCapacitySucceeds(r, tokens)
  BY <1>1, <1>2, <1>3, SuccessMakesRoom
<1>4. CASE EnsureCapacityFails(r, tokens)
  BY <1>1, <1>4, FailureKeepsTables
<1> QED
  BY <1>3, <1>4

\* ... or a lookup, whose hits are blocks of the prompt.
LEMMA LookupWithinQuota ==
  ASSUME SchedulerInv, NEW quota \in Nat, RoomFor(quota),
         NEW r \in Requests, status[r] = "Waiting", Len(block_table[r]) <= quota,
         ApplyPrefixCache(r)
  PROVE  Len(block_table'[r]) <= quota
<1>1. PoolInv /\ TypeOK /\ RequestsInv
  BY DEF SchedulerInv, PoolInv
<1>2. PICK hits \in 0 .. CacheableBlocks(r) :
        /\ Len(block_table'[r]) = Len(block_table[r]) + hits
        /\ hits = 0 \/ block_table[r] = << >>
  BY <1>1, LookupTables
<1>3. /\ CacheableBlocks(r) \in Nat /\ PromptLen(r) \in Nat \ {0}
      /\ num_tokens[r] \in Nat /\ PromptLen(r) <= num_tokens[r]
      /\ Len(block_table[r]) \in Nat
  BY <1>1, PrefixKeyFacts, RequestFacts DEF RequestsInv
<1>4. CASE hits = 0
  BY <1>2, <1>3, <1>4
<1>5. CASE block_table[r] = << >>
  <2>1. Len(block_table[r]) = 0 /\ hits \in Nat
    BY <1>2, <1>3, <1>5
  <2>2. PromptLen(r) - 1 \in Nat /\ PromptLen(r) - 1 <= num_tokens[r]
    BY <1>3
  <2>3. hits * BlockSize <= PromptLen(r) - 1
    BY <1>2, <2>1, <2>2, BlocksFit DEF CacheableBlocks
  <2>4. hits <= BlocksNeeded(PromptLen(r) - 1)
    BY <2>1, <2>2, <2>3, BlocksNeededFacts
  <2>5. BlocksNeeded(PromptLen(r) - 1) <= quota /\ BlocksNeeded(PromptLen(r) - 1) \in Nat
    BY <2>2, NeedsWithinQuota
  <2> QED
    BY <1>2, <2>1, <2>4, <2>5
<1> QED
  BY <1>2, <1>4, <1>5

\* Steps that move neither tables nor sequences in running_.
LEMMA QuotaFrame ==
  ASSUME NEW quota \in Nat, QuotaInv(quota), UNCHANGED <<status, block_table, running>>,
         Admitting \subseteq Admitting', pc # "release"
  PROVE  QuotaInv(quota)'
  BY DEF QuotaInv

\* Who may hold blocks only changes where somebody is admitted.
LEMMA AddKeepsHead ==
  ASSUME SchedulerTypeOK, NEW r \in Requests, Add(r)
  PROVE  Admitting \subseteq Admitting'
<1> SUFFICES ASSUME waiting # << >>
             PROVE  waiting' # << >> /\ Head(waiting') = Head(waiting)
  BY DEF Add, Admitting
<1>1. waiting \in Seq(Requests) /\ Len(waiting) \in Nat \ {0}
  BY QueueFacts DEF SchedulerTypeOK
<1>2. waiting' = Append(waiting, r)
  BY DEF Add
<1>3. /\ waiting' \in Seq(Requests) /\ Len(waiting') = Len(waiting) + 1
      /\ waiting'[1] = waiting[1]
  BY <1>1, <1>2, AppendProperties
<1>4. waiting' # << >>
  BY <1>1, <1>3, EmptySeq
<1> QED
  BY <1>1, <1>3, <1>4

\* A running sequence asks for blocks.
LEMMA ScheduleRunningKeepsQuota ==
  ASSUME SchedulerInv, NEW quota \in Nat, RoomFor(quota), QuotaInv(quota), ScheduleRunning
  PROVE  QuotaInv(quota)'
<1> DEFINE r == running[cursor]
           target == num_computed_tokens[r] + TokensToSchedule(r)
<1>1. /\ pc = "running" /\ MoreRunning
      /\ EnsureCapacitySucceeds(r, target) \/ EnsureCapacityFails(r, target)
      /\ UNCHANGED <<status, waiting, running, pc>>
  BY DEF ScheduleRunning, queue_vars
<1>2. /\ SchedulerTypeOK /\ TypeOK /\ QueuesPartitionRequests /\ RunningInv
      /\ cursor \in Nat \ {0}
  BY DEF SchedulerInv, PoolInv, SchedulerTypeOK
<1>3. r \in Requests /\ r \in Range(running)
  BY <1>1, <1>2, QueueFacts DEF MoreRunning
<1>4. status[r] = "Running" /\ PendingTokens(r) > 0
  BY <1>1, <1>2, <1>3 DEF QueuesPartitionRequests, RunningInv
<1>5. target \in Nat /\ target <= num_tokens[r]
  <2>1. TokensToSchedule(r) \in 1 .. PendingTokens(r)
    BY <1>1, <1>2, <1>3, <1>4, SomeTokensToSchedule DEF MoreRunning
  <2>2. num_computed_tokens[r] \in Nat /\ num_tokens[r] \in Nat
    BY <1>2, <1>3, RequestFacts
  <2> QED
    BY <2>1, <2>2 DEF PendingTokens
<1> HIDE DEF r, target
<1>6. /\ Len(block_table'[r]) <= quota
      /\ \A q \in Requests : q # r => Len(block_table'[q]) = Len(block_table[q])
  BY <1>1, <1>3, <1>4, <1>5, ReservationWithinQuota DEF QuotaInv
<1>7. TypeOK'
  BY SchedulerInvInductive, <1>1 DEF SchedulerInv, PoolInv, Next, EngineStep
<1>8. \A q \in Requests : q # r /\ block_table'[q] # << >> => block_table[q] # << >>
  BY <1>2, <1>6, <1>7, TableFacts, EmptySeq
<1>9. Range(running)' = Range(running) /\ Admitting' = Admitting
  BY <1>1 DEF Admitting
<1>10. \A q \in Requests : Len(block_table'[q]) <= quota
  BY <1>6 DEF QuotaInv
<1>11. \A q \in Requests : block_table'[q] # << >> => q \in Range(running)' \cup Admitting'
  BY <1>3, <1>8, <1>9 DEF QuotaInv
<1>12. \A q \in Requests : status'[q] = "Finished" => block_table'[q] = << >>
  BY <1>1, <1>4, <1>8 DEF QuotaInv
<1> QED
  BY <1>1, <1>10, <1>11, <1>12 DEF QuotaInv

\* The head of waiting_ gets its cache hits.
LEMMA AdmitFromCacheKeepsQuota ==
  ASSUME SchedulerInv, NEW quota \in Nat, RoomFor(quota), QuotaInv(quota), AdmitFromCache
  PROVE  QuotaInv(quota)'
<1> DEFINE r == Head(waiting)
<1>1. /\ pc = "admit" /\ MayAdmit /\ ApplyPrefixCache(r)
      /\ UNCHANGED <<waiting, running>>
  BY DEF AdmitFromCache, queue_vars
<1>2. SchedulerTypeOK /\ PoolInv /\ QueuesPartitionRequests
  BY DEF SchedulerInv
<1>3. r \in Requests /\ status[r] = "Waiting" /\ r \in Admitting
  BY <1>1, <1>2, QueueFacts DEF MayAdmit, QueuesPartitionRequests, Admitting
<1>4. Admitting' = Admitting /\ Range(running)' = Range(running)
  BY <1>1 DEF Admitting
<1> HIDE DEF r
<1>5. /\ UNCHANGED status
      /\ \A q \in Requests : q # r => block_table'[q] = block_table[q]
  BY <1>1, <1>2, <1>3, LookupLeavesAToken
<1>6. Len(block_table'[r]) <= quota
  BY <1>1, <1>3, LookupWithinQuota DEF QuotaInv
<1>7. \A q \in Requests : Len(block_table'[q]) <= quota
  BY <1>5, <1>6 DEF QuotaInv
<1>8. \A q \in Requests : block_table'[q] # << >> => q \in Range(running)' \cup Admitting'
  BY <1>3, <1>4, <1>5 DEF QuotaInv
<1>9. \A q \in Requests : status'[q] = "Finished" => block_table'[q] = << >>
  BY <1>1, <1>3, <1>5 DEF QuotaInv
<1> QED
  BY <1>1, <1>7, <1>8, <1>9 DEF QuotaInv

\* With room, no reservation of a scheduling step fails, so each step pushes an item.
LEMMA RunningIsScheduled ==
  ASSUME SchedulerInv, NEW quota \in Nat, RoomFor(quota), QuotaInv(quota), ScheduleRunning
  PROVE  items' # << >>
<1> DEFINE r == running[cursor]
           count == TokensToSchedule(r)
           target == num_computed_tokens[r] + count
<1>1. /\ pc = "running" /\ MoreRunning
      /\ \/ EnsureCapacitySucceeds(r, target) /\ PushItem(r, count)
         \/ EnsureCapacityFails(r, target)
  BY DEF ScheduleRunning
<1>2. /\ SchedulerTypeOK /\ TypeOK /\ PoolInv /\ QueuesPartitionRequests /\ RunningInv
      /\ cursor \in Nat \ {0}
  BY DEF SchedulerInv, PoolInv, SchedulerTypeOK
<1>3. r \in Requests /\ r \in Range(running)
  BY <1>1, <1>2, QueueFacts DEF MoreRunning
<1>4. status[r] = "Running" /\ PendingTokens(r) > 0
  BY <1>1, <1>2, <1>3 DEF QueuesPartitionRequests, RunningInv
<1>5. count \in 1 .. PendingTokens(r)
  BY <1>1, <1>2, <1>3, <1>4, SomeTokensToSchedule DEF MoreRunning
<1> HIDE DEF count
<1>6. target \in Nat /\ target <= num_tokens[r] /\ count \in Nat
  <2>1. num_computed_tokens[r] \in Nat /\ num_tokens[r] \in Nat
    BY <1>2, <1>3, RequestFacts
  <2> QED
    BY <1>5, <2>1 DEF PendingTokens
<1> HIDE DEF r, target
<1>7. BlocksNeeded(target) <= quota
  BY <1>3, <1>4, <1>6, NeedsWithinQuota
<1>8. ~ EnsureCapacityFails(r, target)
  BY <1>2, <1>3, <1>6, <1>7, ReservationFits DEF RoomFor
<1>9. PushItem(r, count)
  BY <1>1, <1>8
<1>10. DOMAIN items' = 1 .. Len(items) + 1 /\ Len(items) \in Nat
  BY <1>2, <1>3, <1>6, <1>9, PushItemFacts, QueueFacts
<1> QED
  BY <1>10

LEMMA HeadIsAdmitted ==
  ASSUME SchedulerInv, NEW quota \in Nat, RoomFor(quota), QuotaInv(quota), Admit
  PROVE  LET r == Head(waiting)
             target == num_computed_tokens[r] + TokensToSchedule(r)
         IN  /\ r \in Requests /\ r \in Admitting /\ status[r] = "Waiting"
             /\ waiting # << >> /\ Len(running) < MaxNumSequences
             /\ target \in Nat /\ target <= num_tokens[r]
             /\ EnsureCapacitySucceeds(r, target)
             /\ StartRunning(r)
             /\ pc' = "admit"
             /\ items' # << >>
<1> DEFINE r == Head(waiting)
           count == TokensToSchedule(r)
           target == num_computed_tokens[r] + count
<1>1. /\ pc = "admit_capacity"
      /\ \/ /\ EnsureCapacitySucceeds(r, target) /\ PushItem(r, count)
            /\ StartRunning(r) /\ pc' = "admit"
         \/ EnsureCapacityFails(r, target)
  BY DEF Admit
<1>2. /\ SchedulerTypeOK /\ TypeOK /\ PoolInv /\ QueuesPartitionRequests /\ RequestsInv
      /\ MayAdmit
  BY <1>1 DEF SchedulerInv, PoolInv, StageInv
<1>3. /\ r \in Requests /\ status[r] = "Waiting" /\ r \in Admitting
      /\ waiting # << >> /\ Len(running) < MaxNumSequences /\ ~ BudgetSpent
  BY <1>2, QueueFacts DEF MayAdmit, QueuesPartitionRequests, Admitting
<1>4. PendingTokens(r) > 0
  BY <1>2, <1>3, RequestFacts DEF RequestsInv, PendingTokens
<1>5. count \in 1 .. PendingTokens(r)
  BY <1>2, <1>3, <1>4, SomeTokensToSchedule
<1> HIDE DEF count
<1>6. target \in Nat /\ target <= num_tokens[r] /\ count \in Nat
  <2>1. num_computed_tokens[r] \in Nat /\ num_tokens[r] \in Nat
    BY <1>2, <1>3, RequestFacts
  <2> QED
    BY <1>5, <2>1 DEF PendingTokens
<1> HIDE DEF r, target
<1>7. BlocksNeeded(target) <= quota
  BY <1>3, <1>6, NeedsWithinQuota
<1>8. ~ EnsureCapacityFails(r, target)
  BY <1>2, <1>3, <1>6, <1>7, ReservationFits DEF RoomFor
<1>9. /\ EnsureCapacitySucceeds(r, target) /\ PushItem(r, count)
      /\ StartRunning(r) /\ pc' = "admit"
  BY <1>1, <1>8
<1>10. DOMAIN items' = 1 .. Len(items) + 1 /\ Len(items) \in Nat
  BY <1>2, <1>3, <1>6, <1>9, PushItemFacts, QueueFacts
<1>11. items' # << >>
  BY <1>10
<1> QED
  BY <1>3, <1>6, <1>9, <1>11 DEF r, target, count

\* The head takes its blocks along into running_.
LEMMA AdmitKeepsQuota ==
  ASSUME SchedulerInv, NEW quota \in Nat, RoomFor(quota), QuotaInv(quota), Admit
  PROVE  QuotaInv(quota)'
<1> DEFINE r == Head(waiting)
           target == num_computed_tokens[r] + TokensToSchedule(r)
<1>1. /\ r \in Requests /\ r \in Admitting /\ status[r] = "Waiting"
      /\ waiting # << >> /\ Len(running) < MaxNumSequences
      /\ target \in Nat /\ target <= num_tokens[r]
      /\ EnsureCapacitySucceeds(r, target) /\ StartRunning(r)
  BY HeadIsAdmitted
<1>2. SchedulerTypeOK /\ TypeOK /\ PoolInv /\ QueuesPartitionRequests
  BY DEF SchedulerInv, PoolInv
<1>3. waiting' = Tail(waiting) /\ running' = Append(running, r)
      /\ status' = [status EXCEPT ![r] = "Running"]
  BY <1>1 DEF StartRunning, SetStatus
<1>4. Range(running') = Range(running) \cup {r}
  BY <1>1, <1>2, <1>3, StartRunningMovesHead
<1>5. Admitting = {r}
  BY <1>1 DEF Admitting
<1> HIDE DEF r, target
<1>6. Len(running') <= MaxNumSequences
  <2>1. running \in Seq(Requests) /\ Len(running) \in Nat /\ MaxNumSequences \in Nat
    BY <1>2, QueueFacts, SchedulerAssumption DEF SchedulerTypeOK
  <2>2. Len(running') = Len(running) + 1
    BY <1>1, <1>3, <2>1, AppendProperties
  <2> QED
    BY <1>1, <2>1, <2>2
<1>7. Len(block_table'[r]) <= quota
  BY <1>1, ReservationWithinQuota DEF QuotaInv
<1>8. \A q \in Requests : q # r => block_table'[q] = block_table[q] /\ status'[q] = status[q]
  BY <1>1, <1>2, <1>3, SuccessMakesRoom DEF TypeOK
<1>9. \A q \in Requests : Len(block_table'[q]) <= quota
  BY <1>7, <1>8 DEF QuotaInv
<1>10. \A q \in Requests : block_table'[q] # << >> => q \in Range(running') \cup Admitting'
  BY <1>4, <1>5, <1>8 DEF QuotaInv
<1>11. \A q \in Requests : status'[q] = "Finished" => block_table'[q] = << >>
  <2>1. status'[r] = "Running" /\ pc = "admit_capacity"
    BY <1>1, <1>2, <1>3 DEF TypeOK, Admit
  <2> QED
    BY <1>8, <2>1 DEF QuotaInv
<1> QED
  BY <1>6, <1>9, <1>10, <1>11 DEF QuotaInv

\* A sampled token may finish its sequence, which keeps its blocks until the release.
LEMMA CommitSampleKeepsQuota ==
  ASSUME SchedulerInv, NEW quota \in Nat, QuotaInv(quota), CommitSample
  PROVE  QuotaInv(quota)'
<1> DEFINE r == items[cursor].sequence
<1>1. PICK eos \in BOOLEAN :
        /\ Sample(r, eos)
        /\ IF ShouldFinishAfter(r, num_tokens[r] + 1, eos)
           THEN pc' = "release" /\ UNCHANGED cursor
           ELSE pc' = "commit" /\ cursor' = cursor + 1
  BY DEF CommitSample
<1>2. pc = "sample" /\ UNCHANGED <<waiting, running, items>>
  BY DEF CommitSample, queue_vars, output_vars
<1>3. /\ UNCHANGED block_table
      /\ IF ShouldFinishAfter(r, num_tokens[r] + 1, eos)
         THEN status' = [status EXCEPT ![r] = "Finished"]
         ELSE UNCHANGED status
  BY <1>1 DEF Sample, SetStatus
<1>4. TypeOK
  BY DEF SchedulerInv, PoolInv
<1>5. Admitting' = Admitting /\ Range(running') = Range(running)
  BY <1>2 DEF Admitting
<1>6. CASE ShouldFinishAfter(r, num_tokens[r] + 1, eos)
  <2>1. pc' = "release" /\ items'[cursor'].sequence = r
    BY <1>1, <1>2, <1>6
  <2>2. \A q \in Requests : q # r => status'[q] = status[q]
    BY <1>3, <1>4, <1>6 DEF TypeOK
  <2> HIDE DEF r
  <2>3. \A q \in Requests : status'[q] = "Finished" /\ block_table'[q] # << >> => q = r
    BY <1>2, <1>3, <2>2 DEF QuotaInv
  <2> QED
    BY <1>2, <1>3, <1>5, <2>1, <2>3 DEF QuotaInv
<1>7. CASE ~ ShouldFinishAfter(r, num_tokens[r] + 1, eos)
  BY <1>2, <1>3, <1>5, <1>7, QuotaFrame
<1> QED
  BY <1>6, <1>7

\* ... which gives all of them back.
LEMMA CommitReleaseKeepsQuota ==
  ASSUME SchedulerInv, NEW quota \in Nat, QuotaInv(quota), CommitRelease
  PROVE  QuotaInv(quota)'
<1> DEFINE r == items[cursor].sequence
<1>1. /\ pc = "release" /\ Release(r)
      /\ UNCHANGED <<waiting, running>>
  BY DEF CommitRelease, queue_vars
<1>2. UNCHANGED status /\ block_table' = [block_table EXCEPT ![r] = << >>]
  BY <1>1 DEF Release
<1>3. TypeOK
  BY DEF SchedulerInv, PoolInv
<1>4. Admitting' = Admitting /\ Range(running') = Range(running)
  BY <1>1 DEF Admitting
<1>5. \A q \in Requests : status[q] = "Finished" /\ block_table[q] # << >> => q = r
  BY DEF QuotaInv
<1> HIDE DEF r
<1>6. \A q \in Requests : block_table'[q] = IF q = r THEN << >> ELSE block_table[q]
  BY <1>2, <1>3 DEF TypeOK
<1>7. \A q \in Requests : Len(block_table'[q]) <= quota
  <2>1. Len(<< >>) = 0
    BY EmptySeq
  <2> QED
    BY <1>6, <2>1 DEF QuotaInv
<1> QED
  BY <1>1, <1>2, <1>4, <1>5, <1>6, <1>7 DEF QuotaInv

\* The finished ones, which hold nothing any more, leave running_.
LEMMA EndCommitKeepsQuota ==
  ASSUME SchedulerInv, NEW quota \in Nat, QuotaInv(quota), EndCommit
  PROVE  QuotaInv(quota)'
<1> DEFINE S == {i \in DOMAIN running : running[i] \notin FinishedItems}
<1>1. PICK kept \in Ascending(S) : running' = [i \in DOMAIN kept |-> running[kept[i]]]
  BY DEF EndCommit
<1>2. /\ pc = "commit"
      /\ UNCHANGED <<status, block_table, waiting, known_request_ids>>
  BY DEF EndCommit, bm_vars, sequence_vars
<1>3. /\ SchedulerTypeOK /\ QueuesPartitionRequests /\ RunningInv
      /\ SchedulerTypeOK' /\ QueuesPartitionRequests'
  BY EndCommitPreserves DEF SchedulerInv
<1>4. Len(running') <= Len(running) /\ Len(running) \in Nat /\ Len(running') \in Nat
  <2>1. /\ S \in SUBSET (1 .. Len(running)) /\ Len(running) \in Nat
        /\ Len(running') \in Nat /\ DOMAIN running' = 1 .. Len(running')
    <3>1. Len(running') \in Nat /\ DOMAIN running' = 1 .. Len(running')
      BY <1>3, LenProperties DEF SchedulerTypeOK
    <3> QED
      BY <1>3, <3>1, QueueFacts
  <2>2. kept \in [1 .. Cardinality(S) -> S]
    BY DEF Ascending
  <2> DEFINE n == Len(running)
  <2>3. S \in SUBSET (1 .. n) /\ n \in Nat
    BY <2>1
  <2> HIDE DEF S, n
  <2>4. IsFiniteSet(S) /\ Cardinality(S) <= n
    <3>1. n \in Int /\ 1 \in Int /\ (IF 1 > n THEN 0 ELSE n - 1 + 1) = n
      BY <2>3
    <3>2. IsFiniteSet(1 .. n) /\ Cardinality(1 .. n) = n
      BY <3>1, FS_Interval
    <3> QED
      BY <2>3, <3>2, FS_Subset
  <2>5. Cardinality(S) \in Nat
    BY <2>4, FS_CardinalityType
  <2>6. 1 .. Len(running') = 1 .. Cardinality(S)
    BY <1>1, <2>1, <2>2
  <2>7. Len(running') = Cardinality(S)
    BY <2>1, <2>5, <2>6
  <2> QED
    BY <2>1, <2>4, <2>7 DEF n
<1>5. Len(running') <= MaxNumSequences
  BY <1>4, SchedulerAssumption DEF QuotaInv
<1>6. Admitting \subseteq Admitting'
  BY <1>2, <1>4, SchedulerAssumption DEF Admitting
<1>7. ASSUME NEW q \in Requests, block_table[q] # << >>
      PROVE  q \in Range(running') \cup Admitting'
  <2>1. CASE q \in Admitting
    BY <1>6, <2>1
  <2>2. CASE q \in Range(running)
    <3>1. status[q] # "Finished" /\ q \in known_request_ids
      BY <1>2, <1>3, <1>7, <2>2 DEF QuotaInv, RunningInv
    <3>2. status[q] = "Running"
      BY <1>3, <2>2, <3>1 DEF QueuesPartitionRequests, FinishedItems
    <3>3. q \in Range(waiting') \cup Range(running')
      BY <1>2, <1>3, <3>1 DEF QueuesPartitionRequests
    <3>4. q \notin Range(waiting')
      BY <1>2, <1>3, <3>2 DEF QueuesPartitionRequests
    <3> QED
      BY <3>3, <3>4
  <2> QED
    BY <1>7, <2>1, <2>2 DEF QuotaInv
<1> QED
  BY <1>2, <1>5, <1>7 DEF QuotaInv

LEMMA QuotaInvInductive ==
  ASSUME SchedulerInv, NEW quota \in Nat, RoomFor(quota), QuotaInv(quota), [Next]_vars
  PROVE  QuotaInv(quota)'
<1>1. SchedulerTypeOK
  BY DEF SchedulerInv
<1>2. CASE UNCHANGED vars
  BY <1>2 DEF vars, QuotaInv, Admitting
<1>3. ASSUME NEW r \in Requests, Add(r)
      PROVE  QuotaInv(quota)'
  <2>1. UNCHANGED <<status, block_table, running>> /\ pc # "release"
    BY <1>3 DEF Add, bm_vars, sequence_vars
  <2> QED
    BY <1>1, <1>3, <2>1, AddKeepsHead, QuotaFrame
<1>4. CASE ClearCache \/ StartStep \/ EndRunning \/ EndAdmit \/ NoProgress \/ RunFails
           \/ RunSucceeds \/ CommitItem
  <2>1. UNCHANGED <<status, block_table, waiting, running>> /\ pc # "release"
    BY <1>4 DEF ClearCache, ClearPrefixCache, StartStep, EndRunning, EndAdmit, NoProgress,
                RunFails, RunSucceeds, CommitItem, ComputeTokens, bm_vars, sequence_vars,
                queue_vars
  <2>2. Admitting' = Admitting
    BY <2>1 DEF Admitting
  <2> QED
    BY <2>1, <2>2, QuotaFrame
<1>5. CASE ScheduleRunning
  BY <1>5, ScheduleRunningKeepsQuota
<1>6. CASE AdmitFromCache
  BY <1>6, AdmitFromCacheKeepsQuota
<1>7. CASE Admit
  BY <1>7, AdmitKeepsQuota
<1>8. CASE CommitSample
  BY <1>8, CommitSampleKeepsQuota
<1>9. CASE CommitRelease
  BY <1>9, CommitReleaseKeepsQuota
<1>10. CASE EndCommit
  BY <1>10, EndCommitKeepsQuota
<1> QED
  BY <1>2, <1>3, <1>4, <1>5, <1>6, <1>7, <1>8, <1>9, <1>10 DEF Next, EngineStep, Done

LEMMA StartInvInductive ==
  ASSUME SchedulerInv, NEW quota \in Nat, RoomFor(quota), QuotaInv(quota), StartInv,
         [Next]_vars
  PROVE  StartInv'
<1>1. SchedulerTypeOK /\ StageInv
  BY DEF SchedulerInv
<1>2. items = << >> /\ num_batched_tokens = 0 => ~ ItemsFull /\ ~ BudgetSpent
  <2>1. Len(<< >>) = 0
    BY EmptySeq
  <2> QED
    BY <2>1, SchedulerAssumption DEF ItemsFull, BudgetSpent
<1>3. CASE UNCHANGED vars
  BY <1>3 DEF vars, StartInv, IsFinished
<1>4. ASSUME NEW r \in Requests, Add(r)
      PROVE  StartInv'
  BY <1>4 DEF StartInv, Add, output_vars
<1>5. CASE ClearCache
  BY <1>5 DEF StartInv, ClearCache, output_vars
<1>6. CASE StartStep
  BY <1>1, <1>6 DEF StartInv, StageInv, StartStep, output_vars, queue_vars, IsFinished
<1>7. CASE ScheduleRunning
  <2>1. items' # << >> /\ pc' = "running"
    BY <1>7, RunningIsScheduled DEF ScheduleRunning
  <2> QED
    BY <2>1 DEF StartInv
<1>8. CASE EndRunning
  <2>1. /\ pc = "running" /\ pc' = "admit" /\ ~ MoreRunning
        /\ UNCHANGED <<waiting, running, items, num_batched_tokens>>
    BY <1>8 DEF EndRunning, queue_vars, output_vars
  <2> SUFFICES ASSUME items = << >>
               PROVE  num_batched_tokens = 0 /\ running = << >> /\ waiting # << >>
    BY <2>1 DEF StartInv
  <2>2. num_batched_tokens = 0 /\ cursor = 1 /\ ~ IsFinished
    BY <2>1 DEF StartInv
  <2>3. ~ ItemsFull /\ ~ BudgetSpent
    BY <1>2, <2>2
  <2>4. Len(running) = 0
    BY <1>1, <2>1, <2>2, <2>3, QueueFacts DEF MoreRunning
  <2>5. running = << >>
    BY <1>1, <2>4, EmptySeq DEF SchedulerTypeOK
  <2> QED
    BY <2>2, <2>5 DEF IsFinished
<1>9. CASE AdmitFromCache
  BY <1>9 DEF StartInv, AdmitFromCache, queue_vars, output_vars
<1>10. CASE Admit
  <2>1. items' # << >> /\ pc' = "admit"
    BY <1>10, HeadIsAdmitted
  <2> QED
    BY <2>1 DEF StartInv
<1>11. CASE EndAdmit
  <2>1. pc = "admit" /\ pc' = "model" /\ ~ MayAdmit /\ UNCHANGED items
    BY <1>11 DEF EndAdmit, output_vars
  <2>2. items # << >>
    <3> SUFFICES ASSUME items = << >> PROVE FALSE
      OBVIOUS
    <3>1. num_batched_tokens = 0 /\ running = << >> /\ waiting # << >>
      BY <2>1 DEF StartInv
    <3>2. Len(running) = 0
      BY <3>1, EmptySeq
    <3>3. ~ ItemsFull /\ ~ BudgetSpent /\ Len(running) < MaxNumSequences
      BY <1>2, <3>1, <3>2, SchedulerAssumption
    <3> QED
      BY <2>1, <3>1, <3>3 DEF MayAdmit
  <2> QED
    BY <2>1, <2>2 DEF StartInv
<1>12. CASE NoProgress \/ RunFails \/ EndCommit
  BY <1>12 DEF StartInv, NoProgress, RunFails, EndCommit, EndStep
<1>13. CASE RunSucceeds \/ CommitItem \/ CommitSample \/ CommitRelease
  <2>1. pc' \in {"commit", "sample", "release"}
    BY <1>13 DEF RunSucceeds, CommitItem, CommitSample, CommitRelease
  <2> QED
    BY <2>1 DEF StartInv
<1> QED
  BY <1>3, <1>4, <1>5, <1>6, <1>7, <1>8, <1>9, <1>10, <1>11, <1>12, <1>13
  DEF Next, EngineStep, Done

\* "scheduler made no progress" is never thrown by an engine whose pool holds
\* max_num_sequences requests of the largest need: not after failed runs, not with
\* blocks of shared or evicted prefixes in the cache, not with cache hits left at the
\* head of waiting_.
THEOREM NeverStallsWithRoom ==
  ASSUME NEW quota \in Nat,
         \A r \in Requests : BlocksNeeded(PromptLen(r) + MaxNewTokens[r] - 1) <= quota,
         MaxNumSequences * quota <= NumBlocks
  PROVE  Spec => []NeverStalls
<1>1. RoomFor(quota)
  BY DEF RoomFor
<1>2. Init => QuotaInv(quota) /\ StartInv
  <2> SUFFICES ASSUME Init PROVE QuotaInv(quota) /\ StartInv
    OBVIOUS
  <2>1. /\ \A r \in Requests : status[r] = "Waiting" /\ block_table[r] = << >>
        /\ running = << >> /\ pc = "idle" /\ cursor = 1 /\ num_batched_tokens = 0
    BY DEF Init, BMInit, SequenceInit
  <2>2. Len(<< >>) = 0
    BY EmptySeq
  <2> QED
    BY <2>1, <2>2, SchedulerAssumption DEF QuotaInv, StartInv
<1>3. /\ SchedulerInv /\ QuotaInv(quota) /\ StartInv
      /\ [Next]_vars
      => QuotaInv(quota)' /\ StartInv'
  BY <1>1, QuotaInvInductive, StartInvInductive
<1>4. StartInv => NeverStalls
  BY DEF StartInv, NeverStalls
<1> QED
  BY <1>2, <1>3, <1>4, SchedulerInvariant, PTL DEF Spec

=============================================================================
