------------------------------ MODULE Scheduler ------------------------------
(***************************************************************************)
(* The continuous-batching scheduler (src/mini_vllm/scheduler.hpp) driven   *)
(* by an engine's step loop (src/mini_vllm/gpt2_engine.hpp, and             *)
(* cuda/gpt2_cuda_engine.hpp, whose loop is the same).                     *)
(*                                                                         *)
(* One engine step is schedule(); run(); commit().  pc says where inside   *)
(* the step the engine is, cursor is the loop index of the current loop.   *)
(* The program is single-threaded, so requests arrive, and the cache is    *)
(* cleared, only between steps.  What the model runner computes is left to *)
(* module Engine; here it returns a sample per item or throws.             *)
(***************************************************************************)
EXTENDS BlockManager

CONSTANTS
  MaxNumSequences,     \* SchedulerConfig::max_num_sequences
  MaxNumBatchedTokens  \* SchedulerConfig::max_num_batched_tokens

ASSUME SchedulerAssumption ==
  /\ MaxNumSequences \in Nat \ {0}
  /\ MaxNumBatchedTokens \in Nat \ {0}

VARIABLES
  waiting,            \* waiting_
  running,            \* running_
  known_request_ids,  \* known_request_ids_
  items,              \* SchedulerOutput::items
  num_batched_tokens, \* SchedulerOutput::num_batched_tokens
  pc,
  cursor

queue_vars == <<waiting, running, known_request_ids>>
output_vars == <<items, num_batched_tokens>>
vars == <<status, num_tokens, num_computed_tokens, block_table,
          free_block_ids, ref_count, live_sequences,
          prefix_cache, last_used, cache_clock,
          waiting, running, known_request_ids,
          items, num_batched_tokens, pc, cursor>>

Stages == {"idle",            \* between engine steps
           "running",         \* schedule(): the loop over running_
           "admit",           \* schedule(): the admission loop
           "admit_capacity",  \* ... after apply_prefix_cache on the head
           "model",           \* schedule() returned, run() is executing
           "commit",          \* commit(): the loop over items
           "sample",          \* ... the current item has no pending token
           "release"}         \* ... and its sequence has just finished

ItemType == [sequence : Requests, phase : {"Prefill", "Decode"},
             num_scheduled_tokens : Nat]

Init ==
  /\ BMInit
  /\ waiting = << >>
  /\ running = << >>
  /\ known_request_ids = {}
  /\ items = << >>
  /\ num_batched_tokens = 0
  /\ pc = "idle"
  /\ cursor = 1

\* Operators named X_Y are faulty variants of X that the properties must notice.
IsFinished_NothingWaiting == waiting = << >>

IsFinished == waiting = << >> /\ running = << >>

ItemsFull == Len(items) >= MaxNumSequences
BudgetSpent == num_batched_tokens >= MaxNumBatchedTokens

----------------------------------------------------------------------------
(***************************************************************************)
(* Between steps.                                                          *)
(***************************************************************************)
Add(r) ==
  /\ pc = "idle"
  /\ status[r] = "Waiting"
  /\ r \notin known_request_ids
  /\ known_request_ids' = known_request_ids \cup {r}
  /\ waiting' = Append(waiting, r)
  /\ UNCHANGED <<bm_vars, running, output_vars, pc, cursor>>

ClearCache ==
  /\ pc = "idle"
  /\ ClearPrefixCache
  /\ UNCHANGED <<queue_vars, output_vars, pc, cursor>>

----------------------------------------------------------------------------
(***************************************************************************)
(* schedule()                                                              *)
(***************************************************************************)
StartStep ==
  /\ pc = "idle"
  /\ ~ IsFinished
  /\ pc' = "running"
  /\ UNCHANGED <<bm_vars, queue_vars, output_vars, cursor>>

\* try_schedule gives r this many tokens: all it has pending, within the budget.
TokensToSchedule(r) ==
  LET budget == MaxNumBatchedTokens - num_batched_tokens
  IN  IF PendingTokens(r) <= budget THEN PendingTokens(r) ELSE budget

\* The end of try_schedule, once ensure_capacity has succeeded.
PushItem(r, count) ==
  /\ items' = Append(items,
       [sequence |-> r,
        phase |-> IF IsPrefill(r) THEN "Prefill" ELSE "Decode",
        num_scheduled_tokens |-> count])
  /\ num_batched_tokens' = num_batched_tokens + count

MoreRunning_SkipsLast == cursor < Len(running) /\ ~ ItemsFull /\ ~ BudgetSpent

\* The loop condition over running_: schedule() stops early at either limit.
MoreRunning == cursor <= Len(running) /\ ~ ItemsFull /\ ~ BudgetSpent

\* One iteration.  A sequence that gets no block is passed over, not preempted.
ScheduleRunning ==
  /\ pc = "running"
  /\ MoreRunning
  /\ LET r == running[cursor]
         count == TokensToSchedule(r)
         target == num_computed_tokens[r] + count
     IN  \/ /\ EnsureCapacitySucceeds(r, target)
            /\ PushItem(r, count)
         \/ /\ EnsureCapacityFails(r, target)
            /\ UNCHANGED output_vars
  /\ cursor' = cursor + 1
  /\ UNCHANGED <<status, queue_vars, pc>>

EndRunning ==
  /\ pc = "running"
  /\ ~ MoreRunning
  /\ pc' = "admit"
  /\ UNCHANGED <<bm_vars, queue_vars, output_vars, cursor>>

\* The admission loop's condition.
MayAdmit ==
  /\ waiting # << >>
  /\ Len(running) < MaxNumSequences
  /\ ~ ItemsFull
  /\ ~ BudgetSpent

\* try_schedule on the head of waiting_, first half: the prefix cache.
AdmitFromCache ==
  /\ pc = "admit"
  /\ MayAdmit
  /\ ApplyPrefixCache(Head(waiting))
  /\ pc' = "admit_capacity"
  /\ UNCHANGED <<queue_vars, output_vars, cursor>>

StartRunning_StatusKept(r) ==
  /\ waiting' = Tail(waiting)
  /\ running' = Append(running, r)
  /\ UNCHANGED status

\* The admitted head changes queues.
StartRunning(r) ==
  /\ waiting' = Tail(waiting)
  /\ running' = Append(running, r)
  /\ SetStatus(r, "Running")

\* Second half: blocks for the scheduled tokens.  On success the head moves to
\* running_; on failure admission stops and the head stays where it is, with
\* whatever apply_prefix_cache gave it.
Admit ==
  /\ pc = "admit_capacity"
  /\ LET r == Head(waiting)
         count == TokensToSchedule(r)
         target == num_computed_tokens[r] + count
     IN  \/ /\ EnsureCapacitySucceeds(r, target)
            /\ PushItem(r, count)
            /\ StartRunning(r)
            /\ pc' = "admit"
         \/ /\ EnsureCapacityFails(r, target)
            /\ pc' = "model"
            /\ UNCHANGED <<status, waiting, running, output_vars>>
  /\ UNCHANGED <<known_request_ids, cursor>>

EndAdmit ==
  /\ pc = "admit"
  /\ ~ MayAdmit
  /\ pc' = "model"
  /\ UNCHANGED <<bm_vars, queue_vars, output_vars, cursor>>

----------------------------------------------------------------------------
(***************************************************************************)
(* The rest of the engine step.                                            *)
(***************************************************************************)

\* step() returns or throws: the output goes out of scope.
EndStep ==
  /\ pc' = "idle"
  /\ cursor' = 1
  /\ items' = << >>
  /\ num_batched_tokens' = 0

\* step() throws "scheduler made no progress"; the caller may step again.
NoProgress ==
  /\ pc = "model"
  /\ items = << >>
  /\ EndStep
  /\ UNCHANGED <<bm_vars, queue_vars>>

\* run() throws (a CUDA error, say) and the output is dropped uncommitted.
RunFails ==
  /\ pc = "model"
  /\ items # << >>
  /\ EndStep
  /\ UNCHANGED <<bm_vars, queue_vars>>

RunSucceeds ==
  /\ pc = "model"
  /\ items # << >>
  /\ pc' = "commit"
  /\ cursor' = 1
  /\ UNCHANGED <<bm_vars, queue_vars, output_vars>>

----------------------------------------------------------------------------
(***************************************************************************)
(* commit()                                                                *)
(***************************************************************************)
CommitItem ==
  /\ pc = "commit"
  /\ cursor <= Len(items)
  /\ LET r == items[cursor].sequence
         count == items[cursor].num_scheduled_tokens
     IN  /\ ComputeTokens(r, count)
         /\ IF count < PendingTokens(r)
            THEN pc' = "commit" /\ cursor' = cursor + 1
            ELSE pc' = "sample" /\ UNCHANGED cursor
  /\ UNCHANGED <<queue_vars, output_vars>>

CommitSample ==
  /\ pc = "sample"
  /\ \E eos \in BOOLEAN :
       LET r == items[cursor].sequence
       IN  /\ Sample(r, eos)
           /\ IF ShouldFinishAfter(r, num_tokens[r] + 1, eos)
              THEN pc' = "release" /\ UNCHANGED cursor
              ELSE pc' = "commit" /\ cursor' = cursor + 1
  /\ UNCHANGED <<queue_vars, output_vars>>

CommitRelease ==
  /\ pc = "release"
  /\ Release(items[cursor].sequence)
  /\ pc' = "commit"
  /\ cursor' = cursor + 1
  /\ UNCHANGED <<queue_vars, output_vars>>

\* The sequences commit() put on its finished list.
FinishedItems ==
  {r \in {items[i].sequence : i \in DOMAIN items} : status[r] = "Finished"}

\* Erase those from running_, which keeps its order.
EndCommit ==
  /\ pc = "commit"
  /\ cursor > Len(items)
  /\ \E kept \in Ascending({i \in DOMAIN running : running[i] \notin FinishedItems}) :
       running' = [i \in DOMAIN kept |-> running[kept[i]]]
  /\ EndStep
  /\ UNCHANGED <<bm_vars, waiting, known_request_ids>>

----------------------------------------------------------------------------
\* Every request was submitted and finished: nobody has to step the engine again.
Done ==
  /\ pc = "idle"
  /\ IsFinished
  /\ known_request_ids = Requests
  /\ UNCHANGED vars

EngineStep ==
  \/ StartStep
  \/ ScheduleRunning
  \/ EndRunning
  \/ AdmitFromCache
  \/ Admit
  \/ EndAdmit
  \/ NoProgress
  \/ RunFails
  \/ RunSucceeds
  \/ CommitItem
  \/ CommitSample
  \/ CommitRelease
  \/ EndCommit

Next ==
  \/ \E r \in Requests : Add(r)
  \/ ClearCache
  \/ EngineStep
  \/ Done

Spec == Init /\ [][Next]_vars

(***************************************************************************)
(* Fairness.  The caller keeps stepping an engine that has work, and a     *)
(* step runs to its end (one thread, every loop bounded).  run() may throw *)
(* any number of times, but not for ever.  Nothing makes the caller submit *)
(* a request or clear the cache.                                           *)
(***************************************************************************)
FairSpec ==
  /\ Spec
  /\ WF_vars(EngineStep)
  /\ SF_vars(RunSucceeds)

----------------------------------------------------------------------------
(***************************************************************************)
(* What the scheduler promises.                                            *)
(***************************************************************************)

\* Types of the scheduler's own state.
SchedulerTypeOK ==
  /\ TypeOK
  /\ waiting \in Seq(Requests)
  /\ running \in Seq(Requests)
  /\ known_request_ids \in SUBSET Requests
  /\ items \in Seq(ItemType)
  /\ num_batched_tokens \in Nat
  /\ pc \in Stages
  /\ cursor \in Nat \ {0}

\* Items not committed yet.
OpenItems ==
  {i \in DOMAIN items : pc \in {"commit", "sample", "release"} => i >= cursor}

\* A request is in one queue at most and once at most, and where it is agrees with
\* its status: waiting_ holds the Waiting ones, running_ the Running ones (plus,
\* inside commit(), those that just finished), and a finished one is in neither.
QueuesPartitionRequests ==
  /\ IsInjective(waiting) /\ IsInjective(running)
  /\ \A r \in Range(waiting) : status[r] = "Waiting" /\ r \in known_request_ids
  /\ \A r \in Range(running) :
       \/ status[r] = "Running"
       \/ pc \in {"commit", "sample", "release"} /\ r \in FinishedItems
  /\ \A r \in known_request_ids :
       status[r] # "Finished" => r \in Range(waiting) \cup Range(running)

\* Every item that is still to run or to commit is backed by blocks for all its
\* tokens, is held by a running sequence, and computes no token the sequence lacks:
\* nothing later in schedule() (another item's evictions, another head's cache
\* hits) takes anything away from it.
ItemsBacked ==
  \A i \in OpenItems :
    LET r == items[i].sequence
        count == items[i].num_scheduled_tokens
    IN  pc # "release" \/ i > cursor =>
          /\ r \in Range(running)
          /\ count > 0
          /\ pc # "sample" \/ i > cursor =>
               /\ count <= PendingTokens(r)
               /\ num_computed_tokens[r] + count <= Len(block_table[r]) * BlockSize
               /\ items[i].phase = (IF IsPrefill(r) THEN "Prefill" ELSE "Decode")

\* A sequence of running_ or waiting_ always has a token to feed to the model when
\* schedule() looks at it, and the finished one has blocks to release: the
\* exceptions of try_schedule and release are never thrown.
NoLogicError ==
  /\ \A r \in Range(waiting) : PendingTokens(r) > 0
  /\ \A r \in Range(running) :
       pc \notin {"sample", "release", "commit"} => PendingTokens(r) > 0
  /\ pc = "sample" => PendingTokens(items[cursor].sequence) = 0
  /\ pc = "release" =>
       /\ items[cursor].sequence \in live_sequences
       /\ block_table[items[cursor].sequence] # << >>

\* The calling discipline BlockManager asks for is kept, so all it promises holds.
SchedulerUsesPoolAsSpecified == BMSpec

Served == INSTANCE Serving WITH
  phase <- [r \in Requests |->
              IF r \notin known_request_ids THEN "unknown"
              ELSE IF status[r] = "Finished" THEN "finished" ELSE "accepted"],
  generated <- [r \in Requests |-> num_tokens[r] - PromptLen(r)]

\* Through all batching, waiting, failing and retrying, a request's tokens come one
\* at a time, none is lost or repeated, and none follows the one that finishes it.
SchedulerImplementsServing == Served!Spec

\* With room for max_num_sequences requests of any size, step() never throws
\* "scheduler made no progress".
NeverStalls == pc = "model" => items # << >>

\* ... and every request that was submitted is finished.
EveryRequestFinishes ==
  \A r \in Requests : r \in known_request_ids ~> status[r] = "Finished"

\* What doc/task_08_prefix_cache_zh.md:684 says of a cached page that is referenced
\* more than once: an ACTIVE sequence is reading it through its block table.
PinnedBlocksHaveActiveReader ==
  pc = "idle" =>
    \A k \in PrefixKeys : IsCached(k) /\ ref_count[prefix_cache[k]] >= 2 =>
      \E r \in Range(running) : r \in Holders(prefix_cache[k])

=============================================================================
