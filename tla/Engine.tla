------------------------------- MODULE Engine -------------------------------
(***************************************************************************)
(* The CPU engine (src/mini_vllm/gpt2_engine.hpp) with its model runner    *)
(* (src/mini_vllm/gpt2_model_runner.hpp) and the paged KV cache it writes  *)
(* (src/paged_kv_cache.hpp).                                               *)
(*                                                                         *)
(* Scheduler says which tokens run and where their K/V goes.  This module  *)
(* follows what is IN the cache (module KVCache): a stale, foreign or      *)
(* overwritten slot shows up as Garbage in everything computed from it.    *)
(***************************************************************************)
EXTENDS Scheduler, KVCache

CONSTANT MaxContextLength  \* max_context_length

ASSUME EngineAssumption == MaxContextLength \in Nat \ {0}

VARIABLES
  kv_cache,   \* KVCachePool: kv_cache[page][slot]
  run_state,  \* is run() executing
  micro_step, \* run()'s loop index
  rows,       \* the rows of the current micro batch still to be computed
  sampled     \* sampled_token_ids

runner_vars == <<run_state, micro_step, rows, sampled>>
engine_vars == <<kv_cache, run_state, micro_step, rows, sampled>>
all_vars == <<vars, engine_vars>>

EngineInit ==
  /\ Init
  /\ kv_cache = EmptyKVCache(Blocks)
  /\ run_state = "off"
  /\ micro_step = 0
  /\ rows = {}
  /\ sampled = << >>

----------------------------------------------------------------------------
\* Operators named X_Y are faulty variants of X that the properties must notice.
FitsContext_PromptOnly(r) == PromptLen(r) <= MaxContextLength

\* add_request rejects a request that could outgrow the context: the last
\* generated token is never fed to the model.
FitsContext(r) ==
  /\ PromptLen(r) <= MaxContextLength
  /\ MaxNewTokens[r] - 1 <= MaxContextLength - PromptLen(r)

\* The id is taken before the capacity check, so a rejected request keeps it.
AddRequest_KeepsRejectedId(r) ==
  \/ FitsContext(r) /\ Add(r) /\ UNCHANGED engine_vars
  \/ /\ ~ FitsContext(r) /\ pc = "idle"
     /\ known_request_ids' = known_request_ids \cup {r}
     /\ UNCHANGED <<bm_vars, waiting, running, output_vars, pc, cursor, engine_vars>>

AddRequest(r) ==
  /\ FitsContext(r)
  /\ Add(r)
  /\ UNCHANGED engine_vars

RowsAt(k) == {i \in DOMAIN items : k < items[i].num_scheduled_tokens}

Position(i) == num_computed_tokens[items[i].sequence] + micro_step

BeginRun ==
  /\ pc = "model"
  /\ run_state = "off"
  /\ items # << >>
  /\ run_state' = "on"
  /\ micro_step' = 0
  /\ rows' = RowsAt(0)
  /\ sampled' = [i \in DOMAIN items |-> "none"]
  /\ UNCHANGED <<vars, kv_cache>>

\* The K/V row i computes: right only if it attends to the right history.
ContextIsRight(i) ==
  LET r == items[i].sequence
  IN  HoldsHistory(kv_cache, block_table[r], r, Position(i))

RowResult(i) ==
  IF ContextIsRight(i) THEN KVOf(Prompt[items[i].sequence], Position(i)) ELSE Garbage

SampledRow(i) == Position(i) + 1 = num_tokens[items[i].sequence]

ForwardRow(i) ==
  /\ run_state = "on"
  /\ i \in rows
  /\ LET table == block_table[items[i].sequence]
     IN  kv_cache' = Write(kv_cache, table, Position(i), RowResult(i))
  /\ sampled' = IF SampledRow(i)
                THEN [sampled EXCEPT ![i] = IF ContextIsRight(i) THEN "greedy" ELSE "wrong"]
                ELSE sampled
  /\ rows' = rows \ {i}
  /\ UNCHANGED <<vars, run_state, micro_step>>

NextMicroStep ==
  /\ run_state = "on"
  /\ rows = {}
  /\ RowsAt(micro_step + 1) # {}
  /\ micro_step' = micro_step + 1
  /\ rows' = RowsAt(micro_step + 1)
  /\ UNCHANGED <<vars, kv_cache, run_state, sampled>>

RunReturns ==
  /\ run_state = "on"
  /\ rows = {}
  /\ RowsAt(micro_step + 1) = {}
  /\ RunSucceeds
  /\ run_state' = "off"
  /\ UNCHANGED <<kv_cache, micro_step, rows, sampled>>

\* run() may throw at any point: what it has written stays in the cache.
RunThrows ==
  /\ run_state = "on"
  /\ RunFails
  /\ run_state' = "off"
  /\ micro_step' = 0
  /\ rows' = {}
  /\ sampled' = << >>
  /\ UNCHANGED kv_cache

\* The steps of Scheduler that are not run() do not touch the KV cache.
SchedulerStep ==
  /\ \/ ClearCache \/ StartStep
     \/ ScheduleRunning \/ EndRunning \/ AdmitFromCache \/ Admit \/ EndAdmit
     \/ NoProgress
     \/ CommitItem \/ CommitSample \/ CommitRelease
  /\ UNCHANGED engine_vars

\* step() returns and the samples go out of scope.
FinishStep ==
  /\ EndCommit
  /\ micro_step' = 0
  /\ sampled' = << >>
  /\ UNCHANGED <<kv_cache, run_state, rows>>

EngineDone ==
  /\ pc = "idle"
  /\ IsFinished
  /\ known_request_ids = {r \in Requests : FitsContext(r)}
  /\ UNCHANGED all_vars

EngineNext ==
  \/ \E r \in Requests : AddRequest(r)
  \/ SchedulerStep
  \/ BeginRun
  \/ \E i \in rows : ForwardRow(i)
  \/ NextMicroStep
  \/ RunReturns
  \/ RunThrows
  \/ FinishStep
  \/ EngineDone

EngineSpec == EngineInit /\ [][EngineNext]_all_vars

----------------------------------------------------------------------------
(***************************************************************************)
(* What the engine promises.                                               *)
(***************************************************************************)

\* Every token a sequence counts as computed has its K/V, and no one else's, in the
\* slot its block table names: whether it was computed by this sequence, taken from
\* the prefix cache, or computed again after a failed run, and whatever the block
\* was used for before.
KVCoherent ==
  \A r \in live_sequences :
    HoldsHistory(kv_cache, block_table[r], r, num_computed_tokens[r])

\* Every token handed to commit() is the greedy continuation of its request alone:
\* batching, chunking, sharing, eviction and failed runs do not change outputs.
SamplesAreGreedy == \A i \in DOMAIN sampled : sampled[i] # "wrong"

\* run() never throws out_of_range: no position reaches max_context_length, every
\* position has a block, and no table is wider than the page table.
RunnerInBounds ==
  run_state = "on" =>
    \A i \in rows :
      LET table == block_table[items[i].sequence]
      IN  /\ Position(i) < num_tokens[items[i].sequence]
          /\ Position(i) < MaxContextLength
          /\ Position(i) \div BlockSize < Len(table)
          /\ Len(table) <= BlocksNeeded(MaxContextLength)

\* Seen without its KV cache, the engine is the Scheduler.
EngineImplementsScheduler == Spec

=============================================================================
