----------------------------- MODULE EngineProofs -----------------------------
(***************************************************************************)
(* Proofs about Engine: that it is Scheduler when the KV cache is not       *)
(* looked at, and that the KV cache always holds what the block tables say. *)
(*                                                                         *)
(* KVCoherent is not inductive.  A lookup hands a waiting request blocks   *)
(* that nobody may be reading, so the cached blocks have to be followed    *)
(* too; and a run writes ahead of what its sequences count as computed, so *)
(* the invariant says how far each row of the batch has come.              *)
(***************************************************************************)
EXTENDS Engine, SchedulerProofs

KVValues == (Seq(Nat) \X Nat) \cup {Garbage}

\* What a sequence has computed has blocks, and it has no block too many.
RoomInv ==
  \A r \in Requests :
    /\ PromptLen(r) <= num_tokens[r]
    /\ status[r] # "Finished" \/ block_table[r] # << >> =>
         num_computed_tokens[r] <= Len(block_table[r]) * BlockSize
    /\ Len(block_table[r]) <= BlocksNeeded(num_tokens[r])

\* A cached block holds the K/V of the tokens of its key.
CachedKVCoherent ==
  \A r \in Requests : \A j \in 1 .. CacheableBlocks(r) :
    IsCached(PrefixKey(r, j)) =>
      \A p \in Nat : p \div BlockSize = j - 1 =>
        kv_cache[prefix_cache[PrefixKey(r, j)]][SlotForToken(p)] = KVOf(PrefixKey(r, j), p)

KVInv ==
  /\ kv_cache \in [Blocks -> [Slots -> KVValues]]
  /\ KVCoherent
  /\ CachedKVCoherent

\* How many tokens of item i's sequence have their K/V in the cache.
Written(i) ==
  LET start == num_computed_tokens[items[i].sequence]
  IN  IF micro_step < items[i].num_scheduled_tokens
      THEN IF i \in rows THEN start + micro_step ELSE start + micro_step + 1
      ELSE start + items[i].num_scheduled_tokens

ItemHolds(i, n) ==
  HoldsHistory(kv_cache, block_table[items[i].sequence], items[i].sequence, n)

RunInv ==
  /\ run_state \in {"on", "off"} /\ micro_step \in Nat
  /\ \A i \in DOMAIN sampled : sampled[i] # "wrong"
  /\ run_state = "on" =>
       /\ pc = "model" /\ items # << >>
       /\ rows \subseteq RowsAt(micro_step)
       /\ \A i \in DOMAIN items : ItemHolds(i, Written(i))
  /\ pc \in {"commit", "sample", "release"} =>
       \A i \in Untouched :
         ItemHolds(i, num_computed_tokens[items[i].sequence] + items[i].num_scheduled_tokens)

\* Only requests that fit the context are taken.
ContextInv == \A r \in known_request_ids : FitsContext(r)

EngineInv ==
  /\ SchedulerInv
  /\ RoomInv
  /\ KVInv
  /\ RunInv
  /\ ContextInv

----------------------------------------------------------------------------
(***************************************************************************)
(* The engine is the scheduler.                                            *)
(***************************************************************************)

LEMMA StepsAreSchedulerSteps ==
  ASSUME [EngineNext]_all_vars
  PROVE  [Next]_vars
<1>1. CASE UNCHANGED all_vars
  BY <1>1 DEF all_vars
<1>2. ASSUME NEW r \in Requests, AddRequest(r)
      PROVE  Next
  BY <1>2 DEF AddRequest, Next
<1>3. CASE SchedulerStep
  BY <1>3 DEF SchedulerStep, Next, EngineStep
<1>4. CASE BeginRun
  BY <1>4 DEF BeginRun
<1>5. ASSUME NEW i \in rows, ForwardRow(i)
      PROVE  UNCHANGED vars
  BY <1>5 DEF ForwardRow
<1>6. CASE NextMicroStep
  BY <1>6 DEF NextMicroStep
<1>7. CASE RunReturns
  BY <1>7 DEF RunReturns, Next, EngineStep
<1>8. CASE RunThrows
  BY <1>8 DEF RunThrows, Next, EngineStep
<1>9. CASE FinishStep
  BY <1>9 DEF FinishStep, Next, EngineStep
<1>10. CASE EngineDone
  BY <1>10 DEF EngineDone, all_vars
<1> QED
  BY <1>1, <1>2, <1>3, <1>4, <1>5, <1>6, <1>7, <1>8, <1>9, <1>10 DEF EngineNext

\* Forget what is in the KV cache, and the engine's runs (gpt2_engine.hpp) are runs of
\* the scheduler: run() succeeds or throws, and changes nothing the scheduler sees.
THEOREM EngineIsScheduler == EngineSpec => EngineImplementsScheduler
<1>1. EngineInit => Init
  BY DEF EngineInit
<1>2. [EngineNext]_all_vars => [Next]_vars
  BY StepsAreSchedulerSteps
<1> QED
  BY <1>1, <1>2, PTL DEF EngineSpec, EngineImplementsScheduler, Spec

----------------------------------------------------------------------------
(***************************************************************************)
(* Keys and the K/V under them.                                            *)
(***************************************************************************)

\* The tokens of a cacheable block's key are the prompt's.
LEMMA KeyKV ==
  ASSUME NEW r \in Requests, NEW j \in 1 .. CacheableBlocks(r),
         NEW p \in Nat, p < j * BlockSize
  PROVE  KVOf(PrefixKey(r, j), p) = KVOf(Prompt[r], p)
<1>1. /\ j * BlockSize <= PromptLen(r) /\ j * BlockSize \in Nat
      /\ Len(PrefixKey(r, j)) = j * BlockSize
      /\ PromptLen(r) \in Nat \ {0} /\ PromptLen(r) = Len(Prompt[r])
      /\ Prompt[r] \in Seq(Nat)
  BY PrefixKeyFacts, BlockManagerAssumption, SequenceAssumption DEF PromptLen
<1>2. SubSeq(PrefixKey(r, j), 1, p + 1) = SubSeq(Prompt[r], 1, p + 1)
  <2>1. /\ 1 \in 1 .. Len(Prompt[r]) /\ j * BlockSize \in 1 .. Len(Prompt[r])
        /\ 1 \in 1 .. j * BlockSize - 1 + 1
        /\ p + 1 \in 1 .. j * BlockSize - 1 + 1
    BY <1>1
  <2>2. SubSeq(SubSeq(Prompt[r], 1, j * BlockSize), 1, p + 1)
          = SubSeq(Prompt[r], 1 + 1 - 1, 1 + (p + 1) - 1)
    BY <1>1, <2>1, SubSeqOfSubSeq
  <2>3. 1 + 1 - 1 = 1 /\ 1 + (p + 1) - 1 = p + 1
    OBVIOUS
  <2> QED
    BY <2>2, <2>3 DEF PrefixKey
<1> QED
  BY <1>1, <1>2 DEF KVOf

LEMMA KVOfType ==
  ASSUME NEW r \in Requests, NEW p \in Nat
  PROVE  KVOf(Prompt[r], p) \in KVValues
<1>1. Prompt[r] \in Seq(Nat) /\ Len(Prompt[r]) \in Nat
  BY SequenceAssumption, LenProperties
<1>2. ASSUME p < Len(Prompt[r])
      PROVE  SubSeq(Prompt[r], 1, p + 1) \in Seq(Nat)
  <2>1. \A i \in 1 .. p + 1 : Prompt[r][i] \in Nat
    BY <1>1, <1>2, ElementOfSeq
  <2> QED
    BY <2>1, SubSeqProperties
<1> QED
  BY <1>1, <1>2 DEF KVOf, KVValues

----------------------------------------------------------------------------
(***************************************************************************)
(* Computed tokens always have blocks.                                     *)
(***************************************************************************)

\* What a reservation does to the tables.
LEMMA ReserveTables ==
  ASSUME PoolInv, NEW r \in Requests, NEW tokens \in Nat, Reserve(r, tokens)
  PROVE  /\ UNCHANGED <<num_tokens, num_computed_tokens>>
         /\ \A q \in Requests : Len(block_table[q]) <= Len(block_table'[q])
         /\ \A q \in Requests : q # r => Len(block_table'[q]) = Len(block_table[q])
         /\ \/ Len(block_table'[r]) = Len(block_table[r])
            \/ Len(block_table'[r]) = BlocksNeeded(tokens)
         /\ \A q \in Requests : status'[q] = "Finished" <=> status[q] = "Finished"
<1>1. TypeOK
  BY DEF PoolInv
<1>2. \A q \in Requests : status'[q] = "Finished" <=> status[q] = "Finished"
  BY <1>1 DEF Reserve, SetStatus, TypeOK
<1>3. CASE EnsureCapacitySucceeds(r, tokens)
  BY <1>2, <1>3, SuccessMakesRoom
<1>4. CASE EnsureCapacityFails(r, tokens)
  BY <1>1, <1>2, <1>4, FailureKeepsTables, TableFacts
<1> QED
  BY <1>3, <1>4 DEF Reserve

LEMMA RoomInvInductive ==
  ASSUME PoolInv, RoomInv, [BMNext]_bm_vars
  PROVE  RoomInv'
<1>1. TypeOK /\ PoolInv' /\ TypeOK'
  BY PoolInvInductive DEF PoolInv
<1> DEFINE Room(q) ==
      /\ PromptLen(q) <= num_tokens[q]
      /\ status[q] # "Finished" \/ block_table[q] # << >> =>
           num_computed_tokens[q] <= Len(block_table[q]) * BlockSize
      /\ Len(block_table[q]) <= BlocksNeeded(num_tokens[q])
<1>2. \A q \in Requests : Room(q)
  BY DEF RoomInv
<1>3. \A q \in Requests :
        /\ num_tokens[q] \in Nat /\ num_computed_tokens[q] \in Nat
        /\ Len(block_table[q]) \in Nat /\ PromptLen(q) \in Nat
        /\ Len(block_table[q]) * BlockSize \in Nat
        /\ block_table[q] # << >> <=> Len(block_table[q]) # 0
        /\ BlocksNeeded(num_tokens[q]) \in Nat
  <2> SUFFICES ASSUME NEW q \in Requests
               PROVE  /\ num_tokens[q] \in Nat /\ num_computed_tokens[q] \in Nat
                      /\ Len(block_table[q]) \in Nat /\ PromptLen(q) \in Nat
                      /\ Len(block_table[q]) * BlockSize \in Nat
                      /\ block_table[q] # << >> <=> Len(block_table[q]) # 0
                      /\ BlocksNeeded(num_tokens[q]) \in Nat
    OBVIOUS
  <2>1. /\ num_tokens[q] \in Nat /\ num_computed_tokens[q] \in Nat
        /\ Len(block_table[q]) \in Nat /\ PromptLen(q) \in Nat
        /\ block_table[q] \in Seq(Blocks)
    BY <1>1, RequestFacts, TableFacts
  <2>2. block_table[q] # << >> <=> Len(block_table[q]) # 0
    BY <2>1, EmptySeq
  <2>3. Len(block_table[q]) * BlockSize \in Nat
    BY <2>1, BlocksHoldPositions
  <2>4. BlocksNeeded(num_tokens[q]) \in Nat
    BY <2>1, BlocksNeededNat
  <2> QED
    BY <2>1, <2>2, <2>3, <2>4
<1>4. \A q \in Requests :
        /\ num_tokens'[q] \in Nat /\ num_computed_tokens'[q] \in Nat
        /\ Len(block_table'[q]) \in Nat /\ Len(block_table'[q]) * BlockSize \in Nat
        /\ block_table'[q] # << >> <=> Len(block_table'[q]) # 0
  BY <1>1, TableFacts, EmptySeq, BlockManagerAssumption DEF TypeOK
<1> SUFFICES ASSUME NEW q \in Requests
             PROVE  Room(q)'
  BY DEF RoomInv
<1>5. ASSUME NEW r \in Requests, TryApplyPrefixCache(r)
      PROVE  Room(q)'
  <2>1. /\ UNCHANGED <<status, num_tokens>> /\ ApplyPrefixCache(r)
        /\ \A x \in Requests : x # r =>
             num_computed_tokens'[x] = num_computed_tokens[x] /\ block_table'[x] = block_table[x]
    BY <1>5, LookupLeavesAToken DEF TryApplyPrefixCache
  <2>2. PICK hits \in 0 .. CacheableBlocks(r) :
          /\ Len(block_table'[r]) = Len(block_table[r]) + hits
          /\ num_computed_tokens'[r] = num_computed_tokens[r] + hits * BlockSize
          /\ hits = 0 \/ (block_table[r] = << >> /\ num_computed_tokens[r] = 0)
    BY <2>1, LookupTables
  <2>3. CASE q # r
    BY <1>2, <2>1, <2>3
  <2>4. CASE q = r /\ hits = 0
    <3>1. Len(block_table'[r]) = Len(block_table[r]) /\ num_computed_tokens'[r] = num_computed_tokens[r]
      BY <1>3, <2>2, <2>4, BlockManagerAssumption
    <3>2. status[r] # "Finished"
      BY <1>5 DEF TryApplyPrefixCache
    <3> QED
      BY <1>2, <2>1, <2>4, <3>1, <3>2
  <2>5. CASE q = r /\ hits # 0
    <3>1. /\ Len(block_table'[r]) = hits /\ num_computed_tokens'[r] = hits * BlockSize
          /\ hits \in Nat /\ hits * BlockSize \in Nat
      <4>1. Len(block_table[r]) = 0 /\ num_computed_tokens[r] = 0
        BY <1>3, <2>2, <2>5
      <4>2. hits \in Nat /\ hits * BlockSize \in Nat
        BY <2>2, PrefixKeyFacts, BlockManagerAssumption
      <4> QED
        BY <2>2, <4>1, <4>2
    <3>2. hits <= BlocksNeeded(num_tokens[r])
      <4>1. hits \in 1 .. CacheableBlocks(r)
        BY <2>2, <2>5, PrefixKeyFacts
      <4>2. hits * BlockSize <= PromptLen(r)
        BY <4>1, PrefixKeyFacts
      <4>3. hits * BlockSize <= num_tokens[r]
        BY <1>2, <1>3, <3>1, <4>2
      <4> QED
        BY <1>3, <3>1, <4>3, BlocksNeededFacts
    <3> QED
      BY <1>2, <2>1, <2>5, <3>1, <3>2
  <2> QED
    BY <2>3, <2>4, <2>5
<1>6. ASSUME NEW r \in Requests, NEW tokens \in 1 .. num_tokens[r], Reserve(r, tokens)
      PROVE  Room(q)'
  <2>0. tokens \in Nat /\ tokens <= num_tokens[r]
    BY <1>3
  <2>1. /\ UNCHANGED <<num_tokens, num_computed_tokens>>
        /\ Len(block_table[q]) <= Len(block_table'[q])
        /\ q # r => Len(block_table'[q]) = Len(block_table[q])
        /\ \/ Len(block_table'[r]) = Len(block_table[r])
           \/ Len(block_table'[r]) = BlocksNeeded(tokens)
        /\ status'[q] = "Finished" <=> status[q] = "Finished"
    BY <1>6, <2>0, ReserveTables
  <2>2. Len(block_table'[q]) <= BlocksNeeded(num_tokens[q])
    <3>1. BlocksNeeded(tokens) <= BlocksNeeded(num_tokens[r])
      BY <1>3, <2>0, BlocksNeededFacts
    <3> QED
      BY <1>2, <2>1, <3>1
  <2>3. Len(block_table[q]) * BlockSize <= Len(block_table'[q]) * BlockSize
    BY <1>3, <1>4, <2>1, MoreBlocksMoreRoom
  <2>4. status[q] # "Finished" \/ block_table'[q] # << >> =>
           num_computed_tokens[q] <= Len(block_table'[q]) * BlockSize
    <3>1. q = r => status[q] # "Finished"
      BY <1>6 DEF Reserve
    <3>2. block_table'[q] # << >> /\ q # r => block_table[q] # << >>
      BY <1>3, <1>4, <2>1
    <3> QED
      BY <1>2, <1>3, <1>4, <2>3, <3>1, <3>2
  <2> QED
    BY <1>2, <2>1, <2>2, <2>4
<1>7. ASSUME NEW r \in Requests, NEW count \in 1 .. PendingTokens(r), Compute(r, count)
      PROVE  Room(q)'
  <2>1. /\ UNCHANGED <<status, num_tokens, block_table>>
        /\ num_computed_tokens' = [num_computed_tokens EXCEPT ![r] = @ + count]
        /\ num_computed_tokens[r] + count <= Len(block_table[r]) * BlockSize
    BY <1>7 DEF Compute, ComputeTokens, MarkComputed
  <2> QED
    BY <1>1, <1>2, <2>1 DEF TypeOK
<1>8. ASSUME NEW r \in Requests, NEW eos \in BOOLEAN, Generate(r, eos)
      PROVE  Room(q)'
  <2>1. /\ UNCHANGED <<num_computed_tokens, block_table>>
        /\ num_tokens' = [num_tokens EXCEPT ![r] = @ + 1]
        /\ status[r] = "Running"
        /\ status' = [status EXCEPT ![r] = "Finished"] \/ UNCHANGED status
    BY <1>8 DEF Generate, Sample, AppendToken, SetStatus
  <2>2. num_tokens[q] <= num_tokens'[q]
    BY <1>1, <1>3, <2>1 DEF TypeOK
  <2>3. BlocksNeeded(num_tokens[q]) <= BlocksNeeded(num_tokens'[q])
        /\ BlocksNeeded(num_tokens'[q]) \in Nat
    BY <1>3, <1>4, <2>2, BlocksNeededFacts
  <2>4. PromptLen(q) <= num_tokens'[q]
    BY <1>2, <1>3, <1>4, <2>2
  <2>5. Len(block_table'[q]) <= BlocksNeeded(num_tokens'[q])
    BY <1>2, <1>3, <2>1, <2>3
  <2>6. status'[q] # "Finished" => status[q] # "Finished"
    BY <1>1, <2>1 DEF TypeOK
  <2> QED
    BY <1>2, <2>1, <2>4, <2>5, <2>6
<1>9. ASSUME NEW r \in Requests, Retire(r)
      PROVE  Room(q)'
  <2>1. /\ UNCHANGED <<status, num_tokens, num_computed_tokens>>
        /\ status[r] = "Finished" /\ block_table' = [block_table EXCEPT ![r] = << >>]
    BY <1>9 DEF Retire, Release
  <2>2. CASE q = r
    <3>1. block_table'[q] = << >> /\ Len(block_table'[q]) = 0
      BY <1>1, <1>4, <2>1, <2>2 DEF TypeOK
    <3> QED
      BY <1>2, <1>3, <2>1, <2>2, <3>1
  <2>3. CASE q # r
    <3>1. block_table'[q] = block_table[q]
      BY <1>1, <2>1, <2>3 DEF TypeOK
    <3> QED
      BY <1>2, <2>1, <3>1
  <2> QED
    BY <2>2, <2>3
<1>10. CASE ClearPrefixCache \/ UNCHANGED bm_vars
  BY <1>2, <1>10 DEF ClearPrefixCache, sequence_vars, bm_vars
<1> QED
  BY <1>5, <1>6, <1>7, <1>8, <1>9, <1>10 DEF BMNext

----------------------------------------------------------------------------
(***************************************************************************)
(* The cache keeps what it holds while the pool's tables change.           *)
(***************************************************************************)

\* Nothing is computed, nothing is shared anew: tables grow or are given up, entries
\* stay or go.
LEMMA KVWithoutNewData ==
  ASSUME PoolInv, PoolInv', RoomInv, KVInv, UNCHANGED <<num_computed_tokens, kv_cache>>,
         \A k \in PrefixKeys : prefix_cache'[k] = prefix_cache[k] \/ prefix_cache'[k] = NoBlock,
         TablesGrow,
         \A q \in Requests : status[q] = "Finished" /\ block_table[q] = << >> =>
           block_table'[q] = << >>
  PROVE  KVInv'
<1>1. TypeOK /\ LiveIffHolding /\ TypeOK' /\ LiveIffHolding'
  BY DEF PoolInv
<1>2. CachedKVCoherent'
  <2> SUFFICES ASSUME NEW q \in Requests, NEW j \in 1 .. CacheableBlocks(q),
                      IsCached(PrefixKey(q, j))',
                      NEW p \in Nat, p \div BlockSize = j - 1
               PROVE  kv_cache'[prefix_cache'[PrefixKey(q, j)]][SlotForToken(p)]
                        = KVOf(PrefixKey(q, j), p)
    BY DEF CachedKVCoherent
  <2>1. prefix_cache'[PrefixKey(q, j)] = prefix_cache[PrefixKey(q, j)]
        /\ IsCached(PrefixKey(q, j))
    BY PrefixKeyFacts DEF IsCached
  <2> QED
    BY <2>1 DEF KVInv, CachedKVCoherent
<1>3. KVCoherent'
  <2> SUFFICES ASSUME NEW q \in live_sequences'
               PROVE  HoldsHistory(kv_cache, block_table'[q], q, num_computed_tokens[q])
    BY DEF KVCoherent
  <2>1. q \in Requests /\ block_table'[q] # << >>
    BY <1>1 DEF LiveIffHolding
  <2>2. num_computed_tokens[q] \in Nat /\ block_table[q] \in Seq(Blocks)
    BY <1>1, <2>1 DEF TypeOK
  <2>3. num_computed_tokens[q] <= Len(block_table[q]) * BlockSize
    BY <2>1 DEF RoomInv
  <2>4. \A i \in DOMAIN block_table[q] : block_table'[q][i] = block_table[q][i]
    BY <2>1 DEF TablesGrow
  <2>5. HoldsHistory(kv_cache, block_table[q], q, num_computed_tokens[q])
    <3>1. CASE block_table[q] = << >>
      <4>1. num_computed_tokens[q] = 0
        BY <2>2, <2>3, <3>1, EmptySeq, BlockManagerAssumption
      <4> QED
        BY <4>1 DEF HoldsHistory
    <3>2. CASE block_table[q] # << >>
      BY <1>1, <2>1, <3>2 DEF LiveIffHolding, KVInv, KVCoherent
    <3> QED
      BY <3>1, <3>2
  <2> QED
    BY <2>1, <2>2, <2>3, <2>4, <2>5, HistoryKept
<1> QED
  BY <1>2, <1>3 DEF KVInv

\* Steps of the pool's client other than lookups and computations.
LEMMA KVPoolStep ==
  ASSUME PoolInv, RoomInv, KVInv, [BMNext]_bm_vars,
         UNCHANGED <<kv_cache, num_computed_tokens>>
  PROVE  KVInv'
<1>1. TypeOK /\ PoolInv' /\ TypeOK'
  BY PoolInvInductive DEF PoolInv
<1>2. CASE UNCHANGED bm_vars
  <2>1. TablesGrow /\ UNCHANGED <<prefix_cache, block_table>>
    BY <1>2 DEF bm_vars, TablesGrow
  <2> QED
    BY <1>1, <2>1, KVWithoutNewData
<1>3. ASSUME BMNext,
             \A k \in PrefixKeys : prefix_cache'[k] = prefix_cache[k] \/ prefix_cache'[k] = NoBlock,
             \A q \in Requests : status[q] = "Finished" /\ block_table[q] = << >> =>
               block_table'[q] = << >>
      PROVE  KVInv'
  BY <1>1, <1>3, StepsKeepReaders, KVWithoutNewData
<1>4. ASSUME NEW r \in Requests, TryApplyPrefixCache(r)
      PROVE  KVInv'
  <2>1. UNCHANGED prefix_cache /\ ApplyPrefixCache(r) /\ status[r] = "Waiting"
    BY <1>4 DEF TryApplyPrefixCache, ApplyPrefixCache
  <2>2. \A q \in Requests : q # r => block_table'[q] = block_table[q]
    BY <2>1, LookupLeavesAToken
  <2> QED
    BY <1>3, <1>4, <2>1, <2>2 DEF BMNext
<1>5. ASSUME NEW r \in Requests, NEW tokens \in 1 .. num_tokens[r], Reserve(r, tokens)
      PROVE  KVInv'
  <2>1. \A k \in PrefixKeys : prefix_cache'[k] = prefix_cache[k] \/ prefix_cache'[k] = NoBlock
    BY <1>5 DEF Reserve, EnsureCapacitySucceeds, EnsureCapacityFails, EvictAndAllocate
  <2>2. status[r] # "Finished" /\ tokens \in Nat
    BY <1>1, <1>5 DEF Reserve, TypeOK
  <2>3. \A q \in Requests : q # r => Len(block_table'[q]) = Len(block_table[q])
    BY <1>5, <2>2, ReserveTables
  <2>4. \A q \in Requests : status[q] = "Finished" /\ block_table[q] = << >> =>
          block_table'[q] = << >>
    BY <1>1, <2>2, <2>3, TableFacts, EmptySeq DEF TypeOK
  <2> QED
    BY <1>3, <1>5, <2>1, <2>4 DEF BMNext
<1>6. ASSUME NEW r \in Requests, NEW count \in 1 .. PendingTokens(r), Compute(r, count)
      PROVE  FALSE
  <2>1. num_computed_tokens'[r] = num_computed_tokens[r] + count
    BY <1>1, <1>6 DEF Compute, ComputeTokens, MarkComputed, TypeOK
  <2>2. num_computed_tokens[r] \in Nat /\ PendingTokens(r) \in Int
    BY <1>1, RequestFacts
  <2> QED
    BY <2>1, <2>2
<1>7. ASSUME NEW r \in Requests, NEW eos \in BOOLEAN, Generate(r, eos)
      PROVE  KVInv'
  <2>1. UNCHANGED <<prefix_cache, block_table>>
    BY <1>7 DEF Generate, Sample, pool_vars
  <2> QED
    BY <1>3, <1>7, <2>1 DEF BMNext
<1>8. ASSUME NEW r \in Requests, Retire(r)
      PROVE  KVInv'
  <2>1. UNCHANGED prefix_cache /\ block_table' = [block_table EXCEPT ![r] = << >>]
    BY <1>8 DEF Retire, Release
  <2>2. \A q \in Requests : block_table[q] = << >> => block_table'[q] = << >>
    BY <1>1, <2>1 DEF TypeOK
  <2> QED
    BY <1>3, <1>8, <2>1, <2>2 DEF BMNext
<1>9. CASE ClearPrefixCache
  <2>1. /\ \A k \in PrefixKeys : prefix_cache'[k] = NoBlock
        /\ UNCHANGED block_table
    BY <1>9 DEF ClearPrefixCache, sequence_vars
  <2> QED
    BY <1>3, <1>9, <2>1 DEF BMNext
<1> QED
  BY <1>2, <1>4, <1>5, <1>6, <1>7, <1>8, <1>9 DEF BMNext

\* A lookup gives a waiting request blocks that hold exactly the tokens it counts as
\* computed from then on.
LEMMA KVLookup ==
  ASSUME PoolInv, RoomInv, KVInv, NEW r \in Requests, TryApplyPrefixCache(r),
         UNCHANGED kv_cache
  PROVE  KVInv'
<1>1. /\ TypeOK /\ LiveIffHolding /\ PoolInv' /\ TypeOK' /\ LiveIffHolding'
      /\ ApplyPrefixCache(r) /\ UNCHANGED prefix_cache
  <2>1. BMNext /\ ApplyPrefixCache(r) /\ UNCHANGED prefix_cache
    BY DEF BMNext, TryApplyPrefixCache, ApplyPrefixCache
  <2> QED
    BY <2>1, PoolInvInductive DEF PoolInv
<1>2. PICK hits \in 0 .. CacheableBlocks(r) :
        /\ Len(block_table'[r]) = Len(block_table[r]) + hits
        /\ num_computed_tokens'[r] = num_computed_tokens[r] + hits * BlockSize
        /\ \A j \in 1 .. hits :
             /\ IsCached(PrefixKey(r, j))
             /\ block_table'[r][Len(block_table[r]) + j] = prefix_cache[PrefixKey(r, j)]
        /\ hits = 0 \/ (block_table[r] = << >> /\ num_computed_tokens[r] = 0)
  BY <1>1, LookupTables
<1>3. \A q \in Requests : q # r =>
        num_computed_tokens'[q] = num_computed_tokens[q] /\ block_table'[q] = block_table[q]
  BY <1>1, LookupLeavesAToken
<1>4. hits \in Nat /\ num_computed_tokens[r] \in Nat /\ hits * BlockSize \in Nat
  BY <1>1, <1>2, PrefixKeyFacts, BlockManagerAssumption DEF TypeOK
<1>5. CASE hits = 0
  <2>1. num_computed_tokens'[r] = num_computed_tokens[r]
    BY <1>2, <1>4, <1>5, BlockManagerAssumption
  <2>2. UNCHANGED num_computed_tokens
    BY <1>1, <1>3, <2>1 DEF TypeOK
  <2>3. BMNext
    BY DEF BMNext
  <2> QED
    BY <2>2, <2>3, KVPoolStep
<1>6. CASE hits # 0
  <2>1. CachedKVCoherent'
    BY <1>1 DEF KVInv, CachedKVCoherent, IsCached
  <2>2. /\ num_computed_tokens'[r] = hits * BlockSize
        /\ \A j \in 1 .. hits : block_table'[r][j] = prefix_cache[PrefixKey(r, j)]
    <3>1. Len(block_table[r]) = 0 /\ num_computed_tokens[r] = 0
      BY <1>2, <1>6, EmptySeq
    <3>2. \A j \in 1 .. hits : 0 + j = j
      OBVIOUS
    <3> QED
      BY <1>2, <1>4, <3>1, <3>2
  <2>3. ASSUME NEW p \in 0 .. num_computed_tokens'[r] - 1
        PROVE  Lookup(kv_cache, block_table'[r], p) = KVOf(Prompt[r], p)
    <3>1. p \in Nat /\ p < hits * BlockSize
      BY <1>4, <2>2
    <3>2. PICK j \in 1 .. hits : j = p \div BlockSize + 1
      <4>1. p \div BlockSize \in Nat /\ p \div BlockSize < hits
        BY <1>4, <3>1, PositionFacts
      <4> QED
        BY <1>4, <4>1
    <3>3. j \in 1 .. CacheableBlocks(r) /\ p \div BlockSize = j - 1 /\ p < j * BlockSize
      <4>1. p \div BlockSize \in Nat /\ j \in Nat
        BY <3>1, <3>2, PositionFacts
      <4>2. p \div BlockSize < j
        BY <3>2, <4>1
      <4>3. p < j * BlockSize
        BY <3>1, <4>1, <4>2, PositionFacts
      <4>4. j \in 1 .. CacheableBlocks(r)
        BY <1>2, PrefixKeyFacts
      <4>5. p \div BlockSize = j - 1
        BY <3>2, <4>1
      <4> QED
        BY <4>3, <4>4, <4>5
    <3>4. Lookup(kv_cache, block_table'[r], p)
            = kv_cache[prefix_cache[PrefixKey(r, j)]][SlotForToken(p)]
      BY <2>2, <3>2 DEF Lookup, PageOf
    <3>5. kv_cache[prefix_cache[PrefixKey(r, j)]][SlotForToken(p)] = KVOf(PrefixKey(r, j), p)
      BY <1>2, <3>1, <3>3 DEF KVInv, CachedKVCoherent
    <3> QED
      BY <3>1, <3>3, <3>4, <3>5, KeyKV
  <2>4. KVCoherent'
    <3> SUFFICES ASSUME NEW q \in live_sequences'
                 PROVE  HoldsHistory(kv_cache, block_table'[q], q, num_computed_tokens'[q])
      BY DEF KVCoherent
    <3>1. CASE q = r
      BY <2>3, <3>1 DEF HoldsHistory
    <3>2. CASE q # r
      BY <1>1, <1>3, <3>2 DEF KVInv, KVCoherent, LiveIffHolding
    <3> QED
      BY <3>1, <3>2
  <2> QED
    BY <2>1, <2>4 DEF KVInv
<1> QED
  BY <1>5, <1>6

\* A computed block is registered with the tokens it holds.
LEMMA KVCompute ==
  ASSUME PoolInv, RoomInv, KVInv, UNCHANGED kv_cache,
         NEW r \in Requests, NEW count \in 1 .. PendingTokens(r), Compute(r, count),
         HoldsHistory(kv_cache, block_table[r], r, num_computed_tokens[r] + count)
  PROVE  KVInv'
<1> DEFINE computed == num_computed_tokens[r] + count
           full == ComputedPrefixBlocks(r, computed)
           fresh == {i \in full : ~ IsCached(PrefixKey(r, i))}
<1>1. /\ UNCHANGED <<block_table, live_sequences>>
      /\ num_computed_tokens' = [num_computed_tokens EXCEPT ![r] = @ + count]
      /\ prefix_cache' = [k \in PrefixKeys |->
           IF \E i \in fresh : k = PrefixKey(r, i)
           THEN block_table[r][CHOOSE i \in fresh : k = PrefixKey(r, i)]
           ELSE prefix_cache[k]]
  BY DEF Compute, ComputeTokens, MarkComputed, CacheComputedPrefixBlocks
<1>2. TypeOK /\ live_sequences \subseteq Requests /\ computed \in Nat
  <2>1. TypeOK
    BY DEF PoolInv
  <2> QED
    BY <2>1, RequestFacts DEF TypeOK
<1>3. KVCoherent'
  <2> SUFFICES ASSUME NEW q \in live_sequences
               PROVE  HoldsHistory(kv_cache, block_table[q], q, num_computed_tokens'[q])
    BY <1>1 DEF KVCoherent
  <2>1. num_computed_tokens'[q] = IF q = r THEN computed ELSE num_computed_tokens[q]
    BY <1>1, <1>2 DEF TypeOK
  <2> QED
    BY <2>1 DEF KVInv, KVCoherent
<1>4. CachedKVCoherent'
  <2> SUFFICES ASSUME NEW q \in Requests, NEW j \in 1 .. CacheableBlocks(q),
                      IsCached(PrefixKey(q, j))',
                      NEW p \in Nat, p \div BlockSize = j - 1
               PROVE  kv_cache[prefix_cache'[PrefixKey(q, j)]][SlotForToken(p)]
                        = KVOf(PrefixKey(q, j), p)
    BY DEF CachedKVCoherent
  <2>1. PrefixKey(q, j) \in PrefixKeys /\ j \in Nat
    BY PrefixKeyFacts
  <2>2. CASE ~ \E i \in fresh : PrefixKey(q, j) = PrefixKey(r, i)
    <3>1. prefix_cache'[PrefixKey(q, j)] = prefix_cache[PrefixKey(q, j)]
      BY <1>1, <2>1, <2>2
    <3> QED
      BY <3>1 DEF KVInv, CachedKVCoherent, IsCached
  <2>3. CASE \E i \in fresh : PrefixKey(q, j) = PrefixKey(r, i)
    <3>1. \A i \in fresh : /\ i \in 1 .. CacheableBlocks(r)
                           /\ i <= computed \div BlockSize /\ i <= Len(block_table[r])
      BY DEF ComputedPrefixBlocks
    <3> HIDE DEF fresh
    <3>2. PICK i : i = CHOOSE x \in fresh : PrefixKey(q, j) = PrefixKey(r, x)
      OBVIOUS
    <3>3. i \in fresh /\ PrefixKey(q, j) = PrefixKey(r, i)
      BY <2>3, <3>2
    <3>4. prefix_cache'[PrefixKey(q, j)] = block_table[r][i]
      BY <1>1, <2>1, <2>3, <3>2
    <3>5. i = j
      BY <3>1, <3>3, PrefixKeyPosition
    <3>6. p \div BlockSize + 1 = j /\ p < j * BlockSize
      <4>1. p \div BlockSize \in Nat
        BY PositionFacts
      <4>2. p \div BlockSize + 1 = j /\ p \div BlockSize < j
        BY <2>1, <4>1
      <4> QED
        BY <2>1, <4>2, PositionFacts
    <3>7. p \in 0 .. computed - 1
      <4>1. j * BlockSize <= computed
        BY <1>2, <2>1, <3>1, <3>3, <3>5, BlocksFit
      <4>2. j * BlockSize \in Nat
        BY <2>1, BlockManagerAssumption
      <4> HIDE DEF computed
      <4> QED
        BY <1>2, <3>6, <4>1, <4>2
    <3>8. kv_cache[block_table[r][i]][SlotForToken(p)] = KVOf(Prompt[r], p)
      BY <3>5, <3>6, <3>7 DEF HoldsHistory, Lookup, PageOf
    <3>9. KVOf(PrefixKey(r, i), p) = KVOf(Prompt[r], p)
      BY <3>1, <3>3, <3>5, <3>6, KeyKV
    <3> QED
      BY <3>3, <3>4, <3>8, <3>9
  <2> QED
    BY <2>2, <2>3
<1> QED
  BY <1>3, <1>4 DEF KVInv

----------------------------------------------------------------------------
(***************************************************************************)
(* One row of a micro batch.                                               *)
(***************************************************************************)

\* What a row of a running batch knows of its sequence, and where it writes.
LEMMA RowFacts ==
  ASSUME EngineInv, run_state = "on", NEW i \in rows
  PROVE  LET r == items[i].sequence
         IN  /\ i \in DOMAIN items /\ r \in Requests /\ r \in Range(running)
             /\ status[r] = "Running"
             /\ Position(i) \in Nat /\ Position(i) = Written(i)
             /\ num_computed_tokens[r] <= Position(i)
             /\ Position(i) < num_tokens[r]
             /\ Position(i) < Len(block_table[r]) * BlockSize
             /\ ContextIsRight(i)
<1> DEFINE r == items[i].sequence
           count == items[i].num_scheduled_tokens
<1>1. /\ SchedulerTypeOK /\ TypeOK /\ BatchInv /\ pc = "model"
      /\ rows \subseteq RowsAt(micro_step) /\ micro_step \in Nat
      /\ \A x \in DOMAIN items : ItemHolds(x, Written(x))
  BY DEF EngineInv, SchedulerInv, PoolInv, RunInv
<1>2. i \in DOMAIN items /\ micro_step < count
  BY <1>1 DEF RowsAt
<1>3. r \in Requests /\ count \in Nat
  BY <1>1, <1>2, QueueFacts
<1>4. Ready(items[i])
  BY <1>1, <1>2 DEF BatchInv, Untouched
<1>5. /\ r \in Range(running) /\ status[r] = "Running"
      /\ count <= PendingTokens(r)
      /\ num_computed_tokens[r] + count <= Len(block_table[r]) * BlockSize
  BY <1>4 DEF Ready
<1>6. /\ num_computed_tokens[r] \in Nat /\ num_tokens[r] \in Nat
      /\ Len(block_table[r]) * BlockSize \in Nat
  <2>1. Len(block_table[r]) \in Nat
    BY <1>1, <1>3, RequestFacts
  <2> QED
    BY <1>1, <1>3, <2>1, RequestFacts, BlocksHoldPositions
<1>7. /\ Position(i) = num_computed_tokens[r] + micro_step
      /\ Written(i) = num_computed_tokens[r] + micro_step
  BY <1>2 DEF Position, Written
<1>8. ContextIsRight(i)
  BY <1>1, <1>2, <1>7 DEF ContextIsRight, ItemHolds
<1> HIDE DEF r, count
<1>9. /\ Position(i) \in Nat
      /\ num_computed_tokens[r] <= Position(i)
      /\ Position(i) < num_tokens[r]
      /\ Position(i) < Len(block_table[r]) * BlockSize
  BY <1>1, <1>2, <1>3, <1>5, <1>6, <1>7 DEF PendingTokens
<1> QED
  BY <1>2, <1>3, <1>5, <1>7, <1>8, <1>9 DEF r

\* The page a row writes to is its sequence's alone: no lookup of another position, of
\* another sequence or of the prefix cache sees the write.
LEMMA WriteIsPrivate ==
  ASSUME EngineInv, run_state = "on", NEW i \in rows, NEW value,
         kv_cache' = Write(kv_cache, block_table[items[i].sequence], Position(i), value)
  PROVE  /\ Lookup(kv_cache', block_table[items[i].sequence], Position(i)) = value
         /\ \A q \in Requests : \A p \in Nat :
              /\ p < Len(block_table[q]) * BlockSize
              /\ q # items[i].sequence \/ p # Position(i)
              => Lookup(kv_cache', block_table[q], p) = Lookup(kv_cache, block_table[q], p)
         /\ \A b \in CachedBlocks : kv_cache'[b] = kv_cache[b]
         /\ value \in KVValues => kv_cache' \in [Blocks -> [Slots -> KVValues]]
<1> DEFINE r == items[i].sequence
           pos == Position(i)
           page == PageOf(block_table[r], pos)
           slot == SlotForToken(pos)
<1>1. /\ TypeOK /\ PoolInv /\ NoAliasing /\ WriteIsolation
      /\ kv_cache \in [Blocks -> [Slots -> KVValues]]
  <2>1. PoolInv
    BY DEF EngineInv, SchedulerInv
  <2> QED
    BY <2>1, PoolInvIsolatesWrites DEF PoolInv, EngineInv, KVInv
<1>2. /\ r \in Requests /\ pos \in Nat /\ num_computed_tokens[r] <= pos
      /\ pos < Len(block_table[r]) * BlockSize
  BY RowFacts
<1>3. /\ pos \div BlockSize + 1 \in DOMAIN block_table[r]
      /\ page = block_table[r][pos \div BlockSize + 1]
      /\ page \in Blocks
  BY <1>1, <1>2, PageFacts
<1>4. slot \in Slots /\ pos \div BlockSize \in Nat
  BY <1>2, PositionFacts
<1>5. ~ FullyComputed(r, pos \div BlockSize + 1)
  <2>1. pos < (pos \div BlockSize + 1) * BlockSize
    <3>1. pos \div BlockSize + 1 \in Nat /\ pos \div BlockSize < pos \div BlockSize + 1
      BY <1>4
    <3> QED
      BY <1>2, <3>1, PositionFacts
  <2>2. (pos \div BlockSize + 1) * BlockSize \in Nat /\ num_computed_tokens[r] \in Nat
    BY <1>1, <1>2, <1>4, BlockManagerAssumption DEF TypeOK
  <2> HIDE DEF pos
  <2> QED
    BY <1>2, <2>1, <2>2 DEF FullyComputed
<1>6. Holders(page) = {r} /\ page \notin CachedBlocks
  BY <1>1, <1>2, <1>3, <1>5 DEF WriteIsolation
<1>7. kv_cache' = [kv_cache EXCEPT ![page][slot] = value]
  BY DEF Write
<1>8. \A q \in Requests : \A p \in Nat :
        p < Len(block_table[q]) * BlockSize /\ (q # r \/ p # pos) =>
          PageOf(block_table[q], p) # page \/ SlotForToken(p) # slot
  <2> SUFFICES ASSUME NEW q \in Requests, NEW p \in Nat,
                      p < Len(block_table[q]) * BlockSize, q # r \/ p # pos,
                      PageOf(block_table[q], p) = page, SlotForToken(p) = slot
               PROVE  FALSE
    OBVIOUS
  <2>1. q \in Holders(page)
    BY <1>1, PageFacts
  <2>2. q = r /\ p # pos
    BY <1>6, <2>1
  <2>3. p \div BlockSize # pos \div BlockSize
    BY <1>2, <2>2, PositionsDiffer
  <2>4. /\ p \div BlockSize + 1 \in DOMAIN block_table[r]
        /\ PageOf(block_table[r], p) = block_table[r][p \div BlockSize + 1]
    BY <1>1, <1>2, <2>2, PageFacts
  <2>5. p \div BlockSize + 1 = pos \div BlockSize + 1
    BY <1>1, <1>2, <1>3, <2>2, <2>4 DEF NoAliasing, IsInjective
  <2>6. p \div BlockSize \in Nat
    BY PositionFacts
  <2> QED
    BY <1>4, <2>3, <2>5, <2>6
<1> HIDE DEF page, slot, pos, r
<1>9. \A b \in Blocks, s \in Slots :
        kv_cache'[b][s] = IF b = page /\ s = slot THEN value ELSE kv_cache[b][s]
  BY <1>1, <1>3, <1>4, <1>7
<1>10. Lookup(kv_cache', block_table[r], pos) = value
  BY <1>3, <1>4, <1>9 DEF Lookup, page, slot
<1>11. \A q \in Requests : \A p \in Nat :
         p < Len(block_table[q]) * BlockSize /\ (q # r \/ p # pos) =>
           Lookup(kv_cache', block_table[q], p) = Lookup(kv_cache, block_table[q], p)
  <2> SUFFICES ASSUME NEW q \in Requests, NEW p \in Nat,
                      p < Len(block_table[q]) * BlockSize, q # r \/ p # pos
               PROVE  Lookup(kv_cache', block_table[q], p) = Lookup(kv_cache, block_table[q], p)
    OBVIOUS
  <2>1. PageOf(block_table[q], p) \in Blocks /\ SlotForToken(p) \in Slots
    BY <1>1, PageFacts, PositionFacts
  <2> QED
    BY <1>8, <1>9, <2>1 DEF Lookup
<1>12. \A b \in CachedBlocks : kv_cache'[b] = kv_cache[b]
  BY <1>6, <1>7
<1>13. value \in KVValues => kv_cache' \in [Blocks -> [Slots -> KVValues]]
  BY <1>1, <1>3, <1>4, <1>7
<1> QED
  BY <1>10, <1>11, <1>12, <1>13 DEF r, pos

\* A row whose history is in the cache extends it by its position.
LEMMA ForwardRowPreserves ==
  ASSUME EngineInv, NEW i \in rows, ForwardRow(i)
  PROVE  KVInv' /\ RunInv'
<1> DEFINE r == items[i].sequence
<1>1. /\ run_state = "on" /\ UNCHANGED <<vars, run_state, micro_step>>
      /\ kv_cache' = Write(kv_cache, block_table[r], Position(i), RowResult(i))
      /\ rows' = rows \ {i}
  BY DEF ForwardRow
<1>2. /\ UNCHANGED <<status, num_tokens, num_computed_tokens, block_table, live_sequences,
                     prefix_cache, items, cursor, pc>>
  BY <1>1 DEF vars
<1>3. /\ TypeOK /\ LiveIffHolding /\ SchedulerTypeOK /\ BatchInv /\ RoomInv /\ KVInv /\ RunInv
      /\ pc = "model" /\ items # << >> /\ rows \subseteq RowsAt(micro_step) /\ micro_step \in Nat
  BY <1>1 DEF EngineInv, SchedulerInv, PoolInv, RunInv
<1>4. /\ i \in DOMAIN items /\ r \in Requests
      /\ Position(i) \in Nat /\ num_computed_tokens[r] <= Position(i)
      /\ Position(i) < Len(block_table[r]) * BlockSize
      /\ Position(i) = Written(i) /\ ContextIsRight(i)
  BY <1>1, RowFacts
<1>5. RowResult(i) = KVOf(Prompt[r], Position(i)) /\ RowResult(i) \in KVValues
  BY <1>4, KVOfType DEF RowResult
<1>6. /\ Lookup(kv_cache', block_table[r], Position(i)) = RowResult(i)
      /\ \A q \in Requests : \A p \in Nat :
           /\ p < Len(block_table[q]) * BlockSize
           /\ q # r \/ p # Position(i)
           => Lookup(kv_cache', block_table[q], p) = Lookup(kv_cache, block_table[q], p)
      /\ \A b \in CachedBlocks : kv_cache'[b] = kv_cache[b]
      /\ kv_cache' \in [Blocks -> [Slots -> KVValues]]
  BY <1>1, <1>5, WriteIsPrivate
<1> HIDE DEF r
\* Any history that was in the cache still is.
<1>7. ASSUME NEW q \in Requests, NEW n \in Nat, n <= Len(block_table[q]) * BlockSize,
             HoldsHistory(kv_cache, block_table[q], q, n)
      PROVE  HoldsHistory(kv_cache', block_table[q], q, n)
  <2> SUFFICES ASSUME NEW p \in 0 .. n - 1
               PROVE  Lookup(kv_cache', block_table[q], p) = KVOf(Prompt[q], p)
    BY DEF HoldsHistory
  <2>1. p \in Nat /\ p < Len(block_table[q]) * BlockSize
    <3>1. Len(block_table[q]) * BlockSize \in Nat
      BY <1>3, RequestFacts, BlockManagerAssumption
    <3> QED
      BY <1>7, <3>1
  <2>2. CASE q = r /\ p = Position(i)
    BY <1>5, <1>6, <2>2
  <2>3. CASE q # r \/ p # Position(i)
    BY <1>6, <1>7, <2>1, <2>3 DEF HoldsHistory
  <2> QED
    BY <2>2, <2>3
<1>8. KVInv'
  <2>1. KVCoherent'
    <3> SUFFICES ASSUME NEW q \in live_sequences
                 PROVE  HoldsHistory(kv_cache', block_table[q], q, num_computed_tokens[q])
      BY <1>2 DEF KVCoherent
    <3>1. q \in Requests /\ block_table[q] # << >> /\ num_computed_tokens[q] \in Nat
      BY <1>3 DEF LiveIffHolding, TypeOK
    <3> QED
      BY <1>3, <1>7, <3>1 DEF KVInv, KVCoherent, RoomInv
  <2>2. CachedKVCoherent'
    <3> SUFFICES ASSUME NEW q \in Requests, NEW j \in 1 .. CacheableBlocks(q),
                        IsCached(PrefixKey(q, j)),
                        NEW p \in Nat, p \div BlockSize = j - 1
                 PROVE  kv_cache'[prefix_cache[PrefixKey(q, j)]][SlotForToken(p)]
                          = KVOf(PrefixKey(q, j), p)
      BY <1>2 DEF CachedKVCoherent, IsCached
    <3>1. prefix_cache[PrefixKey(q, j)] \in CachedBlocks
      BY PrefixKeyFacts DEF CachedBlocks
    <3> QED
      BY <1>3, <1>6, <3>1 DEF KVInv, CachedKVCoherent
  <2> QED
    BY <1>6, <2>1, <2>2 DEF KVInv
<1>9. ASSUME NEW x \in DOMAIN items
      PROVE  ItemHolds(x, Written(x))'
  <2> DEFINE q == items[x].sequence
             count == items[x].num_scheduled_tokens
  <2>1. q \in Requests /\ count \in Nat /\ Ready(items[x])
    BY <1>3, QueueFacts DEF BatchInv, Untouched
  <2>2. /\ num_computed_tokens[q] \in Nat /\ Len(block_table[q]) * BlockSize \in Nat
        /\ num_computed_tokens[q] + count <= Len(block_table[q]) * BlockSize
    BY <1>3, <2>1, RequestFacts, BlockManagerAssumption DEF Ready
  <2>3. HoldsHistory(kv_cache, block_table[q], q, Written(x))
    BY <1>1, <1>3 DEF RunInv, ItemHolds
  <2>4. CASE x # i
    <3>1. Written(x)' = Written(x)
      BY <1>1, <1>2, <2>4 DEF Written
    <3>2. Written(x) \in Nat /\ Written(x) <= Len(block_table[q]) * BlockSize
      <4>1. x \in rows => micro_step < count
        BY <1>3 DEF RowsAt
      <4>2. Written(x) \in Nat /\ Written(x) <= num_computed_tokens[q] + count
        BY <1>3, <2>1, <2>2, <4>1 DEF Written
      <4> HIDE DEF q, count
      <4> QED
        BY <2>1, <2>2, <4>2
    <3>3. HoldsHistory(kv_cache', block_table[q], q, Written(x))
      BY <1>7, <2>1, <2>3, <3>2
    <3> QED
      BY <1>2, <3>1, <3>3 DEF ItemHolds
  <2>5. CASE x = i
    <3>1. Written(x)' = Position(i) + 1
      <4>1. micro_step < count
        BY <1>3, <2>5 DEF RowsAt
      <4> QED
        BY <1>1, <1>2, <2>5, <4>1 DEF Written, Position
    <3>2. q = r
      BY <2>5 DEF r
    <3>3. HoldsHistory(kv_cache', block_table[r], r, Position(i))
      <4>1. HoldsHistory(kv_cache, block_table[r], r, Position(i))
        BY <1>4, <2>3, <2>5, <3>2
      <4>2. Position(i) <= Len(block_table[r]) * BlockSize
        <5>1. Len(block_table[r]) * BlockSize \in Nat
          BY <2>2, <3>2
        <5> QED
          BY <1>4, <5>1
      <4> QED
        BY <1>4, <1>7, <4>1, <4>2
    <3>4. HoldsHistory(kv_cache', block_table[r], r, Position(i) + 1)
      <4> SUFFICES ASSUME NEW p \in 0 .. Position(i)
                   PROVE  Lookup(kv_cache', block_table[r], p) = KVOf(Prompt[r], p)
        BY <1>4 DEF HoldsHistory
      <4>1. CASE p = Position(i)
        BY <1>5, <1>6, <4>1
      <4>2. CASE p # Position(i)
        <5>1. p \in 0 .. Position(i) - 1
          BY <1>4, <4>2
        <5> QED
          BY <3>3, <5>1 DEF HoldsHistory
      <4> QED
        BY <4>1, <4>2
    <3> QED
      BY <1>2, <3>1, <3>2, <3>4 DEF ItemHolds
  <2> QED
    BY <2>4, <2>5
<1>10. \A x \in DOMAIN sampled' : sampled'[x] # "wrong"
  BY <1>3, <1>4 DEF ForwardRow, RunInv
<1>11. rows' \subseteq RowsAt(micro_step)'
  BY <1>1, <1>2, <1>3 DEF RowsAt
<1> QED
  BY <1>1, <1>2, <1>3, <1>8, <1>9, <1>10, <1>11 DEF RunInv

----------------------------------------------------------------------------
(***************************************************************************)
(* The other steps of a run.                                               *)
(***************************************************************************)

\* Nothing moves but run()'s own loop.
LEMMA KVFrame ==
  ASSUME KVInv, UNCHANGED <<bm_vars, kv_cache>>
  PROVE  KVInv'
<1>1. UNCHANGED <<num_computed_tokens, block_table, live_sequences, prefix_cache>>
  BY DEF bm_vars
<1> QED
  BY <1>1 DEF KVInv, KVCoherent, CachedKVCoherent, IsCached

LEMMA ScheduledItems ==
  ASSUME EngineInv, pc = "model", NEW i \in DOMAIN items
  PROVE  /\ items[i].sequence \in Requests
         /\ items[i].num_scheduled_tokens \in Nat \ {0}
         /\ num_computed_tokens[items[i].sequence] \in Nat
         /\ ItemHolds(i, num_computed_tokens[items[i].sequence])
<1>1. /\ TypeOK /\ LiveIffHolding /\ SchedulerTypeOK /\ BatchInv /\ KVInv
  BY DEF EngineInv, SchedulerInv, PoolInv
<1>2. PICK r \in Requests : r = items[i].sequence
  BY <1>1, QueueFacts
<1>3. PICK count \in Nat : count = items[i].num_scheduled_tokens
  BY <1>1, QueueFacts
<1>4. Ready(items[i])
  BY <1>1 DEF BatchInv, Untouched
<1>5. 0 < count /\ num_computed_tokens[r] + count <= Len(block_table[r]) * BlockSize
  BY <1>2, <1>3, <1>4 DEF Ready
<1>6. num_computed_tokens[r] \in Nat
  BY <1>1 DEF TypeOK
<1>7. block_table[r] # << >>
  <2>1. block_table[r] = << >> => Len(block_table[r]) * BlockSize = 0
    BY EmptySeq, BlockManagerAssumption
  <2> QED
    BY <1>5, <1>6, <2>1
<1>8. HoldsHistory(kv_cache, block_table[r], r, num_computed_tokens[r])
  BY <1>1, <1>7 DEF LiveIffHolding, KVInv, KVCoherent
<1> QED
  BY <1>2, <1>3, <1>5, <1>6, <1>8 DEF ItemHolds

LEMMA BeginRunPreserves ==
  ASSUME EngineInv, BeginRun
  PROVE  KVInv' /\ RunInv'
<1>1. /\ pc = "model" /\ items # << >> /\ UNCHANGED <<vars, kv_cache>>
      /\ run_state' = "on" /\ micro_step' = 0 /\ rows' = RowsAt(0)
      /\ sampled' = [i \in DOMAIN items |-> "none"]
  BY DEF BeginRun
<1>2. /\ UNCHANGED <<bm_vars, num_computed_tokens, block_table, items, pc, cursor>>
  BY <1>1 DEF vars, bm_vars
<1>3. KVInv'
  BY <1>1, <1>2, KVFrame DEF EngineInv
<1>4. ASSUME NEW i \in DOMAIN items
      PROVE  ItemHolds(i, Written(i))'
  <2>1. /\ items[i].num_scheduled_tokens \in Nat \ {0}
        /\ num_computed_tokens[items[i].sequence] \in Nat
        /\ ItemHolds(i, num_computed_tokens[items[i].sequence])
    BY <1>1, ScheduledItems
  <2>2. i \in rows' /\ 0 < items[i].num_scheduled_tokens
    BY <1>1, <2>1 DEF RowsAt
  <2>3. Written(i)' = num_computed_tokens[items[i].sequence]
    BY <1>1, <1>2, <2>1, <2>2 DEF Written
  <2> QED
    BY <1>1, <1>2, <2>1, <2>3 DEF ItemHolds
<1>5. rows' \subseteq RowsAt(micro_step)'
  BY <1>1, <1>2 DEF RowsAt
<1> QED
  BY <1>1, <1>2, <1>3, <1>4, <1>5 DEF RunInv

\* Once the rows of a micro batch are done its successor starts where they ended.
LEMMA NextMicroStepPreserves ==
  ASSUME EngineInv, NextMicroStep
  PROVE  KVInv' /\ RunInv'
<1>1. /\ run_state = "on" /\ rows = {} /\ UNCHANGED <<vars, kv_cache, run_state, sampled>>
      /\ micro_step' = micro_step + 1 /\ rows' = RowsAt(micro_step + 1)
  BY DEF NextMicroStep
<1>2. /\ UNCHANGED <<bm_vars, num_computed_tokens, block_table, items, pc, cursor>>
  BY <1>1 DEF vars, bm_vars
<1>3. KVInv'
  BY <1>1, <1>2, KVFrame DEF EngineInv
<1>4. RunInv /\ pc = "model" /\ micro_step \in Nat
  BY <1>1 DEF EngineInv, RunInv
<1>5. ASSUME NEW i \in DOMAIN items
      PROVE  ItemHolds(i, Written(i))'
  <2>1. PICK count \in Nat : count = items[i].num_scheduled_tokens
    BY <1>4, ScheduledItems
  <2>2. PICK start \in Nat : start = num_computed_tokens[items[i].sequence]
    BY <1>4, ScheduledItems
  <2>3. Written(i) = IF micro_step < count THEN start + micro_step + 1 ELSE start + count
    BY <1>1, <2>1, <2>2 DEF Written
  <2>4. i \in rows' <=> micro_step + 1 < count
    BY <1>1, <2>1 DEF RowsAt
  <2>5. Written(i)' = IF micro_step + 1 < count THEN start + (micro_step + 1) ELSE start + count
    BY <1>1, <1>2, <2>1, <2>2, <2>4 DEF Written
  <2>6. Written(i)' = Written(i)
    BY <1>4, <2>3, <2>5
  <2>7. ItemHolds(i, Written(i))
    BY <1>1, <1>4 DEF RunInv
  <2> QED
    BY <1>1, <1>2, <2>6, <2>7 DEF ItemHolds
<1>6. rows' \subseteq RowsAt(micro_step)'
  BY <1>1, <1>2 DEF RowsAt
<1> QED
  BY <1>1, <1>2, <1>3, <1>4, <1>5, <1>6 DEF RunInv

\* When run() returns, every token of the batch has been written.
LEMMA RunReturnsPreserves ==
  ASSUME EngineInv, RunReturns
  PROVE  KVInv' /\ RunInv'
<1>1. /\ run_state = "on" /\ rows = {} /\ RowsAt(micro_step + 1) = {}
      /\ UNCHANGED <<bm_vars, queue_vars, output_vars>>
      /\ pc' = "commit" /\ run_state' = "off"
      /\ UNCHANGED <<kv_cache, micro_step, rows, sampled>>
  BY DEF RunReturns, RunSucceeds
<1>2. UNCHANGED <<num_computed_tokens, block_table, items>>
  BY <1>1 DEF bm_vars, output_vars
<1>3. KVInv'
  BY <1>1, KVFrame DEF EngineInv
<1>4. RunInv /\ pc = "model" /\ micro_step \in Nat
  BY <1>1 DEF EngineInv, RunInv
<1>5. ASSUME NEW i \in DOMAIN items
      PROVE  ItemHolds(i, num_computed_tokens[items[i].sequence] + items[i].num_scheduled_tokens)
  <2>1. PICK count \in Nat : count = items[i].num_scheduled_tokens
    BY <1>4, ScheduledItems
  <2>2. PICK start \in Nat : start = num_computed_tokens[items[i].sequence]
    BY <1>4, ScheduledItems
  <2>3. Written(i) = IF micro_step < count THEN start + micro_step + 1 ELSE start + count
    BY <1>1, <2>1, <2>2 DEF Written
  <2>4. ~ (micro_step + 1 < count)
    BY <1>1, <2>1 DEF RowsAt
  <2>5. Written(i) = start + count
    BY <1>4, <2>3, <2>4
  <2> QED
    BY <1>1, <1>4, <2>1, <2>2, <2>5 DEF RunInv
<1>6. \A i \in Untouched' : ItemHolds(i,
          num_computed_tokens[items[i].sequence] + items[i].num_scheduled_tokens)'
  BY <1>1, <1>2, <1>5 DEF Untouched, ItemHolds
<1> QED
  BY <1>1, <1>3, <1>4, <1>6 DEF RunInv

\* A run that throws leaves K/V behind that nobody counts as computed.
LEMMA RunThrowsPreserves ==
  ASSUME EngineInv, RunThrows
  PROVE  KVInv' /\ RunInv'
<1>1. /\ UNCHANGED <<bm_vars, kv_cache>> /\ pc' = "idle"
      /\ run_state' = "off" /\ micro_step' = 0 /\ sampled' = << >>
  BY DEF RunThrows, RunFails, EndStep
<1>2. KVInv'
  BY <1>1, KVFrame DEF EngineInv
<1> QED
  BY <1>1, <1>2 DEF RunInv

----------------------------------------------------------------------------
(***************************************************************************)
(* The steps of the scheduler.                                             *)
(***************************************************************************)

\* run() is over, or has not begun: the steps around it leave its state alone.
LEMMA RunInvOutsideCommit ==
  ASSUME RunInv, run_state = "off", UNCHANGED engine_vars,
         pc' \notin {"commit", "sample", "release"}
  PROVE  RunInv'
  BY DEF RunInv, engine_vars

\* commit() changes one sequence at a time, and the items after it are others'.
LEMMA LaterItemsHold ==
  ASSUME EngineInv, UNCHANGED <<engine_vars, items>>,
         pc \in {"commit", "sample", "release"}, cursor \in DOMAIN items,
         \A q \in Requests : q # items[cursor].sequence =>
           num_computed_tokens'[q] = num_computed_tokens[q] /\ block_table'[q] = block_table[q],
         \A i \in Untouched' : i \in Untouched /\ i # cursor
  PROVE  RunInv'
<1>1. RunInv /\ SchedulerTypeOK /\ BatchInv /\ run_state = "off"
  BY DEF EngineInv, SchedulerInv, RunInv
<1>2. ASSUME NEW i \in Untouched'
      PROVE  ItemHolds(i,
               num_computed_tokens[items[i].sequence] + items[i].num_scheduled_tokens)'
  <2>1. i \in Untouched /\ i \in DOMAIN items /\ i # cursor
    BY <1>2 DEF Untouched
  <2>2. items[i].sequence \in Requests /\ items[i].sequence # items[cursor].sequence
    BY <1>1, <2>1, QueueFacts DEF BatchInv
  <2>3. ItemHolds(i, num_computed_tokens[items[i].sequence] + items[i].num_scheduled_tokens)
    BY <1>1, <2>1 DEF RunInv
  <2> QED
    BY <2>2, <2>3 DEF ItemHolds, engine_vars
<1> QED
  BY <1>1, <1>2 DEF RunInv, engine_vars

\* commit() counts the tokens of an item: run() has written them all.
LEMMA CommitItemKeepsKV ==
  ASSUME EngineInv, CommitItem, UNCHANGED engine_vars
  PROVE  KVInv' /\ RunInv'
<1>1. /\ PoolInv /\ TypeOK /\ SchedulerTypeOK /\ BatchInv /\ RoomInv /\ KVInv /\ RunInv
      /\ pc = "commit" /\ cursor \in Nat
  BY DEF EngineInv, SchedulerInv, PoolInv, SchedulerTypeOK, CommitItem
<1>2. /\ cursor \in DOMAIN items /\ cursor \in Untouched
      /\ UNCHANGED <<items, kv_cache>>
  BY <1>1, QueueFacts DEF CommitItem, Untouched, SchedulerTypeOK, output_vars, engine_vars
<1>3. PICK r \in Requests : r = items[cursor].sequence
  BY <1>1, <1>2, QueueFacts
<1>4. PICK count \in Nat : count = items[cursor].num_scheduled_tokens
  BY <1>1, <1>2, QueueFacts
<1>5. /\ ComputeTokens(r, count)
      /\ \/ pc' = "commit" /\ cursor' = cursor + 1
         \/ pc' = "sample" /\ cursor' = cursor
  BY <1>3, <1>4 DEF CommitItem
<1>6. /\ status[r] = "Running" /\ count \in 1 .. PendingTokens(r)
      /\ num_computed_tokens[r] + count <= Len(block_table[r]) * BlockSize
  <2>1. Ready(items[cursor])
    BY <1>1, <1>2 DEF BatchInv
  <2>2. PendingTokens(r) \in Int
    BY <1>1, RequestFacts
  <2> QED
    BY <1>3, <1>4, <2>1, <2>2 DEF Ready
<1>7. Compute(r, count)
  BY <1>5, <1>6 DEF Compute
<1>8. HoldsHistory(kv_cache, block_table[r], r, num_computed_tokens[r] + count)
  BY <1>1, <1>2, <1>3, <1>4 DEF RunInv, ItemHolds
<1>9. KVInv'
  BY <1>1, <1>2, <1>6, <1>7, <1>8, KVCompute
<1>10. \A q \in Requests : q # r =>
         num_computed_tokens'[q] = num_computed_tokens[q] /\ block_table'[q] = block_table[q]
  BY <1>1, <1>5 DEF ComputeTokens, MarkComputed, TypeOK
<1>11. \A i \in Untouched' : i \in Untouched /\ i # cursor
  BY <1>1, <1>2, <1>5, QueueFacts DEF Untouched
<1> QED
  BY <1>1, <1>2, <1>3, <1>9, <1>10, <1>11, LaterItemsHold

\* A sampled token has no K/V yet, and a finished sequence gives its blocks up.
LEMMA CommitRestKeepsKV ==
  ASSUME EngineInv, CommitSample \/ CommitRelease, UNCHANGED engine_vars,
         [BMNext]_bm_vars
  PROVE  KVInv' /\ RunInv'
<1>1. /\ PoolInv /\ TypeOK /\ SchedulerTypeOK /\ RoomInv /\ KVInv /\ StageInv
      /\ pc \in {"sample", "release"} /\ cursor \in Nat
  BY DEF EngineInv, SchedulerInv, PoolInv, SchedulerTypeOK, CommitSample, CommitRelease
<1>2. UNCHANGED <<num_computed_tokens, kv_cache, items>>
  BY DEF CommitSample, Sample, CommitRelease, Release, output_vars, engine_vars
<1>3. KVInv'
  BY <1>1, <1>2, KVPoolStep
<1>4. cursor \in DOMAIN items
  BY <1>1 DEF StageInv
<1>5. \A q \in Requests : q # items[cursor].sequence => block_table'[q] = block_table[q]
  BY <1>1 DEF CommitSample, Sample, CommitRelease, Release, TypeOK
<1>6. /\ pc' \in {"commit", "release"}
      /\ pc' = "commit" => cursor' = cursor + 1
      /\ pc' = "release" => cursor' = cursor
  BY DEF CommitSample, CommitRelease
<1>7. \A i \in Untouched' : i \in Untouched /\ i # cursor
  <2> SUFFICES ASSUME NEW i \in Untouched'
               PROVE  i > cursor /\ i \in DOMAIN items
    BY <1>1 DEF Untouched
  <2>1. i \in DOMAIN items /\ i \in Nat
    BY <1>1, <1>2, QueueFacts DEF Untouched
  <2> QED
    BY <1>1, <1>6, <2>1 DEF Untouched
<1> QED
  BY <1>1, <1>2, <1>3, <1>4, <1>5, <1>7, LaterItemsHold

LEMMA SchedulerStepKeepsKV ==
  ASSUME EngineInv, SchedulerStep, [BMNext]_bm_vars
  PROVE  KVInv' /\ RunInv'
<1>1. /\ PoolInv /\ TypeOK /\ SchedulerTypeOK /\ QueuesPartitionRequests /\ StageInv
      /\ RoomInv /\ KVInv /\ RunInv /\ UNCHANGED engine_vars /\ UNCHANGED kv_cache
  BY DEF EngineInv, SchedulerInv, PoolInv, SchedulerStep, engine_vars
<1>2. ASSUME UNCHANGED num_computed_tokens, pc' \notin {"commit", "sample", "release"},
             pc # "model"
      PROVE  KVInv' /\ RunInv'
  <2>1. run_state = "off"
    BY <1>1, <1>2 DEF RunInv
  <2> QED
    BY <1>1, <1>2, <2>1, KVPoolStep, RunInvOutsideCommit
<1>3. CASE ClearCache
  BY <1>2, <1>3 DEF ClearCache, ClearPrefixCache, sequence_vars
<1>4. CASE StartStep \/ EndRunning \/ EndAdmit
  BY <1>2, <1>4 DEF StartStep, EndRunning, EndAdmit, bm_vars
<1>5. CASE ScheduleRunning
  <2>1. UNCHANGED num_computed_tokens
    BY <1>5 DEF ScheduleRunning, EnsureCapacitySucceeds, EnsureCapacityFails, EvictAndAllocate
  <2> QED
    BY <1>2, <1>5, <2>1 DEF ScheduleRunning
<1>6. CASE AdmitFromCache
  <2>1. PICK r \in Requests : r = Head(waiting) /\ status[r] = "Waiting"
    BY <1>1, <1>6, QueueFacts DEF AdmitFromCache, MayAdmit, QueuesPartitionRequests
  <2>2. TryApplyPrefixCache(r)
    BY <1>6, <2>1 DEF AdmitFromCache, TryApplyPrefixCache
  <2>3. KVInv'
    BY <1>1, <2>2, KVLookup
  <2>4. run_state = "off" /\ pc' = "admit_capacity"
    BY <1>1, <1>6 DEF AdmitFromCache, RunInv
  <2> QED
    BY <1>1, <2>3, <2>4, RunInvOutsideCommit
<1>7. CASE Admit
  <2>1. UNCHANGED num_computed_tokens
    BY <1>7 DEF Admit, EnsureCapacitySucceeds, EnsureCapacityFails, EvictAndAllocate
  <2> QED
    BY <1>2, <1>7, <2>1 DEF Admit
<1>8. CASE NoProgress
  <2>1. run_state = "off" /\ UNCHANGED num_computed_tokens /\ pc' = "idle"
    BY <1>1, <1>8 DEF NoProgress, EndStep, RunInv, bm_vars
  <2> QED
    BY <1>1, <2>1, KVPoolStep, RunInvOutsideCommit
<1>9. CASE CommitItem
  BY <1>1, <1>9, CommitItemKeepsKV
<1>10. CASE CommitSample \/ CommitRelease
  BY <1>1, <1>10, CommitRestKeepsKV
<1> QED
  BY <1>3, <1>4, <1>5, <1>6, <1>7, <1>8, <1>9, <1>10 DEF SchedulerStep

----------------------------------------------------------------------------
(***************************************************************************)
(* The invariant of the engine.                                            *)
(***************************************************************************)

LEMMA EngineInvInit ==
  ASSUME EngineInit
  PROVE  EngineInv
<1>1. SchedulerInv
  BY SchedulerInvInit DEF EngineInit
<1>2. /\ \A r \in Requests : /\ num_tokens[r] = PromptLen(r) /\ num_computed_tokens[r] = 0
                             /\ block_table[r] = << >>
      /\ live_sequences = {} /\ prefix_cache = [k \in PrefixKeys |-> NoBlock]
      /\ known_request_ids = {} /\ pc = "idle"
      /\ kv_cache = EmptyKVCache(Blocks)
      /\ run_state = "off" /\ micro_step = 0 /\ sampled = << >>
  BY DEF EngineInit, Init, BMInit, SequenceInit, BlockManagerInit
<1>3. RoomInv
  <2> SUFFICES ASSUME NEW r \in Requests
               PROVE  /\ PromptLen(r) <= num_tokens[r]
                      /\ num_computed_tokens[r] <= Len(block_table[r]) * BlockSize
                      /\ Len(block_table[r]) <= BlocksNeeded(num_tokens[r])
    BY DEF RoomInv
  <2>1. PromptLen(r) \in Nat /\ Len(block_table[r]) = 0 /\ 0 * BlockSize = 0
    BY <1>2, PrefixKeyFacts, EmptySeq, BlockManagerAssumption
  <2>2. BlocksNeeded(num_tokens[r]) \in Nat
    BY <1>2, <2>1, BlocksNeededFacts
  <2> QED
    BY <1>2, <2>1, <2>2
<1>4. KVInv
  <2>1. kv_cache \in [Blocks -> [Slots -> KVValues]]
    BY <1>2 DEF EmptyKVCache, KVValues
  <2>2. CachedKVCoherent
    BY <1>2, PrefixKeyFacts DEF CachedKVCoherent, IsCached
  <2> QED
    BY <1>2, <2>1, <2>2 DEF KVInv, KVCoherent
<1>5. RunInv /\ ContextInv
  BY <1>2 DEF RunInv, ContextInv
<1> QED
  BY <1>1, <1>3, <1>4, <1>5 DEF EngineInv

LEMMA EngineInvInductive ==
  ASSUME EngineInv, [EngineNext]_all_vars
  PROVE  EngineInv'
<1>1. /\ SchedulerInv /\ PoolInv /\ RoomInv /\ KVInv /\ RunInv /\ ContextInv
  BY DEF EngineInv, SchedulerInv
<1>2. SchedulerInv' /\ [BMNext]_bm_vars
  BY <1>1, StepsAreSchedulerSteps, SchedulerInvInductive
<1>3. RoomInv'
  BY <1>1, <1>2, RoomInvInductive
<1>4. ContextInv'
  <2>1. CASE UNCHANGED known_request_ids
    BY <1>1, <2>1 DEF ContextInv, FitsContext
  <2>2. ASSUME NEW r \in Requests, AddRequest(r)
        PROVE  ContextInv'
    BY <1>1, <2>2 DEF ContextInv, AddRequest, Add, FitsContext
  <2>3. UNCHANGED known_request_ids \/ \E r \in Requests : AddRequest(r)
    <3>1. CASE SchedulerStep
      BY <3>1 DEF SchedulerStep, ClearCache, StartStep, ScheduleRunning, EndRunning,
                  AdmitFromCache, Admit, EndAdmit, NoProgress, CommitItem, CommitSample,
                  CommitRelease, queue_vars
    <3>2. CASE BeginRun \/ NextMicroStep \/ \E i \in rows : ForwardRow(i)
      BY <3>2 DEF BeginRun, NextMicroStep, ForwardRow, vars
    <3>3. CASE RunReturns \/ RunThrows \/ FinishStep
      BY <3>3 DEF RunReturns, RunSucceeds, RunThrows, RunFails, FinishStep, EndCommit, queue_vars
    <3>4. CASE EngineDone \/ UNCHANGED all_vars
      BY <3>4 DEF EngineDone, all_vars, vars
    <3> QED
      BY <3>1, <3>2, <3>3, <3>4 DEF EngineNext
  <2> QED
    BY <2>1, <2>2, <2>3
<1>5. KVInv' /\ RunInv'
  <2>1. CASE EngineDone \/ UNCHANGED all_vars
    <3>1. /\ UNCHANGED bm_vars
          /\ UNCHANGED <<num_computed_tokens, block_table, items, pc, cursor, engine_vars,
                         kv_cache>>
      BY <2>1 DEF EngineDone, all_vars, vars, bm_vars, engine_vars
    <3>2. KVInv'
      BY <1>1, <3>1, KVFrame
    <3>3. RunInv'
      BY <1>1, <3>1 DEF RunInv, engine_vars, RowsAt, Written, ItemHolds, Untouched
    <3> QED
      BY <3>2, <3>3
  <2>2. ASSUME NEW r \in Requests, AddRequest(r)
        PROVE  KVInv' /\ RunInv'
    <3>1. /\ UNCHANGED bm_vars /\ UNCHANGED engine_vars /\ pc = "idle" /\ pc' = "idle"
      BY <2>2 DEF AddRequest, Add
    <3>2. run_state = "off" /\ UNCHANGED kv_cache
      BY <1>1, <3>1 DEF RunInv, engine_vars
    <3> QED
      BY <1>1, <3>1, <3>2, KVFrame, RunInvOutsideCommit
  <2>3. CASE SchedulerStep
    BY <1>2, <2>3, SchedulerStepKeepsKV
  <2>4. CASE BeginRun
    BY <2>4, BeginRunPreserves
  <2>5. ASSUME NEW i \in rows, ForwardRow(i)
        PROVE  KVInv' /\ RunInv'
    BY <2>5, ForwardRowPreserves
  <2>6. CASE NextMicroStep
    BY <2>6, NextMicroStepPreserves
  <2>7. CASE RunReturns
    BY <2>7, RunReturnsPreserves
  <2>8. CASE RunThrows
    BY <2>8, RunThrowsPreserves
  <2>9. CASE FinishStep
    <3>1. /\ UNCHANGED <<bm_vars, kv_cache, run_state>> /\ pc = "commit" /\ pc' = "idle"
          /\ micro_step' = 0 /\ sampled' = << >>
      BY <2>9 DEF FinishStep, EndCommit, EndStep
    <3>2. KVInv'
      BY <1>1, <3>1, KVFrame
    <3>3. RunInv'
      BY <1>1, <3>1 DEF RunInv
    <3> QED
      BY <3>2, <3>3
  <2> QED
    BY <2>1, <2>2, <2>3, <2>4, <2>5, <2>6, <2>7, <2>8, <2>9 DEF EngineNext
<1> QED
  BY <1>2, <1>3, <1>4, <1>5 DEF EngineInv

LEMMA EngineInvAlways == EngineSpec => []EngineInv
<1>1. EngineInit => EngineInv
  BY EngineInvInit
<1>2. EngineInv /\ [EngineNext]_all_vars => EngineInv'
  BY EngineInvInductive
<1> QED
  BY <1>1, <1>2, PTL DEF EngineSpec

----------------------------------------------------------------------------
(***************************************************************************)
(* What follows.                                                           *)
(***************************************************************************)

\* In whatever order requests are batched, chunked, shared, evicted, failed and run
\* again, each slot a block table names holds the K/V of that sequence's own history.
THEOREM KVIsAlwaysCoherent == EngineSpec => []KVCoherent
<1>1. EngineInv => KVCoherent
  BY DEF EngineInv, KVInv
<1> QED
  BY <1>1, EngineInvAlways, PTL

\* So what a row attends to is its own history, and the token sampled from it is the
\* one its request would get alone.
THEOREM SamplesAreAlwaysGreedy == EngineSpec => []SamplesAreGreedy
<1>1. EngineInv => SamplesAreGreedy
  BY DEF EngineInv, RunInv, SamplesAreGreedy
<1> QED
  BY <1>1, EngineInvAlways, PTL

\* The bounds checks of run() (gpt2_model_runner.hpp) never fire: add_request has
\* turned away every request that could outgrow the context, and schedule() has made
\* room for every position.
THEOREM RunnerStaysInBounds == EngineSpec => []RunnerInBounds
<1>1. ASSUME EngineInv, run_state = "on", NEW i \in rows
      PROVE  LET table == block_table[items[i].sequence]
             IN  /\ Position(i) < num_tokens[items[i].sequence]
                 /\ Position(i) < MaxContextLength
                 /\ Position(i) \div BlockSize < Len(table)
                 /\ Len(table) <= BlocksNeeded(MaxContextLength)
  <2>1. PICK r \in Requests : r = items[i].sequence
    BY <1>1, RowFacts
  <2>2. PICK pos \in Nat : pos = Position(i)
    BY <1>1, RowFacts
  <2>3. /\ r \in Range(running) /\ status[r] = "Running" /\ pos < num_tokens[r]
        /\ pos < Len(block_table[r]) * BlockSize
    BY <1>1, <2>1, <2>2, RowFacts
  <2>4. TypeOK /\ RequestsInv /\ RunningInv /\ RoomInv /\ ContextInv
    BY <1>1 DEF EngineInv, SchedulerInv, PoolInv
  <2>5. /\ num_tokens[r] \in Nat /\ PromptLen(r) \in Nat /\ MaxNewTokens[r] \in Nat
        /\ Len(block_table[r]) \in Nat /\ MaxContextLength \in Nat
    BY <2>4, RequestFacts, EngineAssumption
  <2>6. num_tokens[r] <= MaxContextLength
    <3>1. FitsContext(r)
      BY <2>3, <2>4 DEF RunningInv, ContextInv
    <3>2. num_tokens[r] - PromptLen(r) < MaxNewTokens[r]
      BY <2>3, <2>4 DEF RequestsInv
    <3> QED
      BY <2>5, <3>1, <3>2 DEF FitsContext
  <2>7. Len(block_table[r]) <= BlocksNeeded(MaxContextLength)
    <3>1. /\ BlocksNeeded(num_tokens[r]) \in Nat /\ BlocksNeeded(MaxContextLength) \in Nat
          /\ BlocksNeeded(num_tokens[r]) <= BlocksNeeded(MaxContextLength)
      BY <2>5, <2>6, BlocksNeededFacts
    <3>2. Len(block_table[r]) <= BlocksNeeded(num_tokens[r])
      BY <2>4 DEF RoomInv
    <3> QED
      BY <2>5, <3>1, <3>2
  <2>8. pos \div BlockSize < Len(block_table[r])
    BY <2>3, <2>5, PositionFacts
  <2> QED
    BY <2>1, <2>2, <2>3, <2>5, <2>6, <2>7, <2>8
<1>2. EngineInv => RunnerInBounds
  BY <1>1 DEF RunnerInBounds
<1> QED
  BY <1>2, EngineInvAlways, PTL

=============================================================================
