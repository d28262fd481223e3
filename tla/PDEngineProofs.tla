--------------------------- MODULE PDEngineProofs ---------------------------
(***************************************************************************)
(* Proofs about PDEngine, for every set of requests, every prompt, both    *)
(* pools of any size and every limit.                                      *)
(*                                                                         *)
(* No page is lost or held twice on either side.  Each side's pool keeps   *)
(* its promises because its client keeps to the calling discipline: on D   *)
(* the scheduler, whose invariant must also survive what try_handoff does  *)
(* to it from outside; on P the engine itself.  What each side holds is    *)
(* known from where every request is, which Places states.                 *)
(*                                                                         *)
(* CacheInv says what both K/V caches hold: a row writes a slot of a page  *)
(* that no other request has, and a copy brings a whole prompt over.  With *)
(* HandleInv, what the caller's handle shows, the engine implements        *)
(* Serving.                                                                *)
(***************************************************************************)
EXTENDS PDEngine, SchedulerProofs

----------------------------------------------------------------------------
(***************************************************************************)
(* The prefill side is the same pool with other parameters, so that the    *)
(* lemmas of BlockManagerProofs hold of it; P and PP name the same pool.   *)
(***************************************************************************)
PP == INSTANCE BlockManagerProofs WITH
  NumBlocks <- PrefillBlocks,
  status <- p_status,
  num_tokens <- p_num_tokens,
  num_computed_tokens <- p_num_computed_tokens,
  block_table <- p_block_table,
  free_block_ids <- p_free_block_ids,
  ref_count <- p_ref_count,
  live_sequences <- p_live_sequences,
  prefix_cache <- [k \in PrefixKeys |-> NoBlock],
  last_used <- [k \in PrefixKeys |-> 0],
  cache_clock <- 0

LEMMA PrefillAssumptions ==
  /\ PP!SequenceAssumption
  /\ PP!BlockManagerAssumption
<1>1. PP!SequenceAssumption
  BY SequenceAssumption DEF PP!SequenceAssumption, PP!IsFiniteSet, IsFiniteSet
<1>2. PP!BlockManagerAssumption
  BY BlockManagerAssumption, PDAssumption DEF PP!BlockManagerAssumption
<1> QED
  BY <1>1, <1>2

LEMMA SameCardinality ==
  ASSUME NEW S
  PROVE  PP!Cardinality(S) = Cardinality(S) /\ P!Cardinality(S) = Cardinality(S)
  BY DEF PP!Cardinality, P!Cardinality, Cardinality

LEMMA SameSizes ==
  ASSUME NEW r, NEW tokens
  PROVE  /\ P!BlocksNeeded(tokens) = BlocksNeeded(tokens)
         /\ PP!BlocksNeeded(tokens) = BlocksNeeded(tokens)
         /\ P!PromptLen(r) = PromptLen(r) /\ PP!PromptLen(r) = PromptLen(r)
         /\ P!CacheableBlocks(r) = CacheableBlocks(r)
         /\ PP!CacheableBlocks(r) = CacheableBlocks(r)
         /\ P!PrefixKey(r, tokens) = PrefixKey(r, tokens)
         /\ PP!PrefixKey(r, tokens) = PrefixKey(r, tokens)
  BY DEF BlocksNeeded, P!BlocksNeeded, PP!BlocksNeeded, PromptLen, P!PromptLen, PP!PromptLen,
         CacheableBlocks, P!CacheableBlocks, PP!CacheableBlocks, PrefixKey, P!PrefixKey,
         PP!PrefixKey

LEMMA SamePool ==
  /\ P!Blocks = PP!Blocks
  /\ P!PrefixKeys = PP!PrefixKeys
  /\ P!NoBlock = PP!NoBlock
  /\ PP!PrefixKeys = PrefixKeys
  /\ PP!NoBlock = NoBlock
  BY SameSizes DEF P!Blocks, PP!Blocks, P!PrefixKeys, PP!PrefixKeys, PrefixKeys, P!NoBlock,
     PP!NoBlock, NoBlock

LEMMA SamePromises ==
  /\ P!RefCountsOwners = PP!RefCountsOwners
  /\ P!FreeListExact = PP!FreeListExact
<1>1. /\ P!CachedBlocks = PP!CachedBlocks
      /\ \A b : P!Holders(b) = PP!Holders(b)
  BY SamePool DEF P!CachedBlocks, PP!CachedBlocks, P!IsCached, PP!IsCached, P!Holders,
     PP!Holders, P!Range, PP!Range
<1>2. P!RefCountsOwners = PP!RefCountsOwners
  BY <1>1, SamePool, SameCardinality DEF P!RefCountsOwners, PP!RefCountsOwners
<1>3. P!FreeListExact = PP!FreeListExact
  BY SamePool DEF P!FreeListExact, PP!FreeListExact, P!Range, PP!Range,
     P!IsInjective, PP!IsInjective
<1> QED
  BY <1>2, <1>3

LEMMA SameInit ==
  ASSUME P!BMInit
  PROVE  PP!BMInit
<1>1. P!SequenceInit => PP!SequenceInit
  BY DEF P!SequenceInit, PP!SequenceInit, P!PromptLen, PP!PromptLen
<1>2. P!BlockManagerInit => PP!BlockManagerInit
  BY SamePool DEF P!BlockManagerInit, PP!BlockManagerInit
<1> QED
  BY <1>1, <1>2 DEF P!BMInit, PP!BMInit

LEMMA SameRelease ==
  ASSUME NEW r, P!Release(r)
  PROVE  PP!Release(r)
<1>1. P!LastReferences(r) = PP!LastReferences(r)
  BY DEF P!LastReferences, PP!LastReferences
<1>2. \A S : P!Ascending(S) = PP!Ascending(S)
  BY SameCardinality DEF P!Ascending, PP!Ascending
<1> QED
  BY <1>1, <1>2, SamePool DEF P!Release, PP!Release, P!DropReferences, PP!DropReferences,
     P!Range, PP!Range

LEMMA SameReservation ==
  ASSUME NEW r, NEW tokens
  PROVE  /\ P!EnsureCapacitySucceeds(r, tokens) => PP!EnsureCapacitySucceeds(r, tokens)
         /\ P!EnsureCapacityFails(r, tokens) => PP!EnsureCapacityFails(r, tokens)
<1>1. P!Evictable = PP!Evictable
  BY SamePool DEF P!Evictable, PP!Evictable, P!IsCached, PP!IsCached
<1>2. P!AdditionalBlocks(r, tokens) = PP!AdditionalBlocks(r, tokens)
  BY SameSizes DEF P!AdditionalBlocks, PP!AdditionalBlocks
<1>3. \A victims, n, additional :
        P!EvictionOrder(victims, n, additional) <=> PP!EvictionOrder(victims, n, additional)
  BY <1>1 DEF P!EvictionOrder, PP!EvictionOrder, P!Range, PP!Range
<1>4. \A victims, n, taken :
        P!EvictAndAllocate(r, victims, n, taken) => PP!EvictAndAllocate(r, victims, n, taken)
  BY SamePool DEF P!EvictAndAllocate, PP!EvictAndAllocate, P!EvictedBlocks, PP!EvictedBlocks,
     P!BecomesLive, PP!BecomesLive, P!Range, PP!Range
<1> QED
  BY <1>1, <1>2, <1>3, <1>4 DEF P!EnsureCapacitySucceeds, PP!EnsureCapacitySucceeds,
     P!EnsureCapacityFails, PP!EnsureCapacityFails

----------------------------------------------------------------------------
(***************************************************************************)
(* The invariant.                                                          *)
(***************************************************************************)

\* D's scheduler has r and has not released it.
OnD(r) ==
  /\ r \in known_request_ids
  /\ status[r] # "Finished" \/ (pc = "release" /\ r = items[cursor].sequence)

\* D's pages, and its view of a request it has not been handed.
DecodeInv ==
  \A r \in Requests :
    /\ Len(block_table[r]) =
         IF OnD(r) \/ (r = pending /\ pd_pc = "copy")
         THEN BlocksNeeded(ReserveTokens(r)) ELSE 0
    /\ r \notin known_request_ids =>
         status[r] = "Waiting" /\ num_computed_tokens[r] = 0 /\ num_tokens[r] = PromptLen(r)

PrefillInv ==
  /\ PP!PoolInv
  /\ \A r \in Requests :
       Len(p_block_table[r]) =
         IF r \in {prefilling, pending} THEN BlocksNeeded(PromptLen(r)) ELSE 0

\* Where the requests are, and how far P has come with them.
Places ==
  /\ requests \subseteq Requests
  /\ known_request_ids \subseteq requests
  /\ prefilling \in (requests \ known_request_ids) \cup {NoRequest}
  /\ pending \in (requests \ known_request_ids) \cup {NoRequest}
  /\ prefilling = NoRequest \/ pending = NoRequest
  /\ pd_waiting \in Seq(Requests) /\ IsInjective(pd_waiting)
  /\ \A r \in Range(pd_waiting) :
       r \in requests \ known_request_ids /\ r \notin {prefilling, pending}
  /\ \A r \in Requests : r \notin requests \/ r \in Range(pd_waiting) =>
       p_num_tokens[r] = PromptLen(r) /\ p_num_computed_tokens[r] = 0
  /\ prefilling # NoRequest /\ pd_pc # "release_prefill" =>
       /\ p_num_tokens[prefilling] = PromptLen(prefilling)
       /\ p_num_computed_tokens[prefilling] <= PromptLen(prefilling)
  /\ pending # NoRequest =>
       /\ p_num_tokens[pending] = PromptLen(pending) + 1
       /\ p_num_computed_tokens[pending] = PromptLen(pending)
       /\ MaxNewTokens[pending] > 1

\* D's step is inside step() exactly where step() calls d_scheduler_.
Control ==
  /\ pd_pc \in {"idle", "handoff", "copy", "prefill", "schedule", "run", "commit_decode",
                "commit_prefill", "sample_prefill", "release_prefill"}
  /\ pd_pc = "schedule" => pc \in {"running", "admit", "admit_capacity", "model"}
  /\ pd_pc = "run" => pc = "model" /\ (items # << >> \/ prefilling # NoRequest)
  /\ pd_pc = "commit_decode" => pc \in {"commit", "sample", "release"}
  /\ pd_pc \notin {"schedule", "run", "commit_decode"} => pc = "idle"
  /\ pd_pc = "copy" => pending # NoRequest
  /\ pd_pc \in {"commit_prefill", "sample_prefill", "release_prefill"} =>
       prefilling # NoRequest

PDInv ==
  /\ SchedulerInv
  /\ DecodeInv
  /\ PrefillInv
  /\ Places
  /\ Control

----------------------------------------------------------------------------
(***************************************************************************)
(* What D's scheduler does, seen from the handoff.                         *)
(***************************************************************************)

\* What D reserves is a number of tokens, and no fewer than D's sequence ever has.
LEMMA ReserveIsEnough ==
  ASSUME SchedulerInv, NEW r \in Requests
  PROVE  /\ ReserveTokens(r) \in Nat \ {0}
         /\ status[r] # "Finished" => num_tokens[r] <= ReserveTokens(r)
<1>1. TypeOK
  BY DEF SchedulerInv, SchedulerTypeOK
<1>2. /\ PromptLen(r) \in Nat \ {0} /\ MaxNewTokens[r] \in Nat \ {0} /\ num_tokens[r] \in Nat
  BY <1>1, RequestFacts
<1> QED
  BY <1>2 DEF ReserveTokens, SchedulerInv, RequestsInv

LEMMA HandedAreKnown ==
  ASSUME SchedulerInv
  PROVE  /\ \A r \in Range(waiting) \cup Range(running) :
              r \in Requests /\ r \in known_request_ids
         /\ \A r \in Range(waiting) : status[r] = "Waiting"
         /\ pc \notin {"commit", "sample", "release"} =>
              \A r \in Range(running) : status[r] = "Running"
  BY QueueFacts DEF SchedulerInv, QueuesPartitionRequests, RunningInv

\* The tables stay as long as they are and D keeps the same requests.
LEMMA DecodeKept ==
  ASSUME DecodeInv, UNCHANGED <<known_request_ids, pending>>,
         pd_pc # "copy", pd_pc' # "copy",
         \A r \in Requests :
           /\ Len(block_table'[r]) = Len(block_table[r])
           /\ OnD(r)' <=> OnD(r)
           /\ r \notin known_request_ids =>
                /\ status'[r] = status[r]
                /\ num_computed_tokens'[r] = num_computed_tokens[r]
                /\ num_tokens'[r] = num_tokens[r]
  PROVE  DecodeInv'
  BY DEF DecodeInv, ReserveTokens

\* A step that leaves the sequences and the pool alone, and releases nothing.
LEMMA DecodeFrame ==
  ASSUME DecodeInv, UNCHANGED <<bm_vars, known_request_ids, pending>>,
         pc # "release", pc' # "release", pd_pc # "copy", pd_pc' # "copy"
  PROVE  DecodeInv'
  BY DecodeKept DEF OnD, bm_vars

\* D's requests have all the pages they will need: a reservation changes no table.
LEMMA ReservationIsIdle ==
  ASSUME SchedulerInv, DecodeInv, NEW r \in Requests, r \in known_request_ids,
         status[r] # "Finished", PendingTokens(r) > 0, ~ BudgetSpent,
         LET target == num_computed_tokens[r] + TokensToSchedule(r)
         IN  EnsureCapacitySucceeds(r, target) \/ EnsureCapacityFails(r, target)
  PROVE  /\ UNCHANGED <<num_tokens, num_computed_tokens>>
         /\ \A q \in Requests : Len(block_table'[q]) = Len(block_table[q])
<1> DEFINE target == num_computed_tokens[r] + TokensToSchedule(r)
<1>1. PoolInv /\ TypeOK /\ SchedulerTypeOK
  BY DEF SchedulerInv, SchedulerTypeOK
<1>2. TokensToSchedule(r) \in 1 .. PendingTokens(r)
  BY <1>1, SomeTokensToSchedule
<1>3. target \in Nat /\ target <= num_tokens[r] /\ num_tokens[r] \in Nat
  BY <1>1, <1>2, RequestFacts DEF PendingTokens
<1> HIDE DEF target
<1>4. ReserveTokens(r) \in Nat /\ target <= ReserveTokens(r)
  BY <1>3, ReserveIsEnough
<1>5. /\ BlocksNeeded(target) <= BlocksNeeded(ReserveTokens(r))
      /\ BlocksNeeded(target) \in Nat
  BY <1>3, <1>4, BlocksNeededFacts
<1>6. Len(block_table[r]) = BlocksNeeded(ReserveTokens(r))
  BY DEF DecodeInv, OnD
<1>7. CASE EnsureCapacitySucceeds(r, target)
  <2>1. /\ UNCHANGED <<num_tokens, num_computed_tokens>>
        /\ \A q \in Requests : Len(block_table[q]) <= Len(block_table'[q])
        /\ \A q \in Requests : q # r => block_table'[q] = block_table[q]
        /\ \/ Len(block_table'[r]) = Len(block_table[r])
           \/ Len(block_table'[r]) = BlocksNeeded(target)
    BY <1>1, <1>3, <1>7, SuccessMakesRoom
  <2>2. Len(block_table[r]) \in Nat
    BY <1>1, RequestFacts
  <2>3. Len(block_table'[r]) = Len(block_table[r])
    BY <1>5, <1>6, <2>1, <2>2
  <2> QED
    BY <2>1, <2>3
<1>8. CASE EnsureCapacityFails(r, target)
  BY <1>1, <1>3, <1>8, FailureKeepsTables
<1> QED
  BY <1>7, <1>8 DEF target

LEMMA ScheduleRunningKeeps ==
  ASSUME SchedulerInv, DecodeInv, ScheduleRunning, UNCHANGED pending,
         pd_pc # "copy", pd_pc' # "copy"
  PROVE  DecodeInv'
<1> DEFINE r == running[cursor]
<1>1. /\ pc = "running" /\ MoreRunning
      /\ UNCHANGED <<status, known_request_ids, pc>>
      /\ LET target == num_computed_tokens[r] + TokensToSchedule(r)
         IN  EnsureCapacitySucceeds(r, target) \/ EnsureCapacityFails(r, target)
  BY DEF ScheduleRunning, queue_vars
<1>2. SchedulerTypeOK
  BY DEF SchedulerInv
<1>3. cursor \in DOMAIN running
  BY <1>1, <1>2, QueueFacts DEF SchedulerTypeOK, MoreRunning
<1>4. r \in Range(running)
  BY <1>2, <1>3, QueueFacts
<1>5. /\ r \in Requests /\ r \in known_request_ids /\ status[r] = "Running"
  BY <1>1, <1>4, HandedAreKnown
<1>6. PendingTokens(r) > 0 /\ ~ BudgetSpent
  BY <1>1, <1>4, <1>5 DEF MoreRunning, SchedulerInv, RunningInv
<1> HIDE DEF r
<1>7. /\ UNCHANGED <<num_tokens, num_computed_tokens>>
      /\ \A q \in Requests : Len(block_table'[q]) = Len(block_table[q])
  BY <1>1, <1>5, <1>6, ReservationIsIdle
<1> QED
  BY <1>1, <1>7, DecodeKept DEF OnD

\* The prefix cache being off, a look-up changes nothing.
LEMMA LookupIsIdle ==
  ASSUME SchedulerInv, NEW r \in Requests, ApplyPrefixCache(r)
  PROVE  /\ UNCHANGED <<status, num_tokens, num_computed_tokens>>
         /\ \A q \in Requests : Len(block_table'[q]) = Len(block_table[q])
<1>1. PoolInv /\ TypeOK
  BY DEF SchedulerInv, SchedulerTypeOK
<1>2. PICK hits \in 0 .. CacheableBlocks(r) :
        LET shared == [i \in 1 .. hits |-> prefix_cache[PrefixKey(r, i)]]
        IN  /\ PrefixHits(r, hits)
            /\ block_table' = [block_table EXCEPT ![r] = @ \o shared]
            /\ num_computed_tokens' = [num_computed_tokens EXCEPT ![r] = @ + hits * BlockSize]
            /\ UNCHANGED <<status, num_tokens>>
  BY DEF ApplyPrefixCache
<1>3. hits = 0
  BY <1>2, PDAssumption DEF PrefixHits
<1>4. [i \in 1 .. hits |-> prefix_cache[PrefixKey(r, i)]] = << >>
  BY <1>3
<1>5. block_table' = [block_table EXCEPT ![r] = @ \o << >>]
  BY <1>2, <1>4
<1>6. << >> \in Seq(Blocks) /\ Len(<< >>) = 0
  BY EmptySeq
<1>7. \A q \in Requests : Len(block_table'[q]) = Len(block_table[q])
  <2>1. /\ \A q \in Requests : q # r => block_table'[q] = block_table[q]
        /\ Len(block_table'[r]) = Len(block_table[r]) + 0
    BY <1>1, <1>5, <1>6, AppendLengthens
  <2>2. Len(block_table[r]) \in Nat
    BY <1>1, RequestFacts
  <2> QED
    BY <2>1, <2>2
<1>8. num_computed_tokens[r] + hits * BlockSize = num_computed_tokens[r]
  BY <1>1, <1>3, RequestFacts, BlockManagerAssumption
<1>9. UNCHANGED num_computed_tokens
  BY <1>1, <1>2, <1>8 DEF TypeOK
<1> QED
  BY <1>2, <1>7, <1>9

LEMMA AdmitFromCacheKeeps ==
  ASSUME SchedulerInv, DecodeInv, AdmitFromCache, UNCHANGED pending,
         pd_pc # "copy", pd_pc' # "copy"
  PROVE  DecodeInv'
<1> DEFINE r == Head(waiting)
<1>1. /\ pc = "admit" /\ pc' = "admit_capacity" /\ waiting # << >>
      /\ ApplyPrefixCache(r)
      /\ UNCHANGED known_request_ids
  BY DEF AdmitFromCache, MayAdmit, queue_vars
<1>2. r \in Requests
  BY <1>1, QueueFacts DEF SchedulerInv
<1> HIDE DEF r
<1>3. /\ UNCHANGED <<status, num_tokens, num_computed_tokens>>
      /\ \A q \in Requests : Len(block_table'[q]) = Len(block_table[q])
  BY <1>1, <1>2, LookupIsIdle
<1> QED
  BY <1>1, <1>3, DecodeKept DEF OnD

LEMMA AdmitKeeps ==
  ASSUME SchedulerInv, DecodeInv, Admit, UNCHANGED pending,
         pd_pc # "copy", pd_pc' # "copy"
  PROVE  DecodeInv'
<1> DEFINE r == Head(waiting)
<1>1. /\ pc = "admit_capacity" /\ pc' \in {"admit", "model"}
      /\ UNCHANGED known_request_ids
      /\ SetStatus(r, "Running") \/ UNCHANGED status
      /\ LET target == num_computed_tokens[r] + TokensToSchedule(r)
         IN  EnsureCapacitySucceeds(r, target) \/ EnsureCapacityFails(r, target)
  BY DEF Admit, StartRunning
<1>2. SchedulerTypeOK /\ TypeOK /\ MayAdmit
  BY <1>1 DEF SchedulerInv, SchedulerTypeOK, StageInv
<1>3. r \in Range(waiting) /\ r \in Requests
  BY <1>2, QueueFacts DEF MayAdmit
<1>4. r \in known_request_ids /\ status[r] = "Waiting"
  BY <1>3, HandedAreKnown
<1>5. PendingTokens(r) > 0 /\ ~ BudgetSpent
  BY <1>2, <1>3, <1>4, RequestFacts DEF MayAdmit, SchedulerInv, RequestsInv, PendingTokens
<1> HIDE DEF r
<1>6. /\ UNCHANGED <<num_tokens, num_computed_tokens>>
      /\ \A q \in Requests : Len(block_table'[q]) = Len(block_table[q])
  BY <1>1, <1>3, <1>4, <1>5, ReservationIsIdle
<1>7. /\ \A q \in Requests : q # r => status'[q] = status[q]
      /\ status'[r] \in {"Waiting", "Running"}
  BY <1>1, <1>2, <1>3, <1>4 DEF SetStatus, TypeOK
<1> QED
  BY <1>1, <1>4, <1>6, <1>7, DecodeKept DEF OnD

LEMMA CommitItemKeeps ==
  ASSUME SchedulerInv, DecodeInv, CommitItem, UNCHANGED pending,
         pd_pc # "copy", pd_pc' # "copy"
  PROVE  DecodeInv'
<1> DEFINE r == items[cursor].sequence
           count == items[cursor].num_scheduled_tokens
<1>1. /\ pc = "commit" /\ pc' \in {"commit", "sample"}
      /\ cursor <= Len(items)
      /\ ComputeTokens(r, count)
      /\ UNCHANGED <<status, num_tokens, block_table, known_request_ids>>
  BY DEF CommitItem, ComputeTokens, queue_vars
<1>2. SchedulerTypeOK /\ TypeOK
  BY DEF SchedulerInv, SchedulerTypeOK
<1>3. cursor \in DOMAIN items
  BY <1>1, <1>2, QueueFacts DEF SchedulerTypeOK
<1>4. r \in Range(running)
  BY <1>1, <1>3 DEF SchedulerInv, BatchInv, Untouched, Ready
<1>5. r \in Requests /\ r \in known_request_ids
  BY <1>4, HandedAreKnown
<1>6. \A q \in Requests : q # r => num_computed_tokens'[q] = num_computed_tokens[q]
  BY <1>1, <1>2 DEF ComputeTokens, MarkComputed, TypeOK
<1> HIDE DEF r
<1> QED
  BY <1>1, <1>5, <1>6, DecodeKept DEF OnD

LEMMA CommitSampleKeeps ==
  ASSUME SchedulerInv, DecodeInv, CommitSample, UNCHANGED pending,
         pd_pc # "copy", pd_pc' # "copy"
  PROVE  DecodeInv'
<1> DEFINE r == items[cursor].sequence
<1>1. PICK eos \in BOOLEAN :
        /\ Sample(r, eos)
        /\ IF ShouldFinishAfter(r, num_tokens[r] + 1, eos)
           THEN pc' = "release" /\ UNCHANGED cursor
           ELSE pc' = "commit" /\ cursor' = cursor + 1
  BY DEF CommitSample
<1>2. /\ pc = "sample" /\ UNCHANGED <<known_request_ids, items>>
      /\ UNCHANGED <<num_computed_tokens, block_table>>
  BY <1>1 DEF CommitSample, Sample, queue_vars, output_vars
<1>3. TypeOK
  BY DEF SchedulerInv, SchedulerTypeOK
<1>4. r \in Range(running) /\ status[r] = "Running"
  BY <1>2 DEF SchedulerInv, StageInv
<1>5. r \in Requests /\ r \in known_request_ids
  BY <1>4, HandedAreKnown
<1>6. \A q \in Requests : q # r => num_tokens'[q] = num_tokens[q] /\ status'[q] = status[q]
  BY <1>1, <1>3 DEF Sample, AppendToken, SetStatus, TypeOK
<1>7. ASSUME NEW q \in Requests
      PROVE  OnD(q)' <=> OnD(q)
  <2>1. CASE q # r
    <3>1. pc' = "release" => items'[cursor'].sequence = r
      BY <1>1, <1>2
    <3> QED
      BY <1>2, <1>6, <2>1, <3>1 DEF OnD
  <2>2. CASE q = r /\ ShouldFinishAfter(r, num_tokens[r] + 1, eos)
    <3>1. pc' = "release" /\ r = items'[cursor'].sequence
      BY <1>1, <1>2, <2>2
    <3> QED
      BY <1>2, <1>4, <1>5, <2>2, <3>1 DEF OnD
  <2>3. CASE q = r /\ ~ ShouldFinishAfter(r, num_tokens[r] + 1, eos)
    <3>1. UNCHANGED status
      BY <1>1, <2>3 DEF Sample
    <3> QED
      BY <1>2, <1>4, <1>5, <2>3, <3>1 DEF OnD
  <2> QED
    BY <2>1, <2>2, <2>3
<1> HIDE DEF r
<1> QED
  BY <1>2, <1>5, <1>6, <1>7, DecodeKept

\* The one that has finished gives back its pages, and no other one any.
LEMMA CommitReleaseKeeps ==
  ASSUME SchedulerInv, DecodeInv, CommitRelease, UNCHANGED pending,
         pd_pc # "copy", pd_pc' # "copy"
  PROVE  DecodeInv'
<1> DEFINE r == items[cursor].sequence
<1>1. /\ pc = "release" /\ pc' = "commit"
      /\ block_table' = [block_table EXCEPT ![r] = << >>]
      /\ UNCHANGED <<status, num_tokens, num_computed_tokens, known_request_ids>>
  BY DEF CommitRelease, Release, queue_vars
<1>2. TypeOK
  BY DEF SchedulerInv, SchedulerTypeOK
<1>3. r \in Range(running) /\ status[r] = "Finished"
  BY <1>1 DEF SchedulerInv, StageInv
<1>4. r \in Requests /\ r \in known_request_ids
  BY <1>3, HandedAreKnown
<1>5. Len(block_table'[r]) = 0
  BY <1>1, <1>2, <1>4, EmptySeq DEF TypeOK
<1>6. \A q \in Requests : q # r => block_table'[q] = block_table[q]
  BY <1>1, <1>2 DEF TypeOK
<1>7. \A q \in Requests : OnD(q)' <=> OnD(q) /\ q # r
  BY <1>1, <1>3, <1>4 DEF OnD
<1> HIDE DEF r
<1> QED
  BY <1>1, <1>5, <1>6, <1>7 DEF DecodeInv, ReserveTokens

\* Whatever d_scheduler_ is asked to do, D's pages stay as accounted for.
LEMMA SchedulerStepKeeps ==
  ASSUME SchedulerInv, DecodeInv, UNCHANGED pending, pd_pc # "copy", pd_pc' # "copy",
         \/ ScheduleRunning \/ EndRunning \/ AdmitFromCache \/ Admit \/ EndAdmit
         \/ NoProgress \/ RunFails \/ RunSucceeds
         \/ CommitItem \/ CommitSample \/ CommitRelease \/ EndCommit
  PROVE  SchedulerInv' /\ DecodeInv' /\ UNCHANGED known_request_ids
<1>1. SchedulerInv'
  BY SchedulerInvInductive DEF Next, EngineStep
<1>2. UNCHANGED known_request_ids
  BY DEF ScheduleRunning, EndRunning, AdmitFromCache, Admit, EndAdmit, NoProgress, RunFails,
         RunSucceeds, CommitItem, CommitSample, CommitRelease, EndCommit, queue_vars
<1>3. CASE EndRunning \/ EndAdmit \/ NoProgress \/ RunFails \/ RunSucceeds \/ EndCommit
  <2>1. UNCHANGED bm_vars /\ pc # "release" /\ pc' # "release"
    BY <1>3 DEF EndRunning, EndAdmit, NoProgress, RunFails, RunSucceeds, EndCommit, EndStep
  <2> QED
    BY <1>1, <1>2, <2>1, DecodeFrame
<1> QED
  BY <1>1, <1>2, <1>3, ScheduleRunningKeeps, AdmitFromCacheKeeps, AdmitKeeps,
     CommitItemKeeps, CommitSampleKeeps, CommitReleaseKeeps

----------------------------------------------------------------------------
(***************************************************************************)
(* Queues without repetition.                                              *)
(***************************************************************************)
LEMMA AppendToQueue ==
  ASSUME NEW queue \in Seq(Requests), IsInjective(queue),
         NEW r \in Requests, r \notin Range(queue)
  PROVE  /\ Append(queue, r) \in Seq(Requests)
         /\ IsInjective(Append(queue, r))
         /\ Range(Append(queue, r)) = Range(queue) \cup {r}
<1> DEFINE longer == Append(queue, r)
<1>1. /\ longer \in Seq(Requests)
      /\ Len(queue) \in Nat /\ DOMAIN queue = 1 .. Len(queue)
      /\ DOMAIN longer = 1 .. Len(queue) + 1
      /\ \A k \in 1 .. Len(queue) : longer[k] = queue[k]
      /\ longer[Len(queue) + 1] = r
  BY LenProperties, AppendProperties
<1> HIDE DEF longer
<1>2. \A k \in 1 .. Len(queue) + 1 : k \in 1 .. Len(queue) \/ k = Len(queue) + 1
  BY <1>1
<1>3. \A k \in 1 .. Len(queue) : queue[k] # r
  BY <1>1 DEF Range
<1>4. IsInjective(longer)
  BY <1>1, <1>2, <1>3 DEF IsInjective
<1>5. DOMAIN longer = DOMAIN queue \cup {Len(queue) + 1}
  BY <1>1
<1>6. Range(longer) = Range(queue) \cup {r}
  BY <1>1, <1>5 DEF Range
<1> QED
  BY <1>1, <1>4, <1>6 DEF longer

LEMMA HeadOfQueue ==
  ASSUME NEW queue \in Seq(Requests), queue # << >>, IsInjective(queue)
  PROVE  /\ Head(queue) \in Requests /\ Head(queue) \in Range(queue)
         /\ Tail(queue) \in Seq(Requests)
         /\ IsInjective(Tail(queue))
         /\ Range(Tail(queue)) \subseteq Range(queue) \ {Head(queue)}
<1> DEFINE rest == Tail(queue)
<1>1. /\ Len(queue) \in Nat \ {0} /\ DOMAIN queue = 1 .. Len(queue)
      /\ Head(queue) = queue[1]
  BY LenProperties, EmptySeq, HeadTailProperties
<1>2. /\ rest \in Seq(Requests)
      /\ DOMAIN rest = 1 .. Len(queue) - 1
      /\ \A i \in 1 .. Len(queue) - 1 : rest[i] = queue[i + 1]
  BY <1>1, HeadTailProperties, LenProperties
<1> HIDE DEF rest
<1>3. 1 \in DOMAIN queue /\ queue[1] \in Requests
  BY <1>1, ElementOfSeq
<1>4. \A i \in 1 .. Len(queue) - 1 : i + 1 \in DOMAIN queue /\ i + 1 # 1 /\ i \in Nat
  BY <1>1
<1>5. \A i, j \in DOMAIN queue : queue[i] = queue[j] => i = j
  BY DEF IsInjective
<1>6. IsInjective(rest)
  <2> SUFFICES ASSUME NEW i \in 1 .. Len(queue) - 1, NEW j \in 1 .. Len(queue) - 1,
                      rest[i] = rest[j]
               PROVE  i = j
    BY <1>2 DEF IsInjective
  <2>1. i + 1 = j + 1
    BY <1>2, <1>4, <1>5
  <2> QED
    BY <1>4, <2>1
<1>7. \A i \in DOMAIN rest : rest[i] \in Range(queue) \ {queue[1]}
  BY <1>2, <1>3, <1>4, <1>5 DEF Range
<1>8. Range(rest) \subseteq Range(queue) \ {queue[1]}
  BY <1>7 DEF Range
<1> QED
  BY <1>1, <1>2, <1>3, <1>6, <1>8 DEF rest, Range

----------------------------------------------------------------------------
(***************************************************************************)
(* What try_handoff does to D's scheduler from outside.                    *)
(***************************************************************************)

\* Between two of its steps the scheduler minds neither a change of the tables nor
\* the start of an empty step.
LEMMA IdlePreserves ==
  ASSUME SchedulerInv, PoolInv', pc = "idle", pc' \in {"idle", "running"},
         UNCHANGED <<status, num_tokens, num_computed_tokens, waiting, running,
                     known_request_ids, items, num_batched_tokens, cursor>>
  PROVE  SchedulerInv'
<1>1. SchedulerTypeOK'
  BY DEF SchedulerInv, SchedulerTypeOK, PoolInv, Stages
<1>2. QueuesPartitionRequests'
  BY DEF SchedulerInv, QueuesPartitionRequests
<1>3. RequestsInv'
  BY DEF SchedulerInv, RequestsInv
<1>4. RunningInv'
  BY DEF SchedulerInv, RunningInv, PendingTokens
<1>5. items' = << >>
  BY DEF SchedulerInv, StageInv
<1>6. BatchInv' /\ StageInv'
  BY <1>5 DEF BatchInv, StageInv, Untouched
<1> QED
  BY <1>1, <1>2, <1>3, <1>4, <1>6 DEF SchedulerInv

\* The pages of the request to be handed over are reserved, or not all of them.
LEMMA HandoffReservationKeeps ==
  ASSUME PDInv, pd_pc = "handoff", ~ HandoffBlocked, UNCHANGED pending,
         UNCHANGED <<status, queue_and_output, pc, cursor>>,
         \/ EnsureCapacitySucceeds(pending, ReserveTokens(pending)) /\ pd_pc' = "copy"
         \/ EnsureCapacityFails(pending, ReserveTokens(pending)) /\ pd_pc' = "prefill"
  PROVE  SchedulerInv' /\ DecodeInv'
<1>1. SchedulerInv /\ PoolInv /\ TypeOK /\ DecodeInv /\ Places /\ pc = "idle"
  BY DEF PDInv, SchedulerInv, SchedulerTypeOK, Control
<1>2. pending \in Requests \ known_request_ids
  BY <1>1 DEF Places, HandoffBlocked
<1>3. /\ UNCHANGED <<waiting, running, known_request_ids, items, num_batched_tokens>>
      /\ UNCHANGED <<status, pc, cursor>>
  BY DEF queue_and_output, queue_vars, output_vars
<1>4. ReserveTokens(pending) \in Nat \ {0}
  BY <1>1, <1>2, ReserveIsEnough
<1>5. PoolInv'
  BY <1>1, <1>2, <1>3, <1>4, EnsureCapacityPreservesPoolInv DEF TypeOK
<1>6. Len(block_table[pending]) = 0
  BY <1>1, <1>2 DEF DecodeInv, OnD
<1>7. /\ UNCHANGED <<num_tokens, num_computed_tokens>>
      /\ \A q \in Requests : q # pending => Len(block_table'[q]) = Len(block_table[q])
      /\ Len(block_table'[pending]) =
           IF pd_pc' = "copy" THEN BlocksNeeded(ReserveTokens(pending)) ELSE 0
  <2>1. CASE EnsureCapacitySucceeds(pending, ReserveTokens(pending)) /\ pd_pc' = "copy"
    BY <1>1, <1>2, <1>4, <1>6, <2>1, SuccessMakesRoom, FirstReservation
  <2>2. CASE EnsureCapacityFails(pending, ReserveTokens(pending)) /\ pd_pc' = "prefill"
    BY <1>1, <1>2, <1>4, <1>6, <2>2, FailureKeepsTables
  <2> QED
    BY <2>1, <2>2
<1>8. SchedulerInv'
  BY <1>1, <1>3, <1>5, <1>7, IdlePreserves
<1>9. \A q \in Requests : OnD(q)' <=> OnD(q)
  BY <1>3 DEF OnD
<1>10. DecodeInv'
  BY <1>1, <1>2, <1>3, <1>7, <1>9 DEF DecodeInv, ReserveTokens, OnD
<1> QED
  BY <1>8, <1>10

\* The copy has thrown.
LEMMA HandoffReleaseKeeps ==
  ASSUME PDInv, pd_pc = "copy", Release(pending), UNCHANGED pending, pd_pc' = "idle",
         UNCHANGED <<queue_and_output, pc, cursor>>
  PROVE  SchedulerInv' /\ DecodeInv'
<1>1. SchedulerInv /\ PoolInv /\ TypeOK /\ DecodeInv /\ pc = "idle"
  BY DEF PDInv, SchedulerInv, SchedulerTypeOK, Control
<1>2. pending \in Requests \ known_request_ids
  BY DEF PDInv, Places, Control
<1>3. /\ UNCHANGED <<waiting, running, known_request_ids, items, num_batched_tokens>>
      /\ UNCHANGED <<pc, cursor>>
  BY DEF queue_and_output, queue_vars, output_vars
<1>4. /\ block_table' = [block_table EXCEPT ![pending] = << >>]
      /\ UNCHANGED <<status, num_tokens, num_computed_tokens>>
  BY DEF Release
<1>5. PoolInv'
  BY <1>1, <1>2, ReleasePreservesPoolInv
<1>6. SchedulerInv'
  BY <1>1, <1>3, <1>4, <1>5, IdlePreserves
<1>7. /\ Len(block_table'[pending]) = 0
      /\ \A q \in Requests : q # pending => block_table'[q] = block_table[q]
  BY <1>1, <1>2, <1>4, EmptySeq DEF TypeOK
<1>8. \A q \in Requests : OnD(q)' <=> OnD(q)
  BY <1>3, <1>4 DEF OnD
<1>9. DecodeInv'
  BY <1>1, <1>2, <1>3, <1>4, <1>7, <1>8 DEF DecodeInv, ReserveTokens, OnD
<1> QED
  BY <1>6, <1>9

\* What P hands over: the whole prompt computed, and one generated token.
LEMMA HandedOver ==
  ASSUME PDInv, pd_pc = "copy"
  PROVE  /\ pending \in Requests \ known_request_ids
         /\ PromptLen(pending) \in Nat \ {0}
         /\ p_num_computed_tokens[pending] = PromptLen(pending)
         /\ HandedTokens(pending) = PromptLen(pending) + 1
         /\ MaxNewTokens[pending] \in Nat /\ MaxNewTokens[pending] > 1
<1>1. pending \in Requests \ known_request_ids
  BY DEF PDInv, Places, Control
<1> QED
  BY <1>1, RequestFacts DEF PDInv, Places, Control, HandedTokens, SchedulerInv,
     SchedulerTypeOK

\* D takes the request over, already started, at the end of waiting_.
LEMMA HandoffAddKeeps ==
  ASSUME PDInv, pd_pc = "copy", pd_pc' # "copy",
         num_computed_tokens' =
           [num_computed_tokens EXCEPT ![pending] = p_num_computed_tokens[pending]],
         num_tokens' = [num_tokens EXCEPT ![pending] = HandedTokens(pending)],
         known_request_ids' = known_request_ids \cup {pending},
         waiting' = Append(waiting, pending),
         pending' = NoRequest,
         UNCHANGED <<status, block_table, pool_vars, running, output_vars, pc, cursor>>
  PROVE  SchedulerInv' /\ DecodeInv'
<1>0. PICK r \in Requests : r = pending
  BY HandedOver
<1>1. /\ SchedulerInv /\ PoolInv /\ TypeOK /\ SchedulerTypeOK /\ DecodeInv
      /\ pc = "idle" /\ pc' = "idle"
  BY DEF PDInv, SchedulerInv, SchedulerTypeOK, Control
<1>2. /\ r \notin known_request_ids
      /\ PromptLen(r) \in Nat \ {0} /\ MaxNewTokens[r] \in Nat /\ MaxNewTokens[r] > 1
      /\ status[r] = "Waiting" /\ num_computed_tokens[r] = 0
  BY <1>0, <1>1, HandedOver DEF DecodeInv
<1>3. /\ num_computed_tokens' = [num_computed_tokens EXCEPT ![r] = PromptLen(r)]
      /\ num_tokens' = [num_tokens EXCEPT ![r] = PromptLen(r) + 1]
  BY <1>0, HandedOver
<1>4. /\ num_computed_tokens' \in [Requests -> Nat] /\ num_tokens' \in [Requests -> Nat]
      /\ num_computed_tokens'[r] = PromptLen(r) /\ num_tokens'[r] = PromptLen(r) + 1
      /\ \A q \in Requests : q # r =>
           num_computed_tokens'[q] = num_computed_tokens[q] /\ num_tokens'[q] = num_tokens[q]
  BY <1>1, <1>2, <1>3 DEF TypeOK
<1>5. PoolInv'
  <2>1. \A q \in Requests : num_computed_tokens[q] <= num_computed_tokens'[q]
    BY <1>1, <1>2, <1>4 DEF TypeOK
  <2> QED
    BY <1>1, <1>4, <2>1, PoolInvCounters DEF TypeOK
<1>6. r \notin Range(waiting) /\ r \notin Range(running)
  BY <1>1, <1>2, HandedAreKnown
<1>7. /\ waiting' \in Seq(Requests) /\ IsInjective(waiting')
      /\ Range(waiting') = Range(waiting) \cup {r}
  BY <1>0, <1>1, <1>6, AppendToQueue
  DEF SchedulerTypeOK, SchedulerInv, QueuesPartitionRequests
<1>8. SchedulerTypeOK'
  BY <1>0, <1>1, <1>5, <1>7 DEF SchedulerTypeOK, PoolInv, output_vars
<1>9. known_request_ids' = known_request_ids \cup {r}
  BY <1>0
<1>10. QueuesPartitionRequests'
  BY <1>1, <1>2, <1>7, <1>9 DEF SchedulerInv, QueuesPartitionRequests
<1>11. RequestsInv'
  BY <1>1, <1>2, <1>4 DEF SchedulerInv, RequestsInv
<1>12. RunningInv'
  <2>1. \A q \in Range(running) : q \in Requests /\ q # r
    BY <1>1, <1>6, HandedAreKnown
  <2> QED
    BY <1>1, <1>4, <1>9, <2>1 DEF SchedulerInv, RunningInv, PendingTokens
<1>13. BatchInv' /\ StageInv'
  <2>1. items' = << >>
    BY <1>1 DEF SchedulerInv, StageInv, output_vars
  <2> QED
    BY <1>1, <2>1 DEF BatchInv, StageInv, Untouched
<1>14. SchedulerInv'
  BY <1>5, <1>8, <1>10, <1>11, <1>12, <1>13 DEF SchedulerInv
<1>15. NoRequest \notin Requests
  BY PDAssumption
<1>16. \A q \in Requests : OnD(q)' <=> OnD(q) \/ q = r
  BY <1>1, <1>2, <1>9 DEF OnD
<1>17. DecodeInv'
  BY <1>0, <1>1, <1>2, <1>4, <1>9, <1>15, <1>16 DEF DecodeInv, ReserveTokens, OnD
<1> QED
  BY <1>14, <1>17

----------------------------------------------------------------------------
(***************************************************************************)
(* The prefill side.                                                       *)
(***************************************************************************)

LEMMA PrefillTypes ==
  ASSUME PP!PoolInv
  PROVE  /\ p_status \in [Requests -> SequenceStatus]
         /\ p_num_tokens \in [Requests -> Nat]
         /\ p_num_computed_tokens \in [Requests -> Nat]
         /\ \A r \in Requests : Len(p_block_table[r]) \in Nat
         /\ p_block_table \in [Requests -> Seq(PP!Blocks)]
         /\ PP!TypeOK
<1>1. PP!TypeOK
  BY DEF PP!PoolInv
<1>2. PP!SequenceStatus = SequenceStatus
  BY DEF PP!SequenceStatus, SequenceStatus
<1>3. p_block_table \in [Requests -> Seq(PP!Blocks)]
  BY <1>1 DEF PP!TypeOK
<1> QED
  BY <1>1, <1>2, <1>3, LenProperties DEF PP!TypeOK

\* Where P's pages stay as they are and its counters only grow.
LEMMA PrefillCounters ==
  ASSUME PP!PoolInv,
         UNCHANGED <<p_block_table, p_free_block_ids, p_ref_count, p_live_sequences>>,
         p_status' \in [Requests -> SequenceStatus],
         p_num_tokens' \in [Requests -> Nat],
         p_num_computed_tokens' \in [Requests -> Nat],
         \A r \in Requests : p_num_computed_tokens[r] <= p_num_computed_tokens'[r]
  PROVE  PP!PoolInv'
<1>1. PP!SequenceStatus = SequenceStatus
  BY DEF PP!SequenceStatus, SequenceStatus
<1>2. UNCHANGED <<p_block_table, PP!pool_vars>>
  BY DEF PP!pool_vars
<1> QED
  BY <1>1, <1>2, PP!PoolInvCounters, PrefillAssumptions

LEMMA PrefillFrame ==
  ASSUME PrefillInv, UNCHANGED p_vars, UNCHANGED <<prefilling, pending>>
  PROVE  PrefillInv'
<1>1. /\ UNCHANGED <<p_status, p_num_tokens, p_num_computed_tokens, p_block_table>>
      /\ UNCHANGED <<p_free_block_ids, p_ref_count, p_live_sequences>>
  BY DEF p_vars
<1>2. PP!PoolInv'
  BY <1>1, PrefillTypes, PrefillCounters DEF PrefillInv
<1> QED
  BY <1>1, <1>2 DEF PrefillInv

\* Reserving for the prompt of the next request: all its pages, or none.
LEMMA PrefillReservationKeeps ==
  ASSUME PrefillInv, NEW r \in Requests, r \notin {prefilling, pending},
         p_status' \in [Requests -> SequenceStatus],
         P!EnsureCapacitySucceeds(r, PromptLen(r)) \/ P!EnsureCapacityFails(r, PromptLen(r))
  PROVE  /\ PP!PoolInv'
         /\ UNCHANGED <<p_num_tokens, p_num_computed_tokens>>
         /\ \A q \in Requests : q # r => Len(p_block_table'[q]) = Len(p_block_table[q])
         /\ P!EnsureCapacitySucceeds(r, PromptLen(r)) =>
              Len(p_block_table'[r]) = BlocksNeeded(PromptLen(r))
         /\ P!EnsureCapacityFails(r, PromptLen(r)) => Len(p_block_table'[r]) = 0
<1> DEFINE n == PromptLen(r)
<1>1. PP!PoolInv /\ Len(p_block_table[r]) = 0
  BY DEF PrefillInv
<1>2. n \in Nat \ {0}
  BY PrefixKeyFacts
<1> HIDE DEF n
<1>3. PP!SequenceStatus = SequenceStatus
  BY DEF PP!SequenceStatus, SequenceStatus
<1>4. /\ P!EnsureCapacitySucceeds(r, n) => PP!EnsureCapacitySucceeds(r, n)
      /\ P!EnsureCapacityFails(r, n) => PP!EnsureCapacityFails(r, n)
  BY SameReservation
<1>5. PP!PoolInv'
  BY <1>1, <1>2, <1>3, <1>4, PP!EnsureCapacityPreservesPoolInv, PrefillAssumptions DEF n
<1>6. ASSUME PP!EnsureCapacitySucceeds(r, n)
      PROVE  /\ UNCHANGED <<p_num_tokens, p_num_computed_tokens>>
             /\ \A q \in Requests : q # r => Len(p_block_table'[q]) = Len(p_block_table[q])
             /\ Len(p_block_table'[r]) = BlocksNeeded(n)
  <2>1. /\ UNCHANGED <<p_num_tokens, p_num_computed_tokens>>
        /\ \A q \in Requests : q # r => p_block_table'[q] = p_block_table[q]
    BY <1>1, <1>2, <1>6, PP!SuccessMakesRoom, PrefillAssumptions
  <2>2. Len(p_block_table'[r]) = PP!BlocksNeeded(n)
    BY <1>1, <1>2, <1>6, PP!FirstReservation, PrefillAssumptions
  <2> QED
    BY <2>1, <2>2, SameSizes
<1>7. ASSUME PP!EnsureCapacityFails(r, n)
      PROVE  /\ UNCHANGED <<p_num_tokens, p_num_computed_tokens>>
             /\ \A q \in Requests : Len(p_block_table'[q]) = Len(p_block_table[q])
  BY <1>1, <1>2, <1>7, PP!FailureKeepsTables, PrefillAssumptions
<1>8. CASE P!EnsureCapacitySucceeds(r, n) /\ ~ P!EnsureCapacityFails(r, n)
  BY <1>4, <1>5, <1>6, <1>8 DEF n
<1>9. CASE ~ P!EnsureCapacitySucceeds(r, n)
  BY <1>1, <1>4, <1>5, <1>7, <1>9 DEF n
<1>10. ~ (P!EnsureCapacitySucceeds(r, n) /\ P!EnsureCapacityFails(r, n))
  <2> SUFFICES ASSUME P!EnsureCapacitySucceeds(r, n), P!EnsureCapacityFails(r, n)
               PROVE  FALSE
    OBVIOUS
  <2>1. Len(p_block_table'[r]) = BlocksNeeded(n) /\ Len(p_block_table'[r]) = 0
    BY <1>1, <1>4, <1>6, <1>7
  <2>2. n <= BlocksNeeded(n) * BlockSize /\ BlocksNeeded(n) \in Nat
    BY <1>2, BlocksNeededNat, BlocksNeededHold
  <2> QED
    BY <1>2, <2>1, <2>2, BlockManagerAssumption
<1> QED
  BY <1>8, <1>9, <1>10 DEF n

\* A request leaves P with all its pages.
LEMMA PrefillReleaseKeeps ==
  ASSUME PrefillInv, NEW r \in Requests, P!Release(r)
  PROVE  /\ PP!PoolInv'
         /\ UNCHANGED <<p_num_tokens, p_num_computed_tokens>>
         /\ Len(p_block_table'[r]) = 0
         /\ \A q \in Requests : q # r => p_block_table'[q] = p_block_table[q]
<1>1. PP!PoolInv
  BY DEF PrefillInv
<1>2. PP!Release(r)
  BY SameRelease
<1>3. PP!PoolInv'
  BY <1>1, <1>2, PP!ReleasePreservesPoolInv, PrefillAssumptions
<1>4. /\ UNCHANGED <<p_num_tokens, p_num_computed_tokens>>
      /\ p_block_table' = [p_block_table EXCEPT ![r] = << >>]
  BY DEF P!Release
<1> QED
  BY <1>1, <1>3, <1>4, PrefillTypes, EmptySeq

----------------------------------------------------------------------------
(***************************************************************************)
(* Every step of the engine keeps the invariant.                           *)
(***************************************************************************)

\* Nothing moves and nothing is computed: only where step() is changes.
LEMMA PlacesFrame ==
  ASSUME Places,
         UNCHANGED <<requests, pd_waiting, prefilling, pending, known_request_ids>>,
         UNCHANGED <<p_num_tokens, p_num_computed_tokens>>,
         pd_pc = "release_prefill" => pd_pc' = "release_prefill" \/ prefilling = NoRequest
  PROVE  Places'
  BY DEF Places

\* D goes nowhere.
LEMMA DecodeStays ==
  ASSUME PDInv, UNCHANGED <<vars, pending>>, pd_pc # "copy", pd_pc' # "copy"
  PROVE  /\ SchedulerInv' /\ DecodeInv'
         /\ UNCHANGED <<known_request_ids, pc, items, cursor>>
<1>1. SchedulerInv'
  BY SchedulerInvInductive DEF PDInv
<1>2. DecodeInv'
  BY DEF PDInv, DecodeInv, OnD, ReserveTokens, vars
<1> QED
  BY <1>1, <1>2 DEF vars

LEMMA AddRequestKeeps ==
  ASSUME PDInv, NEW r \in Requests, PDAddRequest(r)
  PROVE  PDInv'
<1>1. /\ pd_pc = "idle" /\ r \notin requests
      /\ requests' = requests \cup {r}
      /\ pd_waiting' = Append(pd_waiting, r)
      /\ UNCHANGED <<vars, p_vars, prefilling, pending, pd_pc>>
  BY DEF PDAddRequest
<1>2. /\ SchedulerInv' /\ DecodeInv'
      /\ UNCHANGED <<known_request_ids, pc, items, cursor>>
  BY <1>1, DecodeStays
<1>3. PrefillInv'
  BY <1>1, PrefillFrame DEF PDInv
<1>4. Places
  BY DEF PDInv
<1>5. /\ pd_waiting' \in Seq(Requests) /\ IsInjective(pd_waiting')
      /\ Range(pd_waiting') = Range(pd_waiting) \cup {r}
  BY <1>1, <1>4, AppendToQueue DEF Places
<1>6. Places'
  <2>1. r \notin known_request_ids /\ r \notin {prefilling, pending}
    BY <1>1, <1>4, PDAssumption DEF Places
  <2>2. UNCHANGED <<p_num_tokens, p_num_computed_tokens>>
    BY <1>1 DEF p_vars
  <2> QED
    BY <1>1, <1>2, <1>4, <1>5, <2>1, <2>2 DEF Places
<1>7. Control'
  BY <1>1, <1>2 DEF PDInv, Control
<1> QED
  BY <1>2, <1>3, <1>6, <1>7 DEF PDInv

\* Steps of the engine alone: both sides stay as they are.
LEMMA EngineMovesKeep ==
  ASSUME PDInv, StepBegins \/ HandoffSkipped \/ PrefillRuns \/ DecodeRuns \/ PDDone
  PROVE  PDInv'
<1>1. /\ UNCHANGED <<vars, p_vars, requests, pd_waiting, prefilling, pending>>
      /\ \/ pd_pc = "idle" /\ pd_pc' = "handoff"
         \/ pd_pc = "handoff" /\ pd_pc' = "prefill"
         \/ pd_pc = "run" /\ pd_pc' = "run"
         \/ pd_pc = "idle" /\ pd_pc' = "idle"
  BY DEF StepBegins, HandoffSkipped, PrefillRuns, DecodeRuns, PDDone, pd_vars, p_vars,
         pd_queue_vars, vars
<1>2. /\ SchedulerInv' /\ DecodeInv'
      /\ UNCHANGED <<known_request_ids, pc, items, cursor>>
  BY <1>1, DecodeStays
<1>3. PrefillInv'
  BY <1>1, PrefillFrame DEF PDInv
<1>4. Places'
  BY <1>1, <1>2, PlacesFrame DEF PDInv, p_vars
<1>5. Control'
  BY <1>1, <1>2 DEF PDInv, Control
<1> QED
  BY <1>2, <1>3, <1>4, <1>5 DEF PDInv

LEMMA HandoffReservesKeeps ==
  ASSUME PDInv, HandoffReserves \/ HandoffWaitsForPages
  PROVE  PDInv'
<1>1. /\ pd_pc = "handoff" /\ ~ HandoffBlocked
      /\ UNCHANGED <<status, queue_and_output, pc, cursor, p_vars>>
      /\ UNCHANGED <<requests, pd_waiting, prefilling, pending>>
      /\ \/ EnsureCapacitySucceeds(pending, ReserveTokens(pending)) /\ pd_pc' = "copy"
         \/ EnsureCapacityFails(pending, ReserveTokens(pending)) /\ pd_pc' = "prefill"
  BY DEF HandoffReserves, HandoffWaitsForPages, pd_queue_vars
<1>2. SchedulerInv' /\ DecodeInv'
  BY <1>1, HandoffReservationKeeps
<1>3. PrefillInv'
  BY <1>1, PrefillFrame DEF PDInv
<1>4. Places'
  BY <1>1, PlacesFrame DEF PDInv, p_vars, queue_and_output, queue_vars
<1>5. Control'
  BY <1>1 DEF PDInv, Control, HandoffBlocked
<1> QED
  BY <1>2, <1>3, <1>4, <1>5 DEF PDInv

LEMMA HandoffFailsKeeps ==
  ASSUME PDInv, HandoffFails
  PROVE  PDInv'
<1>1. /\ pd_pc = "copy" /\ pd_pc' = "idle" /\ Release(pending)
      /\ UNCHANGED <<queue_and_output, pc, cursor, p_vars>>
      /\ UNCHANGED <<requests, pd_waiting, prefilling, pending>>
  BY DEF HandoffFails, pd_queue_vars
<1>2. SchedulerInv' /\ DecodeInv'
  BY <1>1, HandoffReleaseKeeps
<1>3. PrefillInv'
  BY <1>1, PrefillFrame DEF PDInv
<1>4. Places'
  BY <1>1, PlacesFrame DEF PDInv, p_vars, queue_and_output, queue_vars
<1>5. Control'
  BY <1>1 DEF PDInv, Control
<1> QED
  BY <1>2, <1>3, <1>4, <1>5 DEF PDInv

LEMMA HandoffCopiesKeeps ==
  ASSUME PDInv, HandoffCopies
  PROVE  PDInv'
<1>1. /\ pd_pc = "copy" /\ pd_pc' = "prefill" /\ pending' = NoRequest
      /\ num_computed_tokens' =
           [num_computed_tokens EXCEPT ![pending] = p_num_computed_tokens[pending]]
      /\ num_tokens' = [num_tokens EXCEPT ![pending] = HandedTokens(pending)]
      /\ known_request_ids' = known_request_ids \cup {pending}
      /\ waiting' = Append(waiting, pending)
      /\ P!Release(pending)
      /\ UNCHANGED <<status, block_table, pool_vars, running, output_vars, pc, cursor>>
      /\ UNCHANGED <<requests, pd_waiting, prefilling>>
  BY DEF HandoffCopies
<1>2. SchedulerInv' /\ DecodeInv'
  BY <1>1, HandoffAddKeeps
<1>3. /\ PrefillInv /\ Places /\ NoRequest \notin Requests
      /\ pending \in Requests \ known_request_ids
      /\ prefilling = NoRequest
  BY <1>1, HandedOver, PDAssumption DEF PDInv, Places
<1>4. /\ PP!PoolInv'
      /\ UNCHANGED <<p_num_tokens, p_num_computed_tokens>>
      /\ Len(p_block_table'[pending]) = 0
      /\ \A q \in Requests : q # pending => p_block_table'[q] = p_block_table[q]
  BY <1>1, <1>3, PrefillReleaseKeeps
<1>5. PrefillInv'
  BY <1>1, <1>3, <1>4 DEF PrefillInv
<1>6. Places'
  BY <1>1, <1>3, <1>4 DEF Places
<1>7. Control'
  BY <1>1 DEF PDInv, Control
<1> QED
  BY <1>2, <1>5, <1>6, <1>7 DEF PDInv

\* d_scheduler_.schedule() starts, whether D has anything or not.
LEMMA DecodeStarts ==
  ASSUME PDInv, pd_pc = "prefill", pd_pc' = "schedule", pc' = "running",
         UNCHANGED <<bm_vars, queue_and_output, cursor>>
  PROVE  /\ SchedulerInv' /\ DecodeInv'
         /\ UNCHANGED known_request_ids
<1>1. SchedulerInv /\ DecodeInv /\ pc = "idle"
  BY DEF PDInv, Control
<1>2. /\ UNCHANGED <<status, num_tokens, num_computed_tokens, block_table>>
      /\ UNCHANGED <<waiting, running, known_request_ids, items, num_batched_tokens, cursor>>
  BY DEF bm_vars, queue_and_output, queue_vars, output_vars
<1>3. PoolInv'
  BY <1>1, PoolInvInductive DEF SchedulerInv
<1>4. SchedulerInv'
  BY <1>1, <1>2, <1>3, IdlePreserves
<1>5. DecodeInv'
  BY <1>1, <1>2 DEF DecodeInv, OnD, ReserveTokens
<1> QED
  BY <1>2, <1>4, <1>5

LEMMA PrefillAdmitsKeeps ==
  ASSUME PDInv, PrefillAdmits
  PROVE  PDInv'
<1> DEFINE r == Head(pd_waiting)
<1>1. /\ pd_pc = "prefill" /\ pd_pc' = "schedule" /\ pc' = "running"
      /\ prefilling = NoRequest /\ pending = NoRequest /\ pd_waiting # << >>
      /\ P!EnsureCapacitySucceeds(r, PromptLen(r))
      /\ p_status' = [p_status EXCEPT ![r] = "Running"]
      /\ prefilling' = r /\ pd_waiting' = Tail(pd_waiting)
      /\ UNCHANGED <<bm_vars, queue_and_output, cursor, requests, pending>>
  BY DEF PrefillAdmits, MayPrefill, P!SetStatus
<1>2. SchedulerInv' /\ DecodeInv' /\ UNCHANGED known_request_ids
  BY <1>1, DecodeStarts
<1>3. PrefillInv /\ Places /\ NoRequest \notin Requests
  BY PDAssumption DEF PDInv
<1>4. /\ r \in Requests /\ r \in Range(pd_waiting)
      /\ pd_waiting' \in Seq(Requests) /\ IsInjective(pd_waiting')
      /\ Range(pd_waiting') \subseteq Range(pd_waiting) \ {r}
  BY <1>1, <1>3, HeadOfQueue DEF Places
<1> HIDE DEF r
<1>5. p_status' \in [Requests -> SequenceStatus]
  BY <1>1, <1>3, <1>4, PrefillTypes DEF PrefillInv, SequenceStatus
<1>6. /\ PP!PoolInv'
      /\ UNCHANGED <<p_num_tokens, p_num_computed_tokens>>
      /\ \A q \in Requests : q # r => Len(p_block_table'[q]) = Len(p_block_table[q])
      /\ Len(p_block_table'[r]) = BlocksNeeded(PromptLen(r))
  BY <1>1, <1>3, <1>4, <1>5, PrefillReservationKeeps
<1>7. PrefillInv'
  BY <1>1, <1>3, <1>4, <1>6 DEF PrefillInv
<1>8. PromptLen(r) \in Nat
  BY <1>4, PrefixKeyFacts
<1>9. Places'
  BY <1>1, <1>2, <1>3, <1>4, <1>6, <1>8 DEF Places
<1>10. Control'
  BY <1>1 DEF Control
<1> QED
  BY <1>2, <1>7, <1>9, <1>10 DEF PDInv

LEMMA PrefillSkippedKeeps ==
  ASSUME PDInv, PrefillSkipped
  PROVE  PDInv'
<1> DEFINE r == Head(pd_waiting)
<1>1. /\ pd_pc = "prefill" /\ pd_pc' = "schedule" /\ pc' = "running"
      /\ UNCHANGED <<bm_vars, queue_and_output, cursor, requests, pd_waiting, prefilling,
                     pending>>
  BY DEF PrefillSkipped, pd_queue_vars
<1>2. SchedulerInv' /\ DecodeInv' /\ UNCHANGED known_request_ids
  BY <1>1, DecodeStarts
<1>3. PrefillInv /\ Places
  BY DEF PDInv
<1>4. PrefillInv' /\ UNCHANGED <<p_num_tokens, p_num_computed_tokens>>
  <2>1. CASE UNCHANGED p_vars
    BY <1>1, <1>3, <2>1, PrefillFrame DEF p_vars
  <2>2. CASE MayPrefill /\ P!EnsureCapacityFails(r, PromptLen(r)) /\ UNCHANGED p_status
    <3>1. r \in Requests /\ r \notin {prefilling, pending}
      BY <1>3, <2>2, HeadOfQueue DEF Places, MayPrefill
    <3>2. p_status' \in [Requests -> SequenceStatus]
      BY <1>3, <2>2, PrefillTypes DEF PrefillInv
    <3> HIDE DEF r
    <3>3. /\ PP!PoolInv'
          /\ UNCHANGED <<p_num_tokens, p_num_computed_tokens>>
          /\ \A q \in Requests : q # r => Len(p_block_table'[q]) = Len(p_block_table[q])
          /\ Len(p_block_table'[r]) = 0
      BY <1>3, <2>2, <3>1, <3>2, PrefillReservationKeeps
    <3> QED
      BY <1>1, <1>3, <3>1, <3>3 DEF PrefillInv
  <2> QED
    BY <2>1, <2>2 DEF PrefillSkipped
<1>5. Places'
  BY <1>1, <1>2, <1>3, <1>4, PlacesFrame
<1>6. Control'
  BY <1>1 DEF Control
<1> QED
  BY <1>2, <1>4, <1>5, <1>6 DEF PDInv

\* The steps that drive D's scheduler are steps of module Scheduler, but for the one
\* that launches the runs.
LEMMA DecodeStepIsSchedulerStep ==
  ASSUME PDInv,
         DecodeSchedules \/ LaunchRuns \/ CommitStarts \/ RunsThrow \/ DecodeCommits
           \/ DecodeCommitted
  PROVE  \/ /\ \/ ScheduleRunning \/ EndRunning \/ AdmitFromCache \/ Admit \/ EndAdmit
               \/ NoProgress \/ RunFails \/ RunSucceeds
               \/ CommitItem \/ CommitSample \/ CommitRelease \/ EndCommit
            /\ Control' /\ pd_pc' # "copy"
         \/ /\ UNCHANGED <<vars, prefilling>> /\ pd_pc = "schedule" /\ pd_pc' = "run"
            /\ pc = "model" /\ (items # << >> \/ prefilling # NoRequest)
<1>1. /\ UNCHANGED <<p_vars, requests, pd_waiting, prefilling, pending>>
      /\ pd_pc \in {"schedule", "run", "commit_decode"}
  BY DEF DecodeSchedules, LaunchRuns, CommitStarts, RunsThrow, DecodeCommits, DecodeCommitted,
         pd_queue_vars, RunsReturn
<1>2. Control
  BY DEF PDInv
<1>3. CASE DecodeSchedules
  BY <1>1, <1>2, <1>3 DEF DecodeSchedules, Control, ScheduleRunning, EndRunning,
     AdmitFromCache, Admit, EndAdmit
<1>4. CASE LaunchRuns
  <2>1. CASE items = << >> /\ prefilling = NoRequest
    <3>1. NoProgress /\ pd_pc' = "idle"
      BY <1>4, <2>1 DEF LaunchRuns, NoProgress
    <3> QED
      BY <1>1, <3>1 DEF Control, NoProgress, EndStep
  <2>2. CASE ~ (items = << >> /\ prefilling = NoRequest)
    BY <1>1, <1>4, <2>2 DEF LaunchRuns, vars, bm_vars, queue_vars, output_vars
  <2> QED
    BY <2>1, <2>2
<1>5. CASE CommitStarts
  <2>1. pc = "model" /\ pd_pc = "run" /\ (items # << >> \/ prefilling # NoRequest)
    BY <1>2, <1>5 DEF CommitStarts, RunsReturn, Control
  <2>2. CASE items = << >>
    <3>1. NoProgress /\ pd_pc' = "commit_prefill"
      BY <1>5, <2>1, <2>2 DEF CommitStarts, NoProgress
    <3> QED
      BY <1>1, <2>1, <2>2, <3>1 DEF Control, NoProgress, EndStep
  <2>3. CASE items # << >>
    <3>1. RunSucceeds /\ pd_pc' = "commit_decode"
      BY <1>5, <2>1, <2>3 DEF CommitStarts, RunSucceeds, output_vars
    <3> QED
      BY <3>1 DEF Control, RunSucceeds
  <2> QED
    BY <2>2, <2>3
<1>6. CASE RunsThrow
  <2>1. pc = "model" /\ pd_pc' = "idle"
    BY <1>2, <1>6 DEF RunsThrow, Control
  <2>2. (NoProgress \/ RunFails) /\ pc' = "idle"
    BY <1>6, <2>1 DEF RunsThrow, NoProgress, RunFails, EndStep
  <2> QED
    BY <2>1, <2>2 DEF Control
<1>7. CASE DecodeCommits
  BY <1>1, <1>2, <1>7 DEF DecodeCommits, Control, CommitItem, CommitSample, CommitRelease
<1>8. CASE DecodeCommitted
  <2>1. EndCommit /\ pc' = "idle" /\ UNCHANGED prefilling
        /\ pd_pc' = IF prefilling = NoRequest THEN "idle" ELSE "commit_prefill"
    BY <1>8 DEF DecodeCommitted, EndCommit, EndStep
  <2> QED
    BY <2>1 DEF Control
<1> QED
  BY <1>3, <1>4, <1>5, <1>6, <1>7, <1>8

LEMMA DecodeStepsKeep ==
  ASSUME PDInv,
         DecodeSchedules \/ LaunchRuns \/ CommitStarts \/ RunsThrow \/ DecodeCommits
           \/ DecodeCommitted
  PROVE  PDInv'
<1>1. /\ UNCHANGED <<p_vars, requests, pd_waiting, prefilling, pending>>
      /\ pd_pc \in {"schedule", "run", "commit_decode"}
  BY DEF DecodeSchedules, LaunchRuns, CommitStarts, RunsThrow, DecodeCommits, DecodeCommitted,
         pd_queue_vars, RunsReturn
<1>2. Control /\ Places /\ SchedulerInv /\ DecodeInv /\ PrefillInv
  BY DEF PDInv
<1>3. \/ /\ \/ ScheduleRunning \/ EndRunning \/ AdmitFromCache \/ Admit \/ EndAdmit
            \/ NoProgress \/ RunFails \/ RunSucceeds
            \/ CommitItem \/ CommitSample \/ CommitRelease \/ EndCommit
         /\ Control' /\ pd_pc' # "copy"
      \/ /\ UNCHANGED <<vars, prefilling>> /\ pd_pc = "schedule" /\ pd_pc' = "run"
         /\ pc = "model" /\ (items # << >> \/ prefilling # NoRequest)
  BY DecodeStepIsSchedulerStep
<1>4. SchedulerInv' /\ DecodeInv' /\ Control' /\ UNCHANGED known_request_ids
  <2>1. CASE UNCHANGED <<vars, prefilling>> /\ pd_pc = "schedule" /\ pd_pc' = "run"
             /\ pc = "model" /\ (items # << >> \/ prefilling # NoRequest)
    <3>1. /\ SchedulerInv' /\ DecodeInv'
          /\ UNCHANGED <<known_request_ids, pc, items, cursor>>
      BY <1>1, <2>1, DecodeStays
    <3> QED
      BY <2>1, <3>1 DEF Control
  <2> QED
    BY <1>1, <1>2, <1>3, <2>1, SchedulerStepKeeps
<1>5. PrefillInv'
  BY <1>1, <1>2, PrefillFrame
<1>6. Places'
  BY <1>1, <1>2, <1>4, PlacesFrame DEF p_vars
<1> QED
  BY <1>4, <1>5, <1>6 DEF PDInv

LEMMA PrefillCommitsKeeps ==
  ASSUME PDInv, PrefillCommits
  PROVE  PDInv'
<1> DEFINE r == prefilling
           count == PrefillCount
<1>1. /\ pd_pc = "commit_prefill" /\ pd_pc' \in {"idle", "sample_prefill"}
      /\ count <= P!PendingTokens(r)
      /\ p_num_computed_tokens' = [p_num_computed_tokens EXCEPT ![r] = @ + count]
      /\ UNCHANGED <<vars, requests, pd_waiting, prefilling, pending>>
      /\ UNCHANGED <<p_status, p_num_tokens, p_block_table, p_free_block_ids, p_ref_count,
                     p_live_sequences>>
  BY DEF PrefillCommits, P!MarkComputed, pd_queue_vars
<1>2. /\ SchedulerInv' /\ DecodeInv'
      /\ UNCHANGED <<known_request_ids, pc, items, cursor>>
  BY <1>1, DecodeStays
<1>3. PrefillInv /\ PP!PoolInv /\ Places /\ Control
  BY DEF PDInv, PrefillInv
<1>4. r # NoRequest /\ r \in Requests
  BY <1>1, <1>3 DEF Places, Control
<1>5. /\ p_num_tokens[r] = PromptLen(r) /\ p_num_computed_tokens[r] <= PromptLen(r)
      /\ PromptLen(r) \in Nat
      /\ p_num_computed_tokens[r] \in Nat
      /\ P!PendingTokens(r) = PromptLen(r) - p_num_computed_tokens[r]
  BY <1>1, <1>3, <1>4, PrefillTypes, PrefixKeyFacts DEF Places, P!PendingTokens
<1>6. count \in Nat
  BY <1>5, PDAssumption DEF PrefillCount
<1> HIDE DEF count, r
<1>7. /\ p_num_computed_tokens' \in [Requests -> Nat]
      /\ p_num_computed_tokens'[r] \in p_num_computed_tokens[r] .. PromptLen(r)
      /\ \A q \in Requests : q # r => p_num_computed_tokens'[q] = p_num_computed_tokens[q]
  BY <1>1, <1>3, <1>4, <1>5, <1>6, PrefillTypes
<1>8. \A q \in Requests : p_num_computed_tokens[q] <= p_num_computed_tokens'[q]
  <2>1. p_num_computed_tokens \in [Requests -> Nat]
    BY <1>3, PrefillTypes
  <2>2. p_num_computed_tokens[r] <= p_num_computed_tokens'[r]
    BY <1>5, <1>7
  <2>3. \A q \in Requests : q # r => p_num_computed_tokens[q] <= p_num_computed_tokens'[q]
    BY <1>7, <2>1
  <2> QED
    BY <2>2, <2>3
<1>9. PP!PoolInv'
  BY <1>1, <1>3, <1>7, <1>8, PrefillTypes, PrefillCounters
<1>10. PrefillInv'
  BY <1>1, <1>3, <1>9 DEF PrefillInv
<1>11. Places'
  <2>1. pending = NoRequest
    BY <1>3, <1>4 DEF Places, r
  <2>2. \A q \in Requests : q \notin requests \/ q \in Range(pd_waiting) => q # r
    BY <1>3, <1>4 DEF Places, r
  <2> QED
    BY <1>1, <1>2, <1>3, <1>5, <1>7, <2>1, <2>2 DEF Places, r
<1>12. Control'
  BY <1>1, <1>2, <1>3, <1>4 DEF Control, r
<1> QED
  BY <1>2, <1>10, <1>11, <1>12 DEF PDInv

LEMMA PrefillSamplesKeeps ==
  ASSUME PDInv, PrefillSamples
  PROVE  PDInv'
<1>0. PICK r : r = prefilling
  OBVIOUS
<1>1. PICK eos \in BOOLEAN :
        /\ P!Sample(r, eos)
        /\ IF P!ShouldFinishAfter(r, p_num_tokens[r] + 1, eos)
           THEN /\ pd_pc' = "release_prefill"
                /\ UNCHANGED <<pending, prefilling>>
           ELSE /\ pending' = r /\ prefilling' = NoRequest
                /\ pd_pc' = "idle"
  BY <1>0 DEF PrefillSamples
<1>2. /\ pd_pc = "sample_prefill"
      /\ UNCHANGED <<vars, requests, pd_waiting>>
      /\ p_num_computed_tokens[r] = p_num_tokens[r]
      /\ p_num_tokens' = [p_num_tokens EXCEPT ![r] = @ + 1]
      /\ p_status' = p_status \/ p_status' = [p_status EXCEPT ![r] = "Finished"]
      /\ UNCHANGED <<p_num_computed_tokens, p_block_table, p_free_block_ids, p_ref_count,
                     p_live_sequences>>
  BY <1>1 DEF PrefillSamples, P!Sample, P!AppendToken, P!SetStatus, P!pool_vars
<1>3. PrefillInv /\ PP!PoolInv /\ Places /\ Control /\ NoRequest \notin Requests
      /\ SchedulerInv /\ DecodeInv
  BY PDAssumption DEF PDInv, PrefillInv
<1>4. r # NoRequest /\ r \in Requests /\ r \in requests \ known_request_ids
      /\ pending = NoRequest
  BY <1>0, <1>2, <1>3 DEF Places, Control
<1>5. /\ UNCHANGED <<known_request_ids, pc, items, cursor>>
      /\ SchedulerInv' /\ DecodeInv'
  <2>1. SchedulerInv'
    BY <1>2, <1>3, SchedulerInvInductive
  <2>2. UNCHANGED <<known_request_ids, pc, items, cursor, status, num_tokens,
                    num_computed_tokens, block_table>>
    BY <1>2 DEF vars
  <2>3. pd_pc # "copy" /\ pd_pc' # "copy"
    BY <1>1, <1>2
  <2>4. DecodeInv'
    BY <1>3, <2>2, <2>3 DEF DecodeInv, OnD, ReserveTokens
  <2> QED
    BY <2>1, <2>2, <2>4
<1>6. /\ p_num_tokens[r] = PromptLen(r) /\ p_num_computed_tokens[r] = PromptLen(r)
      /\ PromptLen(r) \in Nat
  BY <1>0, <1>2, <1>3, <1>4, PrefixKeyFacts DEF Places
<1>7. /\ p_num_tokens' \in [Requests -> Nat] /\ p_status' \in [Requests -> SequenceStatus]
      /\ p_num_tokens'[r] = PromptLen(r) + 1
      /\ \A q \in Requests : q # r => p_num_tokens'[q] = p_num_tokens[q]
  <2>1. p_num_tokens \in [Requests -> Nat] /\ p_status \in [Requests -> SequenceStatus]
    BY <1>3, PrefillTypes
  <2>2. p_num_tokens'[r] = p_num_tokens[r] + 1
        /\ \A q \in Requests : q # r => p_num_tokens'[q] = p_num_tokens[q]
    BY <1>2, <1>4, <2>1
  <2>3. p_num_tokens' \in [Requests -> Nat]
    BY <1>2, <1>4, <2>1
  <2>4. p_status' \in [Requests -> SequenceStatus]
    BY <1>2, <2>1 DEF SequenceStatus
  <2> QED
    BY <1>6, <2>2, <2>3, <2>4
<1>8. PP!PoolInv'
  <2>1. /\ p_num_computed_tokens' \in [Requests -> Nat]
        /\ \A q \in Requests : p_num_computed_tokens[q] <= p_num_computed_tokens'[q]
    BY <1>2, <1>3, PrefillTypes
  <2> QED
    BY <1>2, <1>3, <1>7, <2>1, PrefillCounters
<1>9. PrefillInv'
  <2>1. \A q \in Requests : q \in {prefilling, pending} <=> q \in {prefilling', pending'}
    BY <1>0, <1>1, <1>3, <1>4
  <2> QED
    BY <1>2, <1>3, <1>8, <2>1 DEF PrefillInv
<1>10. \A q \in Requests : q \notin requests \/ q \in Range(pd_waiting) => q # r
  BY <1>0, <1>3, <1>4 DEF Places
<1>11. CASE P!ShouldFinishAfter(r, p_num_tokens[r] + 1, eos)
  <2>1. pd_pc' = "release_prefill" /\ UNCHANGED <<pending, prefilling>>
    BY <1>1, <1>11
  <2>2. Places'
    BY <1>2, <1>3, <1>4, <1>5, <1>7, <1>10, <2>1 DEF Places
  <2>3. Control'
    BY <1>0, <1>2, <1>3, <1>4, <1>5, <2>1 DEF Control
  <2> QED
    BY <1>5, <1>9, <2>2, <2>3 DEF PDInv
<1>12. CASE ~ P!ShouldFinishAfter(r, p_num_tokens[r] + 1, eos)
  <2>1. pending' = r /\ prefilling' = NoRequest /\ pd_pc' = "idle"
    BY <1>1, <1>12
  <2>2. MaxNewTokens[r] > 1
    <3>1. ~ (PromptLen(r) + 1 - PromptLen(r) >= MaxNewTokens[r])
      BY <1>6, <1>12, SameSizes DEF P!ShouldFinishAfter
    <3>2. MaxNewTokens[r] \in Nat
      BY <1>4, SequenceAssumption
    <3> QED
      BY <1>6, <3>1, <3>2
  <2>3. Places'
    BY <1>0, <1>2, <1>3, <1>4, <1>5, <1>6, <1>7, <1>10, <2>1, <2>2 DEF Places
  <2>4. Control'
    BY <1>2, <1>3, <1>5, <2>1 DEF Control
  <2> QED
    BY <1>5, <1>9, <2>3, <2>4 DEF PDInv
<1> QED
  BY <1>11, <1>12

LEMMA PrefillReleasesKeeps ==
  ASSUME PDInv, PrefillReleases
  PROVE  PDInv'
<1>1. /\ pd_pc = "release_prefill" /\ pd_pc' = "idle"
      /\ P!Release(prefilling) /\ prefilling' = NoRequest
      /\ UNCHANGED <<vars, requests, pd_waiting, pending>>
  BY DEF PrefillReleases
<1>2. /\ SchedulerInv' /\ DecodeInv'
      /\ UNCHANGED <<known_request_ids, pc, items, cursor>>
  BY <1>1, DecodeStays
<1>3. PrefillInv /\ Places /\ Control /\ NoRequest \notin Requests
  BY PDAssumption DEF PDInv
<1>4. prefilling \in Requests /\ pending = NoRequest
  BY <1>1, <1>3 DEF Places, Control
<1>5. /\ PP!PoolInv'
      /\ UNCHANGED <<p_num_tokens, p_num_computed_tokens>>
      /\ Len(p_block_table'[prefilling]) = 0
      /\ \A q \in Requests : q # prefilling => p_block_table'[q] = p_block_table[q]
  BY <1>1, <1>3, <1>4, PrefillReleaseKeeps
<1>6. PrefillInv'
  BY <1>1, <1>3, <1>4, <1>5 DEF PrefillInv
<1>7. Places'
  BY <1>1, <1>2, <1>3, <1>4, <1>5 DEF Places
<1>8. Control'
  BY <1>1, <1>2, <1>3 DEF Control
<1> QED
  BY <1>2, <1>6, <1>7, <1>8 DEF PDInv

----------------------------------------------------------------------------
(***************************************************************************)
(* What follows.                                                           *)
(***************************************************************************)
LEMMA PDInvInit ==
  ASSUME PDInit
  PROVE  PDInv
<1>1. SchedulerInv
  BY SchedulerInvInit DEF PDInit
<1>2. PP!PoolInv
  BY SameInit, PP!PoolInvInit, PrefillAssumptions DEF PDInit
<1>3. NoRequest \notin Requests
  BY PDAssumption
<1>4. DecodeInv
  BY <1>3, EmptySeq DEF PDInit, Init, BMInit, SequenceInit, DecodeInv, OnD
<1>5. /\ \A r \in Requests : Len(p_block_table[r]) = 0
      /\ \A r \in Requests : p_num_tokens[r] = PromptLen(r) /\ p_num_computed_tokens[r] = 0
  BY SameSizes, EmptySeq DEF PDInit, P!BMInit, P!SequenceInit
<1>6. PrefillInv
  BY <1>2, <1>3, <1>5 DEF PDInit, PrefillInv
<1>7. Places
  <2>1. << >> \in Seq(Requests) /\ IsInjective(<< >>) /\ Range(<< >>) = {}
    BY EmptySeq DEF IsInjective, Range
  <2> QED
    BY <1>5, <2>1 DEF PDInit, Init, Places
<1>8. Control
  BY DEF PDInit, Init, Control
<1> QED
  BY <1>1, <1>4, <1>6, <1>7, <1>8 DEF PDInv

LEMMA PDInvInductive ==
  ASSUME PDInv, [PDNext]_pd_vars
  PROVE  PDInv'
<1>1. CASE UNCHANGED pd_vars
  <2>1. /\ UNCHANGED <<vars, requests, pd_waiting, prefilling, pending, pd_pc>>
        /\ UNCHANGED <<p_vars, known_request_ids, pc, items, cursor, status, num_tokens,
                       num_computed_tokens, block_table>>
    BY <1>1 DEF pd_vars, vars, p_vars
  <2>2. SchedulerInv'
    BY <2>1, SchedulerInvInductive DEF PDInv
  <2>3. DecodeInv'
    BY <2>1 DEF PDInv, DecodeInv, OnD, ReserveTokens
  <2>4. PrefillInv'
    BY <2>1, PrefillFrame DEF PDInv
  <2>5. Places' /\ Control'
    BY <2>1 DEF PDInv, Places, Control, p_vars
  <2> QED
    BY <2>2, <2>3, <2>4, <2>5 DEF PDInv
<1>2. ASSUME NEW r \in Requests, PDAddRequest(r)
      PROVE  PDInv'
  BY <1>2, AddRequestKeeps
<1>3. CASE StepBegins \/ HandoffSkipped \/ PrefillRuns \/ DecodeRuns \/ PDDone
  BY <1>3, EngineMovesKeep
<1>4. CASE HandoffReserves \/ HandoffWaitsForPages
  BY <1>4, HandoffReservesKeeps
<1>5. CASE HandoffCopies
  BY <1>5, HandoffCopiesKeeps
<1>6. CASE HandoffFails
  BY <1>6, HandoffFailsKeeps
<1>7. CASE PrefillAdmits
  BY <1>7, PrefillAdmitsKeeps
<1>8. CASE PrefillSkipped
  BY <1>8, PrefillSkippedKeeps
<1>9. CASE DecodeSchedules \/ LaunchRuns \/ CommitStarts \/ RunsThrow \/ DecodeCommits
             \/ DecodeCommitted
  BY <1>9, DecodeStepsKeep
<1>10. CASE PrefillCommits
  BY <1>10, PrefillCommitsKeeps
<1>11. CASE PrefillSamples
  BY <1>11, PrefillSamplesKeeps
<1>12. CASE PrefillReleases
  BY <1>12, PrefillReleasesKeeps
<1> QED
  BY <1>1, <1>2, <1>3, <1>4, <1>5, <1>6, <1>7, <1>8, <1>9, <1>10, <1>11, <1>12
  DEF PDNext, PDStep

LEMMA PDInvAlways == PDSpec => []PDInv
<1>1. PDInit => PDInv
  BY PDInvInit
<1>2. PDInv /\ [PDNext]_pd_vars => PDInv'
  BY PDInvInductive
<1> QED
  BY <1>1, <1>2, PTL DEF PDSpec

LEMMA OnDecodeSideIsOnD ==
  ASSUME SchedulerInv
  PROVE  OnDecodeSide = {r \in Requests : OnD(r)}
<1>1. ASSUME NEW r \in OnDecodeSide
      PROVE  r \in Requests /\ OnD(r)
  BY <1>1, HandedAreKnown DEF OnDecodeSide, OnD
<1>2. ASSUME NEW r \in Requests, OnD(r)
      PROVE  r \in OnDecodeSide
  <2>1. r \in Range(waiting) \cup Range(running)
    BY <1>2 DEF OnD, SchedulerInv, QueuesPartitionRequests, StageInv
  <2> QED
    BY <1>2, <2>1 DEF OnD, OnDecodeSide
<1> QED
  BY <1>1, <1>2

\* Whatever throws, and whenever, no page of either GPU is lost or held twice: P holds
\* exactly the pages of the prompt it runs or is about to hand over, D exactly those a
\* request reserved for everything it may still be fed (try_handoff and release,
\* cuda/gpt2_pd_engine.hpp).
THEOREM PagesStayAccounted == PDSpec => []PagesAccounted
<1>1. PDInv => PagesAccounted
  <2> SUFFICES ASSUME PDInv
               PROVE  PagesAccounted
    OBVIOUS
  <2>1. RefCountsOwners /\ FreeListExact /\ SchedulerInv
    BY DEF PDInv, SchedulerInv, PoolInv
  <2>2. P!RefCountsOwners /\ P!FreeListExact
    BY SamePromises DEF PDInv, PrefillInv, PP!PoolInv
  <2>3. OnDecodeSide = {r \in Requests : OnD(r)}
    BY <2>1, OnDecodeSideIsOnD
  <2> QED
    BY <2>1, <2>2, <2>3 DEF PagesAccounted, PDInv, PrefillInv, DecodeInv, ReserveTokens
<1> QED
  BY <1>1, PDInvAlways, PTL

----------------------------------------------------------------------------
(***************************************************************************)
(* Decode never waits.  A request comes to D with one token to compute and *)
(* with all the pages it will need, and never while D has as many requests *)
(* as a batch has places; so each batch has one token of every request.    *)
(***************************************************************************)

OneTokenEach ==
  \A r \in Range(waiting) \cup Range(running) : status[r] # "Finished" =>
    PendingTokens(r) = IF pc = "sample" /\ r = items[cursor].sequence THEN 0 ELSE 1

\* The batch so far: one token of the first requests of running_.
BatchOfFirst(n) ==
  /\ Len(items) = n /\ num_batched_tokens = n
  /\ \A k \in 1 .. n : items[k].sequence = running[k] /\ items[k].num_scheduled_tokens = 1

AdvanceInv ==
  /\ OneTokenEach
  /\ Len(waiting) + Len(running) <= MaxNumSequences
  /\ pc = "idle" => cursor = 1 /\ BatchOfFirst(0)
  /\ pc = "running" => cursor - 1 <= Len(running) /\ BatchOfFirst(cursor - 1)
  /\ pc \in {"admit", "admit_capacity", "model"} => BatchOfFirst(Len(running))
  /\ pc = "model" => waiting = << >>

\* Schedule() gives a request of D its one token, and ensure_capacity cannot fail.
LEMMA OneTokenIsScheduled ==
  ASSUME SchedulerInv, DecodeInv, NEW r \in Requests, r \in known_request_ids,
         status[r] # "Finished", PendingTokens(r) = 1, ~ BudgetSpent
  PROVE  /\ TokensToSchedule(r) = 1
         /\ ~ EnsureCapacityFails(r, num_computed_tokens[r] + TokensToSchedule(r))
<1> DEFINE target == num_computed_tokens[r] + 1
<1>1. TypeOK /\ SchedulerTypeOK
  BY DEF SchedulerInv, SchedulerTypeOK
<1>2. TokensToSchedule(r) = 1
  BY <1>1, SomeTokensToSchedule
<1>3. target \in Nat /\ target <= num_tokens[r] /\ num_tokens[r] \in Nat
  BY <1>1, RequestFacts DEF PendingTokens
<1>4. ReserveTokens(r) \in Nat /\ num_tokens[r] <= ReserveTokens(r)
  BY ReserveIsEnough
<1> HIDE DEF target
<1>5. /\ BlocksNeeded(target) <= BlocksNeeded(ReserveTokens(r))
      /\ BlocksNeeded(target) \in Nat
  BY <1>3, <1>4, BlocksNeededFacts
<1>6. Len(block_table[r]) = BlocksNeeded(ReserveTokens(r))
  BY DEF DecodeInv, OnD
<1>7. AdditionalBlocks(r, target) = 0
  BY <1>5, <1>6 DEF AdditionalBlocks
<1>8. Len(free_block_ids) \in Nat
  BY <1>1, LenProperties DEF TypeOK
<1>9. ~ EnsureCapacityFails(r, target)
  BY <1>7, <1>8 DEF EnsureCapacityFails
<1> QED
  BY <1>2, <1>9 DEF target

LEMMA OneMoreItem ==
  ASSUME SchedulerInv, NEW n \in Nat, BatchOfFirst(n), NEW r \in Requests, PushItem(r, 1)
  PROVE  /\ Len(items') = n + 1 /\ num_batched_tokens' = n + 1
         /\ \A k \in 1 .. n : items'[k] = items[k]
         /\ items'[n + 1].sequence = r /\ items'[n + 1].num_scheduled_tokens = 1
<1>1. SchedulerTypeOK
  BY DEF SchedulerInv
<1>2. /\ items' \in Seq(ItemType)
      /\ DOMAIN items' = 1 .. n + 1 /\ DOMAIN items = 1 .. n
      /\ \A i \in DOMAIN items : items'[i] = items[i]
      /\ items'[n + 1].sequence = r /\ items'[n + 1].num_scheduled_tokens = 1
  <2>1. Len(items) = n /\ DOMAIN items = 1 .. Len(items)
    BY <1>1, QueueFacts DEF BatchOfFirst
  <2>2. /\ items' \in Seq(ItemType)
        /\ DOMAIN items' = 1 .. Len(items) + 1
        /\ \A i \in DOMAIN items : items'[i] = items[i]
        /\ items'[Len(items) + 1] =
             [sequence |-> r,
              phase |-> IF IsPrefill(r) THEN "Prefill" ELSE "Decode",
              num_scheduled_tokens |-> 1]
    BY <1>1, PushItemFacts
  <2> QED
    BY <2>1, <2>2
<1>3. Len(items') = n + 1
  BY <1>2, LenProperties
<1>4. num_batched_tokens' = n + 1
  BY DEF PushItem, BatchOfFirst
<1> QED
  BY <1>2, <1>3, <1>4

LEMMA ScheduleRunningAdvances ==
  ASSUME SchedulerInv, DecodeInv, AdvanceInv, ScheduleRunning
  PROVE  AdvanceInv'
<1> DEFINE r == running[cursor]
<1>1. /\ pc = "running" /\ MoreRunning /\ cursor' = cursor + 1
      /\ UNCHANGED <<status, waiting, running, pc>>
      /\ LET target == num_computed_tokens[r] + TokensToSchedule(r)
         IN  \/ EnsureCapacitySucceeds(r, target) /\ PushItem(r, TokensToSchedule(r))
             \/ EnsureCapacityFails(r, target)
  BY DEF ScheduleRunning, queue_vars
<1>2. SchedulerTypeOK /\ Len(running) \in Nat /\ cursor \in Nat \ {0}
  BY QueueFacts DEF SchedulerInv, SchedulerTypeOK
<1>3. cursor \in DOMAIN running /\ cursor <= Len(running)
  BY <1>1, <1>2, QueueFacts DEF MoreRunning
<1>4. r \in Range(running)
  BY <1>2, <1>3, QueueFacts
<1>5. /\ r \in Requests /\ r \in known_request_ids /\ status[r] = "Running"
      /\ ~ BudgetSpent
  BY <1>1, <1>4, HandedAreKnown DEF MoreRunning
<1>6. PendingTokens(r) = 1
  BY <1>1, <1>4, <1>5 DEF AdvanceInv, OneTokenEach
<1> HIDE DEF r
<1>8. /\ TokensToSchedule(r) = 1
      /\ ~ EnsureCapacityFails(r, num_computed_tokens[r] + TokensToSchedule(r))
  BY <1>5, <1>6, OneTokenIsScheduled
<1>9. /\ PushItem(r, 1)
      /\ UNCHANGED <<num_tokens, num_computed_tokens>>
  BY <1>1, <1>5, <1>6, <1>8, ReservationIsIdle
<1>10. BatchOfFirst(cursor - 1) /\ cursor - 1 \in Nat
  BY <1>1, <1>2 DEF AdvanceInv
<1>11. /\ Len(items') = cursor /\ num_batched_tokens' = cursor
       /\ \A k \in 1 .. cursor - 1 : items'[k] = items[k]
       /\ items'[cursor].sequence = r /\ items'[cursor].num_scheduled_tokens = 1
  BY <1>2, <1>5, <1>9, <1>10, OneMoreItem
<1>12. \A k \in 1 .. cursor : items'[k].sequence = running[k]
                              /\ items'[k].num_scheduled_tokens = 1
  <2>1. \A k \in 1 .. cursor : k \in 1 .. cursor - 1 \/ k = cursor
    BY <1>2
  <2> QED
    BY <1>10, <1>11, <2>1 DEF BatchOfFirst, r
<1>13. OneTokenEach'
  BY <1>1, <1>9 DEF AdvanceInv, OneTokenEach, PendingTokens
<1>14. cursor' - 1 = cursor
  BY <1>1, <1>2
<1> QED
  BY <1>1, <1>3, <1>11, <1>12, <1>13, <1>14 DEF AdvanceInv, BatchOfFirst

\* From one loop of schedule() to the next, and what the loops end with.
LEMMA NextLoopAdvances ==
  ASSUME SchedulerInv, AdvanceInv, EndRunning \/ AdmitFromCache \/ EndAdmit
  PROVE  AdvanceInv'
<1>1. /\ UNCHANGED <<waiting, running, items, num_batched_tokens, cursor>>
      /\ UNCHANGED <<status, num_tokens, num_computed_tokens>>
  <2>1. CASE EndRunning \/ EndAdmit
    BY <2>1 DEF EndRunning, EndAdmit, queue_vars, output_vars, bm_vars
  <2>2. CASE AdmitFromCache
    <3>1. Head(waiting) \in Requests
      BY <2>2, QueueFacts DEF AdmitFromCache, MayAdmit, SchedulerInv
    <3> QED
      BY <2>2, <3>1, LookupIsIdle DEF AdmitFromCache, queue_vars, output_vars
  <2> QED
    BY <2>1, <2>2
<1>2. pc \in {"running", "admit"} /\ pc' \in {"admit", "admit_capacity", "model"}
  BY DEF EndRunning, AdmitFromCache, EndAdmit
<1>3. OneTokenEach'
  BY <1>1, <1>2 DEF AdvanceInv, OneTokenEach, PendingTokens
<1>4. /\ Len(running) \in Nat /\ Len(waiting) \in Nat /\ cursor \in Nat
      /\ waiting # << >> => Len(waiting) > 0
      /\ MaxNumSequences \in Nat /\ MaxNumBatchedTokens = MaxNumSequences
      /\ Len(waiting) + Len(running) <= MaxNumSequences
  BY QueueFacts, SchedulerAssumption, PDAssumption
  DEF SchedulerInv, SchedulerTypeOK, AdvanceInv
<1>5. BatchOfFirst(Len(running))
  <2>1. CASE EndRunning
    <3>1. cursor - 1 <= Len(running) /\ BatchOfFirst(cursor - 1) /\ ~ MoreRunning
      BY <2>1 DEF EndRunning, AdvanceInv
    <3>2. cursor - 1 = Len(running)
      BY <1>4, <3>1 DEF MoreRunning, ItemsFull, BudgetSpent, BatchOfFirst
    <3> QED
      BY <3>1, <3>2
  <2>2. CASE AdmitFromCache \/ EndAdmit
    BY <2>2 DEF AdmitFromCache, EndAdmit, AdvanceInv
  <2> QED
    BY <2>1, <2>2
<1>6. pc' = "model" => waiting = << >>
  <2> SUFFICES ASSUME pc' = "model", waiting # << >>
               PROVE  FALSE
    OBVIOUS
  <2>1. ~ MayAdmit
    BY DEF EndRunning, AdmitFromCache, EndAdmit
  <2> QED
    BY <1>4, <1>5, <2>1 DEF MayAdmit, ItemsFull, BudgetSpent, BatchOfFirst
<1>7. BatchOfFirst(Len(running))'
  BY <1>1, <1>5 DEF BatchOfFirst
<1> QED
  BY <1>1, <1>2, <1>3, <1>6, <1>7 DEF AdvanceInv

LEMMA AdmitAdvances ==
  ASSUME SchedulerInv, DecodeInv, AdvanceInv, Admit
  PROVE  AdvanceInv'
<1>0. PICK r : r = Head(waiting)
  OBVIOUS
<1>1. /\ pc = "admit_capacity" /\ MayAdmit
      /\ LET target == num_computed_tokens[r] + TokensToSchedule(r)
         IN  \/ /\ EnsureCapacitySucceeds(r, target)
                /\ PushItem(r, TokensToSchedule(r))
                /\ waiting' = Tail(waiting) /\ running' = Append(running, r)
                /\ SetStatus(r, "Running")
                /\ pc' = "admit"
             \/ EnsureCapacityFails(r, target)
  BY <1>0 DEF Admit, StartRunning, SchedulerInv, StageInv
<1>2. SchedulerTypeOK /\ QueuesPartitionRequests /\ TypeOK
  BY DEF SchedulerInv, SchedulerTypeOK
<1>3. r \in Range(waiting) /\ r \in Requests /\ waiting # << >> /\ ~ BudgetSpent
  BY <1>0, <1>1, <1>2, QueueFacts DEF MayAdmit
<1>4. r \in known_request_ids /\ status[r] = "Waiting"
  BY <1>3, HandedAreKnown
<1>5. PendingTokens(r) = 1
  BY <1>1, <1>3, <1>4 DEF AdvanceInv, OneTokenEach
<1>6. /\ TokensToSchedule(r) = 1
      /\ ~ EnsureCapacityFails(r, num_computed_tokens[r] + TokensToSchedule(r))
  BY <1>3, <1>4, <1>5, OneTokenIsScheduled
<1>7. /\ PushItem(r, 1)
      /\ waiting' = Tail(waiting) /\ running' = Append(running, r)
      /\ SetStatus(r, "Running") /\ pc' = "admit"
      /\ UNCHANGED <<num_tokens, num_computed_tokens>>
  BY <1>1, <1>3, <1>4, <1>5, <1>6, ReservationIsIdle
<1>8. /\ Range(waiting') = Range(waiting) \ {r}
      /\ Range(running') = Range(running) \cup {r}
  BY <1>0, <1>2, <1>3, <1>7, StartRunningMovesHead
<1> DEFINE n == Len(running)
<1>9. /\ n \in Nat /\ Len(waiting') = Len(waiting) - 1 /\ Len(running') = n + 1
      /\ Len(waiting) \in Nat
      /\ \A k \in 1 .. n : running'[k] = running[k]
      /\ running'[n + 1] = r
  BY <1>2, <1>3, <1>7, HeadTailProperties, AppendProperties, LenProperties
  DEF SchedulerTypeOK
<1>10. BatchOfFirst(n)
  BY <1>1 DEF AdvanceInv
<1> HIDE DEF n
<1>11. /\ Len(items') = n + 1 /\ num_batched_tokens' = n + 1
       /\ \A k \in 1 .. n : items'[k] = items[k]
       /\ items'[n + 1].sequence = r /\ items'[n + 1].num_scheduled_tokens = 1
  BY <1>3, <1>7, <1>9, <1>10, OneMoreItem
<1>12. \A k \in 1 .. n + 1 : items'[k].sequence = running'[k]
                             /\ items'[k].num_scheduled_tokens = 1
  <2>1. \A k \in 1 .. n + 1 : k \in 1 .. n \/ k = n + 1
    BY <1>9
  <2> QED
    BY <1>9, <1>10, <1>11, <2>1 DEF BatchOfFirst
<1>13. OneTokenEach'
  <2> SUFFICES ASSUME NEW q \in Range(waiting') \cup Range(running'), status'[q] # "Finished"
               PROVE  num_tokens'[q] - num_computed_tokens'[q] = 1
    BY <1>7 DEF OneTokenEach, PendingTokens
  <2>1. q \in Range(waiting) \cup Range(running) /\ q \in Requests
    BY <1>3, <1>8, HandedAreKnown
  <2>2. CASE q = r
    BY <1>5, <1>7, <2>2 DEF PendingTokens
  <2>3. CASE q # r
    <3>1. status'[q] = status[q]
      BY <1>2, <1>7, <2>1, <2>3 DEF SetStatus, TypeOK
    <3> QED
      BY <1>1, <1>7, <2>1, <3>1 DEF AdvanceInv, OneTokenEach, PendingTokens
  <2> QED
    BY <2>2, <2>3
<1>14. Len(waiting') + Len(running') <= MaxNumSequences
  BY <1>9 DEF AdvanceInv, n
<1> QED
  BY <1>7, <1>9, <1>11, <1>12, <1>13, <1>14 DEF AdvanceInv, BatchOfFirst

LEMMA CommitItemAdvances ==
  ASSUME SchedulerInv, AdvanceInv, CommitItem
  PROVE  AdvanceInv'
<1>0. PICK r, count : r = items[cursor].sequence /\ count = items[cursor].num_scheduled_tokens
  OBVIOUS
<1>1. /\ pc = "commit" /\ cursor <= Len(items)
      /\ num_computed_tokens' = [num_computed_tokens EXCEPT ![r] = @ + count]
      /\ UNCHANGED <<status, num_tokens, waiting, running, items>>
      /\ IF count < PendingTokens(r)
         THEN pc' = "commit" /\ cursor' = cursor + 1
         ELSE pc' = "sample" /\ UNCHANGED cursor
  BY <1>0 DEF CommitItem, ComputeTokens, MarkComputed, queue_vars, output_vars
<1>2. SchedulerTypeOK /\ TypeOK
  BY DEF SchedulerInv, SchedulerTypeOK
<1>3. cursor \in Untouched /\ items[cursor] \in ItemType
  BY <1>1, <1>2, QueueFacts DEF SchedulerTypeOK, Untouched
<1>4. /\ r \in Range(running) /\ status[r] = "Running" /\ r \in Requests
      /\ count \in Nat /\ 0 < count /\ count <= PendingTokens(r)
  BY <1>0, <1>3 DEF SchedulerInv, BatchInv, Ready, ItemType
<1>5. PendingTokens(r) = 1
  BY <1>1, <1>4 DEF AdvanceInv, OneTokenEach
<1>6. count = 1 /\ pc' = "sample" /\ UNCHANGED cursor
  BY <1>1, <1>4, <1>5
<1>7. OneTokenEach'
  <2> SUFFICES ASSUME NEW q \in Range(waiting) \cup Range(running), status[q] # "Finished"
               PROVE  num_tokens[q] - num_computed_tokens'[q] = IF q = r THEN 0 ELSE 1
    BY <1>0, <1>1, <1>6 DEF OneTokenEach, PendingTokens
  <2>1. q \in Requests
    BY HandedAreKnown
  <2>2. CASE q = r
    <3>1. num_computed_tokens'[r] = num_computed_tokens[r] + 1
      BY <1>1, <1>2, <1>4, <1>6 DEF TypeOK
    <3>2. num_tokens[r] \in Nat /\ num_computed_tokens[r] \in Nat
      BY <1>2, <1>4, RequestFacts
    <3> QED
      BY <1>5, <2>2, <3>1, <3>2 DEF PendingTokens
  <2>3. CASE q # r
    <3>1. num_computed_tokens'[q] = num_computed_tokens[q]
      BY <1>1, <1>2, <2>1, <2>3 DEF TypeOK
    <3> QED
      BY <1>1, <2>3, <3>1 DEF AdvanceInv, OneTokenEach, PendingTokens
  <2> QED
    BY <2>2, <2>3
<1> QED
  BY <1>1, <1>6, <1>7 DEF AdvanceInv

LEMMA CommitSampleAdvances ==
  ASSUME SchedulerInv, AdvanceInv, CommitSample
  PROVE  AdvanceInv'
<1>0. PICK r : r = items[cursor].sequence
  OBVIOUS
<1>1. /\ pc = "sample" /\ pc' \in {"release", "commit"}
      /\ num_tokens' = [num_tokens EXCEPT ![r] = @ + 1]
      /\ UNCHANGED <<num_computed_tokens, waiting, running, items>>
      /\ status' = status \/ status' = [status EXCEPT ![r] = "Finished"]
  BY <1>0 DEF CommitSample, Sample, AppendToken, SetStatus, queue_vars, output_vars
<1>2. TypeOK
  BY DEF SchedulerInv, SchedulerTypeOK
<1>3. /\ r \in Range(running) /\ r \in Requests /\ status[r] = "Running"
      /\ PendingTokens(r) = 0
  BY <1>0, <1>1, HandedAreKnown DEF SchedulerInv, StageInv
<1>4. OneTokenEach'
  <2> SUFFICES ASSUME NEW q \in Range(waiting) \cup Range(running), status'[q] # "Finished"
               PROVE  num_tokens'[q] - num_computed_tokens[q] = 1
    BY <1>1 DEF OneTokenEach, PendingTokens
  <2>1. q \in Requests
    BY HandedAreKnown
  <2>2. CASE q = r
    <3>1. num_tokens'[r] = num_tokens[r] + 1
      BY <1>1, <1>2, <1>3 DEF TypeOK
    <3>2. num_tokens[r] \in Nat /\ num_computed_tokens[r] \in Nat
      BY <1>2, <1>3, RequestFacts
    <3> QED
      BY <1>3, <2>2, <3>1, <3>2 DEF PendingTokens
  <2>3. CASE q # r
    <3>1. num_tokens'[q] = num_tokens[q] /\ status'[q] = status[q]
      BY <1>1, <1>2, <2>1, <2>3 DEF TypeOK
    <3> QED
      BY <1>0, <1>1, <2>3, <3>1 DEF AdvanceInv, OneTokenEach, PendingTokens
  <2> QED
    BY <2>2, <2>3
<1> QED
  BY <1>1, <1>4 DEF AdvanceInv

LEMMA CommitReleaseAdvances ==
  ASSUME SchedulerInv, AdvanceInv, CommitRelease
  PROVE  AdvanceInv'
<1>1. /\ pc = "release" /\ pc' = "commit"
      /\ UNCHANGED <<status, num_tokens, num_computed_tokens, waiting, running>>
  BY DEF CommitRelease, Release, queue_vars
<1> QED
  BY <1>1 DEF AdvanceInv, OneTokenEach, PendingTokens

\* The step ends, with or without the commit of its batch.
LEMMA EndStepAdvances ==
  ASSUME SchedulerInv, AdvanceInv, NoProgress \/ RunFails \/ RunSucceeds \/ EndCommit
  PROVE  AdvanceInv'
<1>1. /\ UNCHANGED <<status, num_tokens, num_computed_tokens, waiting>>
      /\ pc \in {"model", "commit"} /\ pc' \in {"idle", "commit"}
      /\ pc' = "idle" => cursor' = 1 /\ items' = << >> /\ num_batched_tokens' = 0
      /\ RunSucceeds \/ pc' = "idle"
  BY DEF NoProgress, RunFails, RunSucceeds, EndCommit, EndStep, bm_vars, queue_vars
<1>2. Len(waiting) \in Nat /\ Len(running) \in Nat /\ DOMAIN running = 1 .. Len(running)
  BY QueueFacts DEF SchedulerInv
<1>3. Range(running') \subseteq Range(running) /\ Len(running') \in Nat
      /\ Len(running') <= Len(running)
  <2>1. CASE UNCHANGED running
    BY <1>2, <2>1
  <2>2. CASE EndCommit
    <3> DEFINE S == {i \in DOMAIN running : running[i] \notin FinishedItems}
    <3>1. PICK kept \in Ascending(S) : running' = [i \in DOMAIN kept |-> running[kept[i]]]
      BY <2>2 DEF EndCommit
    <3>2. S \subseteq 1 .. Len(running)
      BY <1>2
    <3> HIDE DEF S
    <3>3. /\ IsFiniteSet(1 .. Len(running)) /\ Cardinality(1 .. Len(running)) = Len(running)
      <4>1. PICK m \in Nat : m = Len(running)
        BY <1>2
      <4>2. IsFiniteSet(1 .. m) /\ Cardinality(1 .. m) = IF 1 > m THEN 0 ELSE m - 1 + 1
        BY FS_Interval
      <4>3. (IF 1 > m THEN 0 ELSE m - 1 + 1) = m
        OBVIOUS
      <4> QED
        BY <4>1, <4>2, <4>3
    <3>4. Cardinality(S) \in Nat /\ Cardinality(S) <= Len(running)
      BY <3>2, <3>3, FS_Subset, FS_CardinalityType
    <3>5. kept \in [1 .. Cardinality(S) -> S]
      BY DEF Ascending
    <3>6. Len(running') = Cardinality(S)
      BY <3>1, <3>4, <3>5
    <3>7. \A i \in DOMAIN running' : running'[i] \in Range(running)
      BY <1>2, <3>1, <3>2, <3>5 DEF Range
    <3> QED
      BY <3>4, <3>6, <3>7 DEF Range
  <2> QED
    BY <2>1, <2>2 DEF NoProgress, RunFails, RunSucceeds, queue_vars
<1>4. OneTokenEach'
  BY <1>1, <1>3 DEF AdvanceInv, OneTokenEach, PendingTokens
<1>5. Len(waiting') + Len(running') <= MaxNumSequences
  BY <1>1, <1>2, <1>3, SchedulerAssumption DEF AdvanceInv
<1>6. pc' = "idle" => BatchOfFirst(0)'
  BY <1>1, EmptySeq DEF BatchOfFirst
<1> QED
  BY <1>1, <1>4, <1>5, <1>6 DEF AdvanceInv

LEMMA AdvanceInvInit ==
  ASSUME PDInit
  PROVE  AdvanceInv
<1>1. /\ waiting = << >> /\ running = << >> /\ pc = "idle" /\ cursor = 1
      /\ items = << >> /\ num_batched_tokens = 0
  BY DEF PDInit, Init
<1> QED
  BY <1>1, EmptySeq, SchedulerAssumption
  DEF AdvanceInv, OneTokenEach, BatchOfFirst, Range

\* D had a place left when the reservation was made, and nothing has filled it.
PlaceReserved == pd_pc = "copy" => Len(waiting) + Len(running) < MaxNumSequences

LEMMA PlaceReservedInductive ==
  ASSUME PDInv, PlaceReserved, [PDNext]_pd_vars
  PROVE  PlaceReserved'
<1>1. CASE UNCHANGED pd_vars
  BY <1>1 DEF PlaceReserved, pd_vars, vars
<1>2. CASE HandoffReserves
  <2>1. /\ ~ HandoffBlocked /\ UNCHANGED <<waiting, running>>
        /\ Len(waiting) \in Nat /\ Len(running) \in Nat
    BY <1>2, QueueFacts DEF HandoffReserves, queue_and_output, queue_vars, PDInv, SchedulerInv
  <2> QED
    BY <2>1, SchedulerAssumption DEF PlaceReserved, HandoffBlocked
<1>3. CASE PDNext /\ ~ HandoffReserves
  <2>1. pd_pc' # "copy" \/ UNCHANGED pd_vars
    BY <1>3 DEF PDNext, PDStep, PDAddRequest, StepBegins, HandoffSkipped, HandoffWaitsForPages,
       HandoffCopies, HandoffFails, PrefillAdmits, PrefillSkipped, DecodeSchedules, LaunchRuns,
       PrefillRuns, DecodeRuns, CommitStarts, RunsReturn, RunsThrow, DecodeCommits,
       DecodeCommitted, PrefillCommits, PrefillSamples, PrefillReleases, PDDone
  <2> QED
    BY <1>1, <2>1 DEF PlaceReserved
<1> QED
  BY <1>1, <1>2, <1>3

\* D takes over a request with one token to compute.
LEMMA HandoffCopiesAdvances ==
  ASSUME PDInv, AdvanceInv, PlaceReserved, HandoffCopies
  PROVE  AdvanceInv'
<1>0. PICK r \in Requests : r = pending
  BY HandedOver DEF HandoffCopies
<1>1. /\ SchedulerInv /\ SchedulerTypeOK /\ TypeOK
      /\ pc = "idle" /\ UNCHANGED pc
  BY DEF PDInv, SchedulerInv, SchedulerTypeOK, Control, HandoffCopies
<1>2. /\ pd_pc = "copy"
      /\ num_computed_tokens' = [num_computed_tokens EXCEPT ![r] = PromptLen(r)]
      /\ num_tokens' = [num_tokens EXCEPT ![r] = PromptLen(r) + 1]
      /\ waiting' = Append(waiting, r)
      /\ UNCHANGED <<status, running, items, num_batched_tokens, cursor>>
  BY <1>0, HandedOver DEF HandoffCopies, output_vars
<1>3. r \notin known_request_ids /\ PromptLen(r) \in Nat
  BY <1>0, <1>2, HandedOver
<1>4. r \notin Range(waiting)
  BY <1>1, <1>3, HandedAreKnown
<1>5. Range(waiting') = Range(waiting) \cup {r}
  BY <1>1, <1>2, <1>4, AppendToQueue
  DEF SchedulerTypeOK, SchedulerInv, QueuesPartitionRequests
<1>6. OneTokenEach'
  <2> SUFFICES ASSUME NEW q \in Range(waiting) \cup Range(running) \cup {r},
                      status[q] # "Finished"
               PROVE  num_tokens'[q] - num_computed_tokens'[q] = 1
    BY <1>1, <1>2, <1>5 DEF OneTokenEach, PendingTokens
  <2>1. CASE q = r
    <3>1. num_tokens'[r] = PromptLen(r) + 1 /\ num_computed_tokens'[r] = PromptLen(r)
      BY <1>1, <1>2 DEF TypeOK
    <3> QED
      BY <1>3, <2>1, <3>1
  <2>2. CASE q # r
    <3>1. q \in Requests /\ q \in Range(waiting) \cup Range(running)
      BY <1>1, <2>2, HandedAreKnown
    <3>2. num_tokens'[q] = num_tokens[q] /\ num_computed_tokens'[q] = num_computed_tokens[q]
      BY <1>1, <1>2, <2>2, <3>1 DEF TypeOK
    <3>3. PendingTokens(q) = 1
      BY <1>1, <3>1 DEF AdvanceInv, OneTokenEach
    <3> QED
      BY <3>2, <3>3 DEF PendingTokens
  <2> QED
    BY <2>1, <2>2
<1>7. Len(waiting') + Len(running') <= MaxNumSequences
  <2>1. Len(waiting') = Len(waiting) + 1
    BY <1>1, <1>2, AppendProperties DEF SchedulerTypeOK
  <2>2. Len(waiting) \in Nat /\ Len(running) \in Nat
    BY <1>1, QueueFacts
  <2> QED
    BY <1>2, <2>1, <2>2, SchedulerAssumption DEF PlaceReserved
<1> QED
  BY <1>1, <1>2, <1>6, <1>7 DEF AdvanceInv, BatchOfFirst

\* What try_handoff does to the pool of D counts no token.
LEMMA ReservationCountsNothing ==
  ASSUME NEW r, NEW tokens,
         EnsureCapacitySucceeds(r, tokens) \/ EnsureCapacityFails(r, tokens)
  PROVE  UNCHANGED <<num_tokens, num_computed_tokens>>
  BY DEF EnsureCapacitySucceeds, EnsureCapacityFails, EvictAndAllocate

LEMMA AdvanceInvInductive ==
  ASSUME PDInv, AdvanceInv, PlaceReserved, [PDNext]_pd_vars
  PROVE  AdvanceInv'
<1>1. SchedulerInv /\ DecodeInv /\ Control
  BY DEF PDInv
<1>2. CASE UNCHANGED <<status, num_tokens, num_computed_tokens, waiting, running, items,
                       num_batched_tokens, pc, cursor>>
  BY <1>2 DEF AdvanceInv, OneTokenEach, PendingTokens, BatchOfFirst
<1>3. CASE UNCHANGED vars
  BY <1>2, <1>3 DEF vars
<1>4. CASE HandoffWaitsForPages \/ HandoffReserves \/ HandoffFails
  <2>1. UNCHANGED <<num_tokens, num_computed_tokens>>
    BY <1>4, ReservationCountsNothing DEF HandoffWaitsForPages, HandoffReserves, HandoffFails,
       Release
  <2>2. UNCHANGED <<status, waiting, running, items, num_batched_tokens, pc, cursor>>
    BY <1>4 DEF HandoffWaitsForPages, HandoffReserves, HandoffFails, Release,
       queue_and_output, queue_vars, output_vars
  <2> QED
    BY <1>2, <2>1, <2>2
<1>5. CASE PrefillAdmits \/ PrefillSkipped
  <2>1. /\ UNCHANGED <<status, num_tokens, num_computed_tokens, waiting, running, items,
                       num_batched_tokens, cursor>>
        /\ pc = "idle" /\ pc' = "running"
    BY <1>1, <1>5 DEF PrefillAdmits, PrefillSkipped, Control, bm_vars, queue_and_output,
       queue_vars, output_vars
  <2>2. Len(running) \in Nat
    BY <1>1, QueueFacts DEF SchedulerInv
  <2> QED
    BY <2>1, <2>2 DEF AdvanceInv, OneTokenEach, PendingTokens, BatchOfFirst
<1>6. CASE HandoffCopies
  BY <1>6, HandoffCopiesAdvances
<1>7. CASE DecodeSchedules \/ LaunchRuns \/ CommitStarts \/ RunsThrow \/ DecodeCommits
             \/ DecodeCommitted
  BY <1>1, <1>3, <1>7, DecodeStepIsSchedulerStep, ScheduleRunningAdvances, NextLoopAdvances,
     AdmitAdvances, CommitItemAdvances, CommitSampleAdvances, CommitReleaseAdvances,
     EndStepAdvances
<1>8. CASE \/ \E r \in Requests : PDAddRequest(r)
           \/ StepBegins \/ HandoffSkipped \/ PrefillRuns \/ DecodeRuns
           \/ PrefillCommits \/ PrefillSamples \/ PrefillReleases \/ PDDone
           \/ UNCHANGED pd_vars
  BY <1>3, <1>8 DEF PDAddRequest, StepBegins, HandoffSkipped, PrefillRuns, DecodeRuns,
     PrefillCommits, PrefillSamples, PrefillReleases, PDDone, pd_vars
<1> QED
  BY <1>4, <1>5, <1>6, <1>7, <1>8 DEF PDNext, PDStep

\* Every batch of D has one token of every request on D: once a request has been handed
\* over it waits neither for a page another one holds nor for a place in the batch
\* (try_handoff, cuda/gpt2_pd_engine.hpp, and schedule(), scheduler.hpp).
THEOREM DecodeNeverWaits == PDSpec => []EveryDecodeAdvances
<1> DEFINE Inv == PDInv /\ AdvanceInv /\ PlaceReserved
<1>1. PDInit => Inv
  BY PDInvInit, AdvanceInvInit DEF PDInit, PlaceReserved
<1>2. Inv /\ [PDNext]_pd_vars => Inv'
  BY PDInvInductive, AdvanceInvInductive, PlaceReservedInductive
<1>3. Inv => EveryDecodeAdvances
  <2> SUFFICES ASSUME Inv, pd_pc = "schedule", pc = "model"
               PROVE  /\ waiting = << >>
                      /\ Range(running) = {items[i].sequence : i \in DOMAIN items}
                      /\ \A i \in DOMAIN items : items[i].num_scheduled_tokens = 1
    BY DEF EveryDecodeAdvances
  <2>1. waiting = << >> /\ BatchOfFirst(Len(running))
    BY DEF AdvanceInv
  <2>2. DOMAIN items = 1 .. Len(items) /\ DOMAIN running = 1 .. Len(running)
    BY QueueFacts DEF PDInv, SchedulerInv
  <2> QED
    BY <2>1, <2>2 DEF BatchOfFirst, Range
<1> QED
  BY <1>1, <1>2, <1>3, PTL DEF PDSpec


----------------------------------------------------------------------------
(***************************************************************************)
(* What the two caches hold.                                               *)
(***************************************************************************)

\* The first n positions of r have a page each, and their K/V is there.
Stored(cache, table, r, n) ==
  /\ n <= Len(table) * BlockSize
  /\ HoldsHistory(cache, table, r, n)

\* What P's run leaves behind, and D's for one item.
PrefillStored ==
  Stored(p_kv_cache, p_block_table[prefilling], prefilling,
         p_num_computed_tokens[prefilling] + PrefillCount)

ItemStored(item) ==
  Stored(d_kv_cache, block_table[item.sequence], item.sequence,
         num_computed_tokens[item.sequence] + item.num_scheduled_tokens)

\* A side runs when it has something to run, and only between LaunchRuns and the
\* commit.
RunControl ==
  /\ pd_pc # "run" => p_run = "off" /\ d_run = "off"
  /\ pd_pc = "run" => /\ p_run = "off" <=> prefilling = NoRequest
                      /\ d_run = "off" <=> items = << >>

PrefillCacheInv ==
  /\ DOMAIN p_kv_cache = P!Blocks
  /\ \A r \in {prefilling, pending} \ {NoRequest} :
       Stored(p_kv_cache, p_block_table[r], r, p_num_computed_tokens[r])
  /\ p_run = "returned" => PrefillStored
  /\ pd_pc \in {"commit_decode", "commit_prefill"} /\ prefilling # NoRequest => PrefillStored

DecodeCacheInv ==
  /\ DOMAIN d_kv_cache = Blocks
  /\ \A r \in Requests : OnD(r) =>
       Stored(d_kv_cache, block_table[r], r, num_computed_tokens[r])
  /\ d_run = "returned" => \A i \in DOMAIN items : ItemStored(items[i])
  /\ pd_pc = "commit_decode" => \A i \in Untouched : ItemStored(items[i])

CacheInv == RunControl /\ PrefillCacheInv /\ DecodeCacheInv

----------------------------------------------------------------------------
(***************************************************************************)
(* What a run does to the history of a request.                            *)
(***************************************************************************)

\* The rows of r that follow what is computed extend its history, if no other row
\* comes near its first m positions.
LEMMA RowsExtendHistory ==
  ASSUME NEW cache, NEW table, NEW computed, NEW rows, NEW r, NEW m \in Nat,
         computed[r] \in Nat,
         HoldsHistory(cache, table[r], r, computed[r]),
         \A p \in 0 .. m - 1 : PageOf(table[r], p) \in DOMAIN cache,
         \A p \in 0 .. m - 1 : <<r, p>> \in rows <=> p >= computed[r],
         \A row \in rows, p \in 0 .. m - 1 :
           PageOf(table[row[1]], row[2]) = PageOf(table[r], p)
             /\ SlotForToken(row[2]) = SlotForToken(p) => row = <<r, p>>
  PROVE  HoldsHistory(RowsWritten(cache, table, computed, rows), table[r], r, m)
<1> SUFFICES ASSUME NEW p \in 0 .. m - 1
             PROVE  Lookup(RowsWritten(cache, table, computed, rows), table[r], p)
                      = KVOf(Prompt[r], p)
  BY DEF HoldsHistory
<1> DEFINE b == PageOf(table[r], p)
           s == SlotForToken(p)
           here == {row \in rows : PageOf(table[row[1]], row[2]) = b /\ SlotForToken(row[2]) = s}
           row == CHOOSE x \in here : TRUE
<1>1. p \in Nat /\ b \in DOMAIN cache /\ s \in Slots
  BY PositionFacts
<1>2. Lookup(RowsWritten(cache, table, computed, rows), table[r], p)
        = IF here = {} THEN cache[b][s]
          ELSE IF here = {row} /\ HoldsHistory(cache, table[row[1]], row[1], computed[row[1]])
          THEN KVOf(Prompt[row[1]], row[2])
          ELSE Garbage
  BY <1>1 DEF Lookup, RowsWritten
<1>3. <<r, p>>[1] = r /\ <<r, p>>[2] = p
  OBVIOUS
<1>4. \A x \in here : x = <<r, p>>
  OBVIOUS
<1>5. CASE p < computed[r]
  <2>1. here = {}
    BY <1>1, <1>4, <1>5
  <2>2. cache[b][s] = KVOf(Prompt[r], p)
    BY <1>1, <1>5 DEF HoldsHistory, Lookup
  <2> QED
    BY <1>2, <2>1, <2>2
<1>6. CASE p >= computed[r]
  <2>1. <<r, p>> \in here
    BY <1>3, <1>6
  <2>2. here = {<<r, p>>}
    BY <1>4, <2>1
  <2>3. row = <<r, p>>
    BY <1>4, <2>1
  <2> HIDE DEF row, here
  <2> QED
    BY <1>2, <1>3, <2>2, <2>3
<1> QED
  BY <1>1, <1>5, <1>6

\* A run that throws spoils no slot but those of its rows.
LEMMA TornKeepsHistory ==
  ASSUME NEW cache, NEW table, NEW rows, NEW r, NEW m \in Nat,
         HoldsHistory(cache, table[r], r, m),
         \A p \in 0 .. m - 1 : PageOf(table[r], p) \in DOMAIN cache,
         \A row \in rows, p \in 0 .. m - 1 :
           ~ (PageOf(table[row[1]], row[2]) = PageOf(table[r], p)
                /\ SlotForToken(row[2]) = SlotForToken(p))
  PROVE  HoldsHistory(RowsTorn(cache, table, rows), table[r], r, m)
<1> SUFFICES ASSUME NEW p \in 0 .. m - 1
             PROVE  Lookup(RowsTorn(cache, table, rows), table[r], p) = KVOf(Prompt[r], p)
  BY DEF HoldsHistory
<1>1. p \in Nat /\ PageOf(table[r], p) \in DOMAIN cache /\ SlotForToken(p) \in Slots
  BY PositionFacts
<1>2. Lookup(RowsTorn(cache, table, rows), table[r], p) = Lookup(cache, table[r], p)
  BY <1>1 DEF Lookup, RowsTorn
<1> QED
  BY <1>2 DEF HoldsHistory

\* A shorter history is part of a longer one.
LEMMA StoredPrefix ==
  ASSUME NEW cache, NEW table, Len(table) \in Nat, NEW r, NEW m \in Nat, NEW n \in Nat, m <= n,
         Stored(cache, table, r, n)
  PROVE  Stored(cache, table, r, m)
<1>1. Len(table) * BlockSize \in Nat
  BY BlocksHoldPositions
<1> QED
  BY <1>1 DEF Stored, HoldsHistory

\* Nothing is stored of nothing.
LEMMA NothingStored ==
  ASSUME NEW cache, NEW table, Len(table) \in Nat, NEW r
  PROVE  Stored(cache, table, r, 0)
<1>1. Len(table) * BlockSize \in Nat
  BY BlocksHoldPositions
<1> QED
  BY <1>1 DEF Stored, HoldsHistory

----------------------------------------------------------------------------
(***************************************************************************)
(* The run of P.                                                           *)
(***************************************************************************)

\* P's run computes positions of the prompt that follow the computed ones, in pages
\* the request has.
LEMMA PrefillFacts ==
  ASSUME PDInv, prefilling # NoRequest, pd_pc # "release_prefill"
  PROVE  LET r == prefilling
             c == p_num_computed_tokens[prefilling]
         IN  /\ r \in Requests /\ c \in Nat /\ PrefillCount \in Nat
             /\ PromptLen(r) \in Nat
             /\ c + PrefillCount <= PromptLen(r)
             /\ PromptLen(r) <= Len(p_block_table[r]) * BlockSize
             /\ Len(p_block_table[r]) \in Nat
             /\ p_block_table[r] \in Seq(P!Blocks)
             /\ IsInjective(p_block_table[r])
             /\ P!PendingTokens(r) = PromptLen(r) - c
<1> DEFINE r == prefilling
           c == p_num_computed_tokens[prefilling]
<1>1. PP!PoolInv /\ Places /\ PrefillInv
  BY DEF PDInv, PrefillInv
<1>2. r \in Requests
  BY <1>1 DEF Places
<1>3. /\ p_num_tokens[r] = PromptLen(r) /\ c <= PromptLen(r)
      /\ PromptLen(r) \in Nat /\ c \in Nat
  BY <1>1, <1>2, PrefillTypes, PrefixKeyFacts DEF Places
<1>4. P!PendingTokens(r) = PromptLen(r) - c
  BY <1>3 DEF P!PendingTokens
<1> HIDE DEF c
<1>5. PrefillCount \in Nat /\ c + PrefillCount <= PromptLen(r)
  BY <1>3, <1>4, PDAssumption DEF PrefillCount
<1>6. Len(p_block_table[r]) = BlocksNeeded(PromptLen(r)) /\ BlocksNeeded(PromptLen(r)) \in Nat
  BY <1>1, <1>2, <1>3, BlocksNeededNat DEF PrefillInv
<1>7. PromptLen(r) <= Len(p_block_table[r]) * BlockSize
  BY <1>3, <1>6, BlocksNeededHold
<1>8. p_block_table[r] \in Seq(P!Blocks)
  BY <1>1, <1>2, PrefillTypes, SamePool
<1>9. IsInjective(p_block_table[r])
  BY <1>1, <1>2 DEF PP!PoolInv, PP!NoAliasing, PP!IsInjective, IsInjective
<1> QED
  BY <1>2, <1>3, <1>4, <1>5, <1>6, <1>7, <1>8, <1>9 DEF c

LEMMA PrefillRunStores ==
  ASSUME PDInv, CacheInv, PrefillRuns
  PROVE  PrefillCacheInv'
<1> DEFINE r == prefilling
           c == p_num_computed_tokens[prefilling]
           m == c + PrefillCount
<1>1. /\ pd_pc = "run" /\ pd_pc' = "run" /\ p_run \in Launched
      /\ UNCHANGED <<p_vars, prefilling, pending>>
      /\ \/ /\ p_run' = "returned"
            /\ p_kv_cache' =
                 RowsWritten(p_kv_cache, p_block_table, p_num_computed_tokens, PrefillRows)
         \/ /\ p_run' = "threw"
            /\ p_kv_cache' \in {p_kv_cache, RowsTorn(p_kv_cache, p_block_table, PrefillRows)}
  BY DEF PrefillRuns, pd_queue_vars
<1>2. r # NoRequest /\ PrefillCacheInv
  BY <1>1 DEF CacheInv, RunControl, Launched
<1>3. pending = NoRequest
  BY <1>2 DEF PDInv, Places
<1>4. /\ r \in Requests /\ c \in Nat /\ PrefillCount \in Nat
      /\ PromptLen(r) \in Nat /\ m <= PromptLen(r)
      /\ PromptLen(r) <= Len(p_block_table[r]) * BlockSize
      /\ Len(p_block_table[r]) \in Nat
      /\ p_block_table[r] \in Seq(P!Blocks)
      /\ IsInjective(p_block_table[r])
  BY <1>1, <1>2, PrefillFacts
<1>5. Len(p_block_table[r]) * BlockSize \in Nat
  BY <1>4, BlocksHoldPositions
<1>6. Stored(p_kv_cache, p_block_table[r], r, c) /\ DOMAIN p_kv_cache = P!Blocks
  BY <1>2 DEF PrefillCacheInv
<1>7. PrefillRows = {r} \X (c .. m - 1)
  <2>1. c + PrefillCount - 1 = m - 1
    BY <1>4
  <2> QED
    BY <2>1 DEF PrefillRows
<1> HIDE DEF r, c
<1>8. m \in Nat /\ c <= m /\ m <= Len(p_block_table[r]) * BlockSize
  BY <1>4, <1>5
<1>9. \A p \in 0 .. m - 1 :
        p \in Nat /\ p < Len(p_block_table[r]) * BlockSize
          /\ PageOf(p_block_table[r], p) \in DOMAIN p_kv_cache
  <2> SUFFICES ASSUME NEW p \in 0 .. m - 1
               PROVE  p \in Nat /\ p < Len(p_block_table[r]) * BlockSize
                        /\ PageOf(p_block_table[r], p) \in DOMAIN p_kv_cache
    OBVIOUS
  <2>1. p \in Nat /\ p < Len(p_block_table[r]) * BlockSize
    BY <1>5, <1>8
  <2> QED
    BY <1>4, <1>6, <2>1, PositionHasPage
<1>10. \A row \in PrefillRows : row = <<r, row[2]>> /\ row[1] = r /\ row[2] \in c .. m - 1
                                /\ row[2] \in 0 .. m - 1
  BY <1>4, <1>7
<1>11. \A row \in PrefillRows, p \in 0 .. m - 1 :
         PageOf(p_block_table[row[1]], row[2]) = PageOf(p_block_table[r], p)
           /\ SlotForToken(row[2]) = SlotForToken(p) => row = <<r, p>>
  <2> SUFFICES ASSUME NEW row \in PrefillRows, NEW p \in 0 .. m - 1,
                      PageOf(p_block_table[row[1]], row[2]) = PageOf(p_block_table[r], p),
                      SlotForToken(row[2]) = SlotForToken(p)
               PROVE  row = <<r, p>>
    OBVIOUS
  <2>1. row[2] = p
    BY <1>4, <1>9, <1>10, PositionsApart
  <2> QED
    BY <1>10, <2>1
<1>12. \A p \in 0 .. m - 1 : <<r, p>> \in PrefillRows <=> p >= c
  BY <1>4, <1>7, <1>8
<1>13. HoldsHistory(p_kv_cache, p_block_table[r], r, c) /\ c = p_num_computed_tokens[r]
  BY <1>6 DEF Stored, c, r
<1>14. CASE p_kv_cache' =
              RowsWritten(p_kv_cache, p_block_table, p_num_computed_tokens, PrefillRows)
  <2>1. HoldsHistory(p_kv_cache', p_block_table[r], r, m)
    BY <1>4, <1>8, <1>9, <1>11, <1>12, <1>13, <1>14, RowsExtendHistory
  <2>2. Stored(p_kv_cache', p_block_table[r], r, m)
    BY <1>8, <2>1 DEF Stored
  <2>3. Stored(p_kv_cache', p_block_table[r], r, c)
    BY <1>4, <1>8, <2>2, StoredPrefix
  <2>4. PrefillStored'
    BY <1>1, <2>2 DEF PrefillStored, PrefillCount, P!PendingTokens, p_vars, r, c
  <2>5. DOMAIN p_kv_cache' = P!Blocks
    BY <1>6, <1>14 DEF RowsWritten
  <2> QED
    BY <1>1, <1>3, <2>3, <2>4, <2>5 DEF PrefillCacheInv, p_vars, P!Blocks, r, c
<1>15. CASE p_run' = "threw" /\ p_kv_cache' = p_kv_cache
  BY <1>1, <1>2, <1>15 DEF PrefillCacheInv, p_vars, P!Blocks
<1>16. CASE p_run' = "threw" /\ p_kv_cache' = RowsTorn(p_kv_cache, p_block_table, PrefillRows)
  <2>1. \A row \in PrefillRows, p \in 0 .. c - 1 :
           ~ (PageOf(p_block_table[row[1]], row[2]) = PageOf(p_block_table[r], p)
                /\ SlotForToken(row[2]) = SlotForToken(p))
    <3> SUFFICES ASSUME NEW row \in PrefillRows, NEW p \in 0 .. c - 1,
                        PageOf(p_block_table[row[1]], row[2]) = PageOf(p_block_table[r], p),
                        SlotForToken(row[2]) = SlotForToken(p)
                 PROVE  FALSE
      OBVIOUS
    <3>1. p \in 0 .. m - 1 /\ <<r, p>> \notin PrefillRows
      BY <1>4, <1>8, <1>12
    <3> QED
      BY <1>11, <3>1
  <2>2. \A p \in 0 .. c - 1 : PageOf(p_block_table[r], p) \in DOMAIN p_kv_cache
    BY <1>4, <1>8, <1>9
  <2>3. HoldsHistory(p_kv_cache', p_block_table[r], r, c)
    BY <1>4, <1>13, <1>16, <2>1, <2>2, TornKeepsHistory
  <2>4. Stored(p_kv_cache', p_block_table[r], r, c)
    BY <1>6, <2>3 DEF Stored
  <2>5. DOMAIN p_kv_cache' = P!Blocks
    BY <1>6, <1>16 DEF RowsTorn
  <2> QED
    BY <1>1, <1>3, <1>16, <2>4, <2>5 DEF PrefillCacheInv, p_vars, P!Blocks, r, c
<1> QED
  BY <1>1, <1>14, <1>15, <1>16

----------------------------------------------------------------------------
(***************************************************************************)
(* The run of D.                                                           *)
(***************************************************************************)

\* The rows of D's run are the scheduled positions of the batch's requests.
LEMMA DecodeRowFacts ==
  ASSUME SchedulerInv, pc = "model", NEW row \in DecodeRows
  PROVE  /\ row = <<row[1], row[2]>> /\ row[2] \in Nat
         /\ row[1] \in Requests /\ row[1] \in Range(running) /\ status[row[1]] = "Running"
         /\ num_computed_tokens[row[1]] \in Nat /\ num_computed_tokens[row[1]] <= row[2]
         /\ row[2] < Len(block_table[row[1]]) * BlockSize
<1>1. SchedulerTypeOK /\ TypeOK
  BY DEF SchedulerInv, SchedulerTypeOK
<1>2. PICK i \in DOMAIN items :
        LET first == num_computed_tokens[items[i].sequence]
        IN  row \in {items[i].sequence}
                      \X (first .. first + items[i].num_scheduled_tokens - 1)
  BY DEF DecodeRows
<1>3. Ready(items[i])
  BY DEF SchedulerInv, BatchInv, Untouched
<1>4. PICK x \in Requests : x = items[i].sequence
  BY <1>1, QueueFacts
<1>5. PICK count \in Nat : count = items[i].num_scheduled_tokens
  BY <1>1, QueueFacts
<1>6. /\ x \in Range(running) /\ status[x] = "Running"
      /\ num_computed_tokens[x] + count <= Len(block_table[x]) * BlockSize
  BY <1>3, <1>4, <1>5 DEF Ready
<1>7. row = <<row[1], row[2]>> /\ row[1] = x
      /\ row[2] \in num_computed_tokens[x] .. num_computed_tokens[x] + count - 1
  BY <1>2, <1>4, <1>5
<1>8. num_computed_tokens[x] \in Nat /\ Len(block_table[x]) * BlockSize \in Nat
  BY <1>1, RequestFacts, BlocksHoldPositions
<1>9. /\ row[2] \in Nat /\ num_computed_tokens[x] <= row[2]
      /\ row[2] < Len(block_table[x]) * BlockSize
  BY <1>6, <1>7, <1>8
<1> QED
  BY <1>6, <1>7, <1>8, <1>9

\* The slot of a row is no other position's of any request: the page is one where its
\* own request has something left to compute.
LEMMA DecodeRowIsPrivate ==
  ASSUME SchedulerInv, pc = "model", NEW row \in DecodeRows,
         NEW q \in Requests, NEW p \in Nat, p < Len(block_table[q]) * BlockSize,
         PageOf(block_table[row[1]], row[2]) = PageOf(block_table[q], p),
         SlotForToken(row[2]) = SlotForToken(p)
  PROVE  row = <<q, p>>
<1>1. PICK x \in Requests, pos \in Nat : row = <<x, pos>> /\ row[1] = x /\ row[2] = pos
  BY DecodeRowFacts
<1>2. /\ num_computed_tokens[x] \in Nat /\ num_computed_tokens[x] <= pos
      /\ pos < Len(block_table[x]) * BlockSize
  BY <1>1, DecodeRowFacts
<1>3. TypeOK /\ NoAliasing /\ WriteIsolation
  BY PoolInvIsolatesWrites DEF SchedulerInv, PoolInv
<1>4. /\ pos \div BlockSize + 1 \in DOMAIN block_table[x]
      /\ pos \div BlockSize + 1 \in Nat
      /\ PageOf(block_table[x], pos) = block_table[x][pos \div BlockSize + 1]
  BY <1>2, <1>3, PageFacts
<1>5. ~ FullyComputed(x, pos \div BlockSize + 1)
  <2>1. pos \div BlockSize < pos \div BlockSize + 1
    BY PositionFacts
  <2>2. pos < (pos \div BlockSize + 1) * BlockSize
    BY <1>4, <2>1, PositionFacts
  <2>3. (pos \div BlockSize + 1) * BlockSize \in Nat
    BY <1>4, BlocksHoldPositions
  <2> QED
    BY <1>2, <2>2, <2>3 DEF FullyComputed
<1>6. Holders(PageOf(block_table[x], pos)) = {x}
  BY <1>3, <1>4, <1>5 DEF WriteIsolation
<1>7. q \in Holders(PageOf(block_table[q], p))
  BY <1>3, PageFacts
<1>8. q = x
  BY <1>1, <1>6, <1>7
<1>9. block_table[x] \in Seq(Blocks) /\ IsInjective(block_table[x])
  BY <1>3 DEF TypeOK, NoAliasing
<1>10. p = pos
  BY <1>1, <1>2, <1>8, <1>9, PositionsApart
<1> QED
  BY <1>1, <1>8, <1>10

LEMMA DecodeRunStores ==
  ASSUME PDInv, CacheInv, DecodeRuns
  PROVE  DecodeCacheInv'
<1>1. /\ pd_pc = "run" /\ pd_pc' = "run" /\ d_run \in Launched
      /\ UNCHANGED <<bm_vars, known_request_ids, items, pc, cursor>>
      /\ \/ /\ d_run' = "returned"
            /\ d_kv_cache' = RowsWritten(d_kv_cache, block_table, num_computed_tokens, DecodeRows)
         \/ /\ d_run' = "threw"
            /\ d_kv_cache' \in {d_kv_cache, RowsTorn(d_kv_cache, block_table, DecodeRows)}
  BY DEF DecodeRuns, vars, bm_vars
<1>2. /\ SchedulerInv /\ SchedulerTypeOK /\ TypeOK /\ BatchInv /\ pc = "model"
      /\ DecodeCacheInv
  BY <1>1 DEF PDInv, SchedulerInv, SchedulerTypeOK, Control, CacheInv
<1>3. /\ UNCHANGED <<status, num_computed_tokens, block_table>>
      /\ DOMAIN d_kv_cache = Blocks
  BY <1>1, <1>2 DEF bm_vars, DecodeCacheInv
\* A request keeps what is computed, and gets what is scheduled.
<1>4. ASSUME NEW r \in Requests, NEW m \in Nat, num_computed_tokens[r] <= m,
             m <= Len(block_table[r]) * BlockSize,
             \A p \in 0 .. m - 1 : <<r, p>> \in DecodeRows <=> p >= num_computed_tokens[r],
             Stored(d_kv_cache, block_table[r], r, num_computed_tokens[r])
      PROVE  Stored(RowsWritten(d_kv_cache, block_table, num_computed_tokens, DecodeRows),
                    block_table[r], r, m)
  <2>1. Len(block_table[r]) * BlockSize \in Nat /\ num_computed_tokens[r] \in Nat
    BY <1>2, RequestFacts, BlocksHoldPositions
  <2>2. \A p \in 0 .. m - 1 : p \in Nat /\ p < Len(block_table[r]) * BlockSize
    BY <1>4, <2>1
  <2>3. \A p \in 0 .. m - 1 : PageOf(block_table[r], p) \in DOMAIN d_kv_cache
    BY <1>2, <1>3, <2>2, PageFacts
  <2>4. \A row \in DecodeRows, p \in 0 .. m - 1 :
           PageOf(block_table[row[1]], row[2]) = PageOf(block_table[r], p)
             /\ SlotForToken(row[2]) = SlotForToken(p) => row = <<r, p>>
    BY <1>2, <2>2, DecodeRowIsPrivate
  <2>5. HoldsHistory(RowsWritten(d_kv_cache, block_table, num_computed_tokens, DecodeRows),
                     block_table[r], r, m)
    BY <1>4, <2>1, <2>3, <2>4, RowsExtendHistory DEF Stored
  <2> QED
    BY <1>4, <2>5 DEF Stored
\* No row is of a position that is computed.
<1>5. ASSUME NEW r \in Requests, NEW p \in Nat, p < num_computed_tokens[r]
      PROVE  <<r, p>> \notin DecodeRows
  <2> SUFFICES ASSUME <<r, p>> \in DecodeRows
               PROVE  FALSE
    OBVIOUS
  <2>1. PICK row \in DecodeRows : row = <<r, p>>
    OBVIOUS
  <2>2. row[1] = r /\ row[2] = p
    BY <2>1
  <2>3. num_computed_tokens[row[1]] \in Nat /\ num_computed_tokens[row[1]] <= row[2]
    BY <1>2, DecodeRowFacts
  <2> QED
    BY <1>5, <2>2, <2>3
<1>6. \A r \in Requests : num_computed_tokens[r] \in Nat /\ Len(block_table[r]) \in Nat
  BY <1>2, RequestFacts
<1>7. CASE d_run' = "returned" /\
           d_kv_cache' = RowsWritten(d_kv_cache, block_table, num_computed_tokens, DecodeRows)
  <2>1. DOMAIN d_kv_cache' = Blocks
    BY <1>3, <1>7 DEF RowsWritten
  <2>2. ASSUME NEW r \in Requests, OnD(r)
        PROVE  Stored(d_kv_cache', block_table[r], r, num_computed_tokens[r])
    <3>1. PICK n \in Nat : n = num_computed_tokens[r]
      BY <1>6
    <3>2. Stored(d_kv_cache, block_table[r], r, n)
      BY <1>2, <2>2, <3>1 DEF DecodeCacheInv
    <3>3. \A p \in 0 .. n - 1 : p \in Nat /\ p < n
      OBVIOUS
    <3>4. \A p \in 0 .. n - 1 : <<r, p>> \in DecodeRows <=> p >= n
      BY <1>5, <3>1, <3>3
    <3> QED
      BY <1>4, <1>7, <3>1, <3>2, <3>4 DEF Stored
  <2>3. ASSUME NEW i \in DOMAIN items
        PROVE  LET r == items[i].sequence
               IN  Stored(d_kv_cache', block_table[r], r,
                          num_computed_tokens[r] + items[i].num_scheduled_tokens)
    <3>1. PICK r \in Requests : r = items[i].sequence
      BY <1>2, QueueFacts
    <3>2. PICK count \in Nat : count = items[i].num_scheduled_tokens
      BY <1>2, QueueFacts
    <3>3. PICK n \in Nat : n = num_computed_tokens[r]
      BY <1>6
    <3>4. Ready(items[i])
      BY <1>2 DEF BatchInv, Untouched
    <3>5. r \in Range(running) /\ status[r] = "Running"
          /\ n + count <= Len(block_table[r]) * BlockSize
      BY <3>1, <3>2, <3>3, <3>4 DEF Ready
    <3>6. OnD(r)
      BY <1>2, <3>5, HandedAreKnown DEF OnD
    <3>7. Stored(d_kv_cache, block_table[r], r, n)
      BY <1>2, <3>3, <3>6 DEF DecodeCacheInv
    <3>8. \A p \in 0 .. n + count - 1 : <<r, p>> \in DecodeRows <=> p >= n
      <4> SUFFICES ASSUME NEW p \in 0 .. n + count - 1
                   PROVE  <<r, p>> \in DecodeRows <=> p >= n
        OBVIOUS
      <4>1. p \in Nat
        OBVIOUS
      <4>2. p >= n => <<r, p>> \in DecodeRows
        <5>1. p >= n => p \in n .. n + count - 1
          BY <4>1
        <5>2. p >= n => <<r, p>> \in {items[i].sequence} \X
                (num_computed_tokens[items[i].sequence] ..
                 num_computed_tokens[items[i].sequence] + items[i].num_scheduled_tokens - 1)
          BY <3>1, <3>2, <3>3, <5>1
        <5> QED
          BY <5>2 DEF DecodeRows
      <4>3. ~ (p >= n) => <<r, p>> \notin DecodeRows
        BY <1>5, <3>3, <4>1
      <4> QED
        BY <4>2, <4>3
    <3>9. PICK m \in Nat : m = n + count
      OBVIOUS
    <3>10. m - 1 = n + count - 1 /\ n <= m
      BY <3>9
    <3>11. Stored(d_kv_cache', block_table[r], r, m)
      BY <1>4, <1>7, <3>3, <3>5, <3>7, <3>8, <3>9, <3>10
    <3> QED
      BY <3>1, <3>2, <3>3, <3>9, <3>11
  <2> QED
    BY <1>1, <1>3, <2>1, <2>2, <2>3 DEF DecodeCacheInv, OnD, ItemStored, Blocks
<1>8. CASE d_run' = "threw" /\ d_kv_cache' = d_kv_cache
  BY <1>1, <1>2, <1>3, <1>8 DEF DecodeCacheInv, OnD, Blocks
<1>9. CASE d_run' = "threw" /\ d_kv_cache' = RowsTorn(d_kv_cache, block_table, DecodeRows)
  <2>1. DOMAIN d_kv_cache' = Blocks
    BY <1>3, <1>9 DEF RowsTorn
  <2>2. ASSUME NEW r \in Requests, OnD(r)
        PROVE  Stored(d_kv_cache', block_table[r], r, num_computed_tokens[r])
    <3>1. PICK n \in Nat : n = num_computed_tokens[r]
      BY <1>6
    <3>2. Stored(d_kv_cache, block_table[r], r, n)
      BY <1>2, <2>2, <3>1 DEF DecodeCacheInv
    <3>3. \A p \in 0 .. n - 1 : /\ p \in Nat /\ p < n
                               /\ p < Len(block_table[r]) * BlockSize
                               /\ PageOf(block_table[r], p) \in DOMAIN d_kv_cache
      <4>1. Len(block_table[r]) * BlockSize \in Nat /\ n <= Len(block_table[r]) * BlockSize
        BY <1>6, <3>2, BlocksHoldPositions DEF Stored
      <4>2. \A p \in 0 .. n - 1 : p \in Nat /\ p < n /\ p < Len(block_table[r]) * BlockSize
        BY <4>1
      <4> QED
        BY <1>2, <1>3, <4>2, PageFacts
    <3>4. \A row \in DecodeRows, p \in 0 .. n - 1 :
             ~ (PageOf(block_table[row[1]], row[2]) = PageOf(block_table[r], p)
                  /\ SlotForToken(row[2]) = SlotForToken(p))
      <4> SUFFICES ASSUME NEW row \in DecodeRows, NEW p \in 0 .. n - 1,
                          PageOf(block_table[row[1]], row[2]) = PageOf(block_table[r], p),
                          SlotForToken(row[2]) = SlotForToken(p)
                   PROVE  FALSE
        OBVIOUS
      <4>1. row = <<r, p>>
        BY <1>2, <3>3, DecodeRowIsPrivate
      <4> QED
        BY <1>5, <3>1, <3>3, <4>1
    <3>5. HoldsHistory(d_kv_cache', block_table[r], r, n)
      BY <1>9, <3>2, <3>3, <3>4, TornKeepsHistory DEF Stored
    <3> QED
      BY <3>1, <3>2, <3>5 DEF Stored
  <2> QED
    BY <1>1, <1>3, <1>9, <2>1, <2>2 DEF DecodeCacheInv, OnD, Blocks
<1> QED
  BY <1>1, <1>7, <1>8, <1>9

----------------------------------------------------------------------------
(***************************************************************************)
(* What D has stored, through scheduling and commits.                      *)
(***************************************************************************)

\* schedule() moves no page of a request and computes nothing.
LEMMA SchedulingKeepsStored ==
  ASSUME SchedulerInv, DecodeInv, SchedulerInv', DecodeInv', pd_pc # "copy", pd_pc' # "copy",
         ScheduleRunning \/ EndRunning \/ AdmitFromCache \/ Admit \/ EndAdmit
  PROVE  \A q \in Requests : OnD(q)' =>
           /\ OnD(q) /\ block_table'[q] = block_table[q]
           /\ num_computed_tokens'[q] = num_computed_tokens[q]
<1>1. CASE EndRunning \/ EndAdmit
  BY <1>1 DEF EndRunning, EndAdmit, OnD, bm_vars, queue_vars, output_vars
<1>2. CASE ScheduleRunning \/ AdmitFromCache \/ Admit
  <2>1. SchedulerTypeOK /\ TypeOK /\ TypeOK' /\ PoolInv
    BY DEF SchedulerInv, SchedulerTypeOK
  <2>2. UNCHANGED known_request_ids /\ pc # "release" /\ pc' # "release"
    BY <1>2 DEF ScheduleRunning, AdmitFromCache, Admit, queue_vars
  <2>3. live_sequences \subseteq live_sequences'
    BY <1>2 DEF ScheduleRunning, AdmitFromCache, Admit, EnsureCapacitySucceeds,
       EnsureCapacityFails, EvictAndAllocate, ApplyPrefixCache, BecomesLive
  <2>4. TablesGrow
    <3>1. [BMNext]_bm_vars
      BY <1>2, SchedulerInvInductive DEF Next, EngineStep
    <3>2. CASE BMNext
      BY <2>1, <3>2, StepsKeepReaders
    <3>3. CASE UNCHANGED bm_vars
      BY <3>3 DEF bm_vars, TablesGrow
    <3> QED
      BY <3>1, <3>2, <3>3
  <2>5. UNCHANGED num_computed_tokens
    <3>1. CASE ScheduleRunning \/ Admit
      BY <3>1, ReservationCountsNothing DEF ScheduleRunning, Admit
    <3>2. CASE AdmitFromCache
      BY <2>1, <3>2, QueueFacts, LookupIsIdle DEF AdmitFromCache, MayAdmit
    <3> QED
      BY <1>2, <3>1, <3>2
  <2>6. \A q \in Requests : status'[q] # "Finished" => status[q] # "Finished"
    <3>1. CASE ScheduleRunning \/ AdmitFromCache
      BY <3>1 DEF ScheduleRunning, AdmitFromCache, ApplyPrefixCache
    <3>2. CASE Admit
      <4>1. /\ waiting # << >>
            /\ UNCHANGED status \/ SetStatus(Head(waiting), "Running")
        BY <3>2 DEF Admit, StartRunning, SchedulerInv, StageInv, MayAdmit
      <4>2. Head(waiting) \in Requests /\ status[Head(waiting)] = "Waiting"
        BY <2>1, <4>1, QueueFacts, HandedAreKnown
      <4> QED
        BY <2>1, <4>1, <4>2 DEF SetStatus, TypeOK
    <3> QED
      BY <1>2, <3>1, <3>2
  <2> SUFFICES ASSUME NEW q \in Requests, OnD(q)'
               PROVE  OnD(q) /\ block_table'[q] = block_table[q]
    BY <2>5
  <2>7. OnD(q)
    BY <2>2, <2>6 DEF OnD
  <2>8. Len(block_table'[q]) = Len(block_table[q])
    BY <2>7 DEF DecodeInv, ReserveTokens
  <2> QED
    BY <2>1, <2>3, <2>4, <2>7, <2>8, SameLengthSameTable
<1> QED
  BY <1>1, <1>2

\* D's cache and what D counts as computed stay, and no batch is being committed.
LEMMA DecodeCacheStays ==
  ASSUME DecodeCacheInv, UNCHANGED d_kv_cache,
         \A q \in Requests : OnD(q)' =>
           /\ OnD(q) /\ block_table'[q] = block_table[q]
           /\ num_computed_tokens'[q] = num_computed_tokens[q],
         d_run' # "returned", pd_pc' # "commit_decode"
  PROVE  DecodeCacheInv'
  BY DEF DecodeCacheInv, Blocks

\* The commit of one item leaves those of the others as they were.
LEMMA LaterItemsStored ==
  ASSUME SchedulerInv, cursor \in DOMAIN items, UNCHANGED <<items, d_kv_cache>>,
         \A q \in Requests : q # items[cursor].sequence =>
           /\ block_table'[q] = block_table[q]
           /\ num_computed_tokens'[q] = num_computed_tokens[q],
         Untouched' \subseteq Untouched \ {cursor},
         \A i \in Untouched : ItemStored(items[i])
  PROVE  (\A i \in Untouched : ItemStored(items[i]))'
<1> SUFFICES ASSUME NEW i \in Untouched'
             PROVE  ItemStored(items[i])'
  OBVIOUS
<1>1. i \in Untouched /\ i # cursor /\ i \in DOMAIN items
  BY DEF Untouched
<1>2. PICK q \in Requests : q = items[i].sequence
  BY <1>1, QueueFacts DEF SchedulerInv
<1>3. q # items[cursor].sequence
  BY <1>1, <1>2 DEF SchedulerInv, BatchInv
<1>4. /\ block_table'[q] = block_table[q]
      /\ num_computed_tokens'[q] = num_computed_tokens[q]
  BY <1>3
<1>5. ItemStored(items[i])
  BY <1>1
<1> QED
  BY <1>2, <1>4, <1>5 DEF ItemStored, Stored, HoldsHistory

LEMMA CommitItemStores ==
  ASSUME SchedulerInv, DecodeCacheInv, CommitItem, UNCHANGED d_kv_cache,
         pd_pc = "commit_decode", d_run' # "returned"
  PROVE  DecodeCacheInv'
<1>0. SchedulerTypeOK /\ TypeOK
  BY DEF SchedulerInv, SchedulerTypeOK
<1>1. /\ pc = "commit" /\ cursor <= Len(items)
      /\ UNCHANGED <<items, block_table, status, known_request_ids>>
      /\ pc' \in {"commit", "sample"}
      /\ pc' = "commit" => cursor' = cursor + 1
      /\ pc' = "sample" => cursor' = cursor
      /\ ComputeTokens(items[cursor].sequence, items[cursor].num_scheduled_tokens)
  BY DEF CommitItem, ComputeTokens, queue_vars, output_vars
<1>2. cursor \in DOMAIN items /\ cursor \in Nat
  BY <1>0, <1>1, QueueFacts DEF SchedulerTypeOK
<1>3. cursor \in Untouched
  BY <1>1, <1>2 DEF Untouched
<1>4. Untouched' \subseteq Untouched \ {cursor}
  <2>1. DOMAIN items \subseteq Nat
    BY <1>0, QueueFacts
  <2> QED
    BY <1>1, <1>2, <2>1 DEF Untouched
<1>5. PICK r \in Requests : r = items[cursor].sequence
  BY <1>0, <1>2, QueueFacts
<1>6. num_computed_tokens' =
        [num_computed_tokens EXCEPT ![r] = @ + items[cursor].num_scheduled_tokens]
  BY <1>1, <1>5 DEF ComputeTokens, MarkComputed
<1>7. /\ num_computed_tokens'[r] =
           num_computed_tokens[r] + items[cursor].num_scheduled_tokens
      /\ \A q \in Requests : q # r => num_computed_tokens'[q] = num_computed_tokens[q]
  BY <1>0, <1>6 DEF TypeOK
<1>8. \A i \in Untouched : ItemStored(items[i])
  BY DEF DecodeCacheInv
<1>9. Stored(d_kv_cache, block_table[r], r, num_computed_tokens'[r])
  BY <1>3, <1>5, <1>7, <1>8 DEF ItemStored
<1>10. (\A i \in Untouched : ItemStored(items[i]))'
  BY <1>1, <1>2, <1>4, <1>5, <1>7, <1>8, LaterItemsStored
<1>11. \A q \in Requests : OnD(q)' => OnD(q)
  BY <1>1 DEF OnD
<1> QED
  BY <1>1, <1>5, <1>7, <1>9, <1>10, <1>11 DEF DecodeCacheInv, Blocks

LEMMA CommitSampleStores ==
  ASSUME SchedulerInv, DecodeCacheInv, CommitSample, UNCHANGED d_kv_cache,
         pd_pc = "commit_decode", d_run' # "returned"
  PROVE  DecodeCacheInv'
<1>0. SchedulerTypeOK /\ TypeOK
  BY DEF SchedulerInv, SchedulerTypeOK
<1>1. PICK eos \in BOOLEAN :
        /\ Sample(items[cursor].sequence, eos)
        /\ \/ pc' = "release" /\ UNCHANGED cursor
           \/ pc' = "commit" /\ cursor' = cursor + 1
  BY DEF CommitSample
<1>2. /\ pc = "sample"
      /\ UNCHANGED <<items, block_table, num_computed_tokens, known_request_ids>>
  BY <1>1 DEF CommitSample, Sample, queue_vars, output_vars
<1>3. /\ cursor \in DOMAIN items /\ cursor \in Nat
      /\ status[items[cursor].sequence] = "Running"
  BY <1>0, <1>2 DEF SchedulerInv, StageInv, SchedulerTypeOK
<1>4. Untouched' \subseteq Untouched \ {cursor}
  <2>1. DOMAIN items \subseteq Nat
    BY <1>0, QueueFacts
  <2> QED
    BY <1>1, <1>2, <1>3, <2>1 DEF Untouched
<1>5. \A i \in Untouched : ItemStored(items[i])
  BY DEF DecodeCacheInv
<1>6. (\A i \in Untouched : ItemStored(items[i]))'
  BY <1>2, <1>3, <1>4, <1>5, LaterItemsStored
<1>7. \A q \in Requests : OnD(q)' => OnD(q)
  <2>1. \A q \in Requests : q # items[cursor].sequence => status'[q] = status[q]
    BY <1>0, <1>1 DEF Sample, SetStatus, TypeOK
  <2>2. pc' = "release" => cursor' = cursor
    BY <1>1
  <2> QED
    BY <1>2, <1>3, <2>1, <2>2 DEF OnD
<1> QED
  BY <1>2, <1>6, <1>7 DEF DecodeCacheInv, Blocks

LEMMA CommitReleaseStores ==
  ASSUME SchedulerInv, DecodeCacheInv, CommitRelease, UNCHANGED d_kv_cache,
         pd_pc = "commit_decode", d_run' # "returned"
  PROVE  DecodeCacheInv'
<1>0. SchedulerTypeOK /\ TypeOK
  BY DEF SchedulerInv, SchedulerTypeOK
<1>1. /\ pc = "release" /\ pc' = "commit" /\ cursor' = cursor + 1
      /\ block_table' = [block_table EXCEPT ![items[cursor].sequence] = << >>]
      /\ UNCHANGED <<items, status, num_computed_tokens, known_request_ids>>
  BY DEF CommitRelease, Release, queue_vars, output_vars
<1>2. /\ cursor \in DOMAIN items /\ cursor \in Nat
      /\ status[items[cursor].sequence] = "Finished"
  BY <1>0, <1>1 DEF SchedulerInv, StageInv, SchedulerTypeOK
<1>3. Untouched' \subseteq Untouched \ {cursor}
  <2>1. DOMAIN items \subseteq Nat
    BY <1>0, QueueFacts
  <2> QED
    BY <1>1, <1>2, <2>1 DEF Untouched
<1>4. \A q \in Requests : q # items[cursor].sequence => block_table'[q] = block_table[q]
  BY <1>0, <1>1 DEF TypeOK
<1>5. \A i \in Untouched : ItemStored(items[i])
  BY DEF DecodeCacheInv
<1>6. (\A i \in Untouched : ItemStored(items[i]))'
  BY <1>1, <1>2, <1>3, <1>4, <1>5, LaterItemsStored
<1>7. \A q \in Requests : OnD(q)' => OnD(q) /\ q # items[cursor].sequence
  BY <1>1, <1>2 DEF OnD
<1> QED
  BY <1>1, <1>4, <1>6, <1>7 DEF DecodeCacheInv, Blocks

----------------------------------------------------------------------------
(***************************************************************************)
(* The copy from P's pages to D's.                                         *)
(***************************************************************************)

\* The pages to copy are pages D has reserved for the request, and nothing of it counts
\* as computed there yet.
LEMMA CopyFacts ==
  ASSUME PDInv, pd_pc = "copy"
  PROVE  /\ pending \in Requests /\ PromptLen(pending) \in Nat
         /\ PagesToCopy(pending) = BlocksNeeded(PromptLen(pending))
         /\ PagesToCopy(pending) \in Nat
         /\ Len(block_table[pending]) \in Nat
         /\ PagesToCopy(pending) <= Len(block_table[pending])
         /\ PromptLen(pending) <= Len(block_table[pending]) * BlockSize
         /\ DOMAIN block_table[pending] = 1 .. Len(block_table[pending])
         /\ IsInjective(block_table[pending])
         /\ num_computed_tokens[pending] = 0
<1> DEFINE r == pending
           n == PromptLen(pending)
<1>1. /\ r \in Requests \ known_request_ids /\ n \in Nat \ {0}
      /\ p_num_computed_tokens[r] = n
      /\ MaxNewTokens[r] \in Nat /\ MaxNewTokens[r] > 1
  BY HandedOver
<1>2. TypeOK /\ NoAliasing /\ DecodeInv
  BY DEF PDInv, SchedulerInv, SchedulerTypeOK, PoolInv
<1>3. /\ num_computed_tokens[r] = 0
      /\ Len(block_table[r]) = BlocksNeeded(ReserveTokens(r))
  BY <1>1, <1>2 DEF DecodeInv
<1>4. ReserveTokens(r) \in Nat /\ n <= ReserveTokens(r)
  BY <1>1 DEF ReserveTokens
<1>5. /\ BlocksNeeded(n) \in Nat
      /\ BlocksNeeded(n) <= BlocksNeeded(ReserveTokens(r))
  BY <1>1, <1>4, BlocksNeededFacts
<1>6. Len(block_table[r]) \in Nat /\ DOMAIN block_table[r] = 1 .. Len(block_table[r])
  BY <1>1, <1>2, TableFacts
<1>7. n <= Len(block_table[r]) * BlockSize
  BY <1>1, <1>3, <1>5, <1>6, BlocksNeededHold
<1> QED
  BY <1>1, <1>2, <1>3, <1>5, <1>6, <1>7 DEF PagesToCopy, NoAliasing

\* Whatever a copy does to these pages, no other request's history is in them.
LEMMA CopySparesOthers ==
  ASSUME PDInv, pd_pc = "copy", DOMAIN d_kv_cache = Blocks,
         NEW pages \in SUBSET (1 .. PagesToCopy(pending)), NEW content,
         NEW q \in Requests, q # pending, NEW n \in Nat,
         Stored(d_kv_cache, block_table[q], q, n)
  PROVE  Stored(PagesReplaced(pending, pages, content), block_table[q], q, n)
<1> DEFINE r == pending
<1>1. /\ r \in Requests /\ PagesToCopy(r) \in Nat /\ Len(block_table[r]) \in Nat
      /\ PagesToCopy(r) <= Len(block_table[r])
      /\ DOMAIN block_table[r] = 1 .. Len(block_table[r])
      /\ num_computed_tokens[r] = 0
  BY CopyFacts
<1>2. TypeOK /\ WriteIsolation
  BY PoolInvIsolatesWrites DEF PDInv, SchedulerInv, PoolInv
<1>3. \A i \in pages : q \notin Holders(block_table[r][i])
  <2> SUFFICES ASSUME NEW i \in pages
               PROVE  Holders(block_table[r][i]) = {r}
    OBVIOUS
  <2>1. i \in DOMAIN block_table[r] /\ i \in Nat \ {0}
    BY <1>1
  <2>2. ~ FullyComputed(r, i)
    BY <1>1, <2>1, BlockManagerAssumption DEF FullyComputed
  <2> QED
    BY <1>1, <1>2, <2>1, <2>2 DEF WriteIsolation
<1>4. Len(block_table[q]) * BlockSize \in Nat /\ n <= Len(block_table[q]) * BlockSize
  BY <1>2, RequestFacts, BlocksHoldPositions DEF Stored
<1>5. ASSUME NEW p \in 0 .. n - 1
      PROVE  Lookup(PagesReplaced(r, pages, content), block_table[q], p)
               = Lookup(d_kv_cache, block_table[q], p)
  <2>1. p \in Nat /\ p < Len(block_table[q]) * BlockSize
    BY <1>4
  <2>2. /\ PageOf(block_table[q], p) \in Blocks
        /\ q \in Holders(PageOf(block_table[q], p))
    BY <1>2, <2>1, PageFacts
  <2>3. ~ \E i \in pages : block_table[r][i] = PageOf(block_table[q], p)
    BY <1>3, <2>2
  <2> QED
    BY <2>2, <2>3 DEF Lookup, PagesReplaced
<1> QED
  BY <1>5 DEF Stored, HoldsHistory

\* The pages D gets hold the history of the prompt, wherever they are.
LEMMA CopyStores ==
  ASSUME PDInv, PrefillCacheInv, pd_pc = "copy"
  PROVE  LET pages == 1 .. PagesToCopy(pending)
         IN  Stored(PagesReplaced(pending, pages,
                                  [i \in pages |-> p_kv_cache[p_block_table[pending][i]]]),
                    block_table[pending], pending, PromptLen(pending))
<1> DEFINE r == pending
           pages == 1 .. PagesToCopy(pending)
           content == [i \in pages |-> p_kv_cache[p_block_table[r][i]]]
<1>1. /\ r \in Requests /\ PagesToCopy(r) \in Nat /\ Len(block_table[r]) \in Nat
      /\ PromptLen(r) \in Nat
      /\ PagesToCopy(r) = BlocksNeeded(PromptLen(r))
      /\ PagesToCopy(r) <= Len(block_table[r])
      /\ PromptLen(r) <= Len(block_table[r]) * BlockSize
      /\ DOMAIN block_table[r] = 1 .. Len(block_table[r])
      /\ IsInjective(block_table[r])
  BY CopyFacts
<1>2. r # NoRequest /\ p_num_computed_tokens[r] = PromptLen(r)
  BY HandedOver, PDAssumption
<1>3. HoldsHistory(p_kv_cache, p_block_table[r], r, PromptLen(r))
  BY <1>2 DEF PrefillCacheInv, Stored
<1>4. TypeOK
  BY DEF PDInv, SchedulerInv, SchedulerTypeOK
<1>5. PromptLen(r) <= PagesToCopy(r) * BlockSize /\ PagesToCopy(r) * BlockSize \in Nat
  BY <1>1, BlocksNeededHold, BlocksHoldPositions
<1>6. ASSUME NEW p \in 0 .. PromptLen(r) - 1
      PROVE  Lookup(PagesReplaced(r, pages, content), block_table[r], p) = KVOf(Prompt[r], p)
  <2> DEFINE k == p \div BlockSize + 1
             b == PageOf(block_table[r], p)
  <2>1. p \in Nat /\ p < PagesToCopy(r) * BlockSize /\ p < Len(block_table[r]) * BlockSize
    <3>1. p \in Nat /\ p < PromptLen(r)
      BY <1>1
    <3>2. Len(block_table[r]) * BlockSize \in Nat
      BY <1>1, BlocksHoldPositions
    <3> QED
      BY <1>1, <1>5, <3>1, <3>2
  <2>2. k \in pages
    <3>1. p \div BlockSize \in Nat /\ p \div BlockSize < PagesToCopy(r)
      BY <1>1, <2>1, PositionFacts
    <3> QED
      BY <1>1, <3>1
  <2>3. b = block_table[r][k] /\ b \in Blocks /\ k \in DOMAIN block_table[r]
    BY <1>1, <1>4, <2>1, PageFacts
  <2> HIDE DEF b
  <2>4. \A i \in pages : block_table[r][i] = b => i = k
    <3>1. \A i \in pages : i \in DOMAIN block_table[r]
      BY <1>1
    <3> QED
      BY <1>1, <2>3, <3>1 DEF IsInjective
  <2>5. (CHOOSE i \in pages : block_table[r][i] = b) = k
    BY <2>2, <2>3, <2>4
  <2>6. PagesReplaced(r, pages, content)[b] = p_kv_cache[p_block_table[r][k]]
    BY <2>2, <2>3, <2>5 DEF PagesReplaced
  <2>7. PageOf(p_block_table[r], p) = p_block_table[r][k]
    BY DEF PageOf
  <2>8. Lookup(p_kv_cache, p_block_table[r], p) = KVOf(Prompt[r], p)
    BY <1>3 DEF HoldsHistory
  <2> QED
    BY <2>6, <2>7, <2>8 DEF Lookup, b
<1> QED
  BY <1>1, <1>6 DEF Stored, HoldsHistory

LEMMA HandoffReservesStores ==
  ASSUME PDInv, PDInv', CacheInv, HandoffReserves \/ HandoffWaitsForPages
  PROVE  DecodeCacheInv'
<1>1. /\ pd_pc = "handoff" /\ ~ HandoffBlocked /\ pd_pc' # "commit_decode"
      /\ UNCHANGED <<status, known_request_ids, pc, items, cursor, d_kv_cache, d_run>>
      /\ \/ EnsureCapacitySucceeds(pending, ReserveTokens(pending))
         \/ EnsureCapacityFails(pending, ReserveTokens(pending))
  BY DEF HandoffReserves, HandoffWaitsForPages, queue_and_output, queue_vars, output_vars,
         cache_vars, run_vars
<1>2. /\ SchedulerInv /\ PoolInv /\ TypeOK /\ TypeOK' /\ DecodeCacheInv
      /\ d_run' # "returned"
  BY <1>1 DEF PDInv, SchedulerInv, SchedulerTypeOK, CacheInv, RunControl
<1>3. pending \in Requests \ known_request_ids
  BY <1>1 DEF PDInv, Places, HandoffBlocked
<1>4. ReserveTokens(pending) \in Nat
  BY <1>2, <1>3, ReserveIsEnough
<1>5. UNCHANGED num_computed_tokens
  BY <1>1, ReservationCountsNothing
<1>6. \A q \in Requests : q # pending => block_table'[q] = block_table[q]
  <2>1. CASE EnsureCapacitySucceeds(pending, ReserveTokens(pending))
    BY <1>2, <1>3, <1>4, <2>1, SuccessMakesRoom
  <2>2. CASE EnsureCapacityFails(pending, ReserveTokens(pending))
    <3>1. TablesGrow /\ live_sequences \subseteq live_sequences'
      BY <1>2, <1>3, <1>4, <2>2, ReservationKeepsReaders
    <3>2. \A q \in Requests : Len(block_table'[q]) = Len(block_table[q])
      BY <1>2, <1>3, <1>4, <2>2, FailureKeepsTables
    <3> QED
      BY <1>2, <3>1, <3>2, SameLengthSameTable
  <2> QED
    BY <1>1, <2>1, <2>2
<1>7. \A q \in Requests : OnD(q)' => OnD(q) /\ q # pending
  BY <1>1, <1>3 DEF OnD
<1> QED
  BY <1>1, <1>2, <1>5, <1>6, <1>7, DecodeCacheStays

LEMMA HandoffCopiesStores ==
  ASSUME PDInv, CacheInv, HandoffCopies
  PROVE  DecodeCacheInv'
<1> DEFINE pages == 1 .. PagesToCopy(pending)
           content == [i \in pages |-> p_kv_cache[p_block_table[pending][i]]]
<1>1. /\ pd_pc = "copy" /\ pd_pc' = "prefill"
      /\ d_kv_cache' = PagesReplaced(pending, pages, content)
      /\ num_computed_tokens' =
           [num_computed_tokens EXCEPT ![pending] = p_num_computed_tokens[pending]]
      /\ known_request_ids' = known_request_ids \cup {pending}
      /\ UNCHANGED <<status, block_table, pc, items, cursor, d_run>>
  BY DEF HandoffCopies, output_vars, run_vars
<1>2. /\ TypeOK /\ DecodeCacheInv /\ PrefillCacheInv /\ d_run' # "returned"
  BY <1>1 DEF PDInv, SchedulerInv, SchedulerTypeOK, CacheInv, RunControl
<1>3. pending \in Requests /\ p_num_computed_tokens[pending] = PromptLen(pending)
  BY <1>1, HandedOver
<1>4. /\ num_computed_tokens'[pending] = PromptLen(pending)
      /\ \A q \in Requests : q # pending => num_computed_tokens'[q] = num_computed_tokens[q]
  BY <1>1, <1>2, <1>3 DEF TypeOK
<1>5. Stored(d_kv_cache', block_table[pending], pending, PromptLen(pending))
  BY <1>1, <1>2, CopyStores
<1>6. ASSUME NEW q \in Requests, q # pending, OnD(q)
      PROVE  Stored(d_kv_cache', block_table[q], q, num_computed_tokens[q])
  <2>1. PICK n \in Nat : n = num_computed_tokens[q]
    BY <1>2, RequestFacts
  <2>2. Stored(d_kv_cache, block_table[q], q, n) /\ DOMAIN d_kv_cache = Blocks
    BY <1>2, <1>6, <2>1 DEF DecodeCacheInv
  <2>3. pages \in SUBSET (1 .. PagesToCopy(pending))
    OBVIOUS
  <2> HIDE DEF pages, content
  <2>4. Stored(PagesReplaced(pending, pages, content), block_table[q], q, n)
    BY <1>1, <1>6, <2>2, <2>3, CopySparesOthers
  <2> QED
    BY <1>1, <2>1, <2>4
<1>7. \A q \in Requests : OnD(q)' => OnD(q) \/ q = pending
  BY <1>1 DEF OnD
<1>8. DOMAIN d_kv_cache' = Blocks
  BY <1>1 DEF PagesReplaced
<1> QED
  BY <1>1, <1>2, <1>4, <1>5, <1>6, <1>7, <1>8 DEF DecodeCacheInv, Blocks

LEMMA HandoffFailsStores ==
  ASSUME PDInv, CacheInv, HandoffFails
  PROVE  DecodeCacheInv'
<1>1. PICK torn \in SUBSET (1 .. PagesToCopy(pending)) :
        d_kv_cache' = PagesReplaced(pending, torn, [i \in torn |-> [s \in Slots |-> Garbage]])
  BY DEF HandoffFails
<1>2. /\ pd_pc = "copy" /\ pd_pc' = "idle"
      /\ block_table' = [block_table EXCEPT ![pending] = << >>]
      /\ UNCHANGED <<status, num_computed_tokens, known_request_ids, pc, items, cursor, d_run>>
  BY DEF HandoffFails, Release, queue_and_output, queue_vars, output_vars, run_vars
<1>3. /\ TypeOK /\ DecodeCacheInv /\ d_run' # "returned"
  BY <1>2 DEF PDInv, SchedulerInv, SchedulerTypeOK, CacheInv, RunControl
<1>4. pending \in Requests \ known_request_ids
  BY <1>2, HandedOver
<1>5. \A q \in Requests : OnD(q)' => OnD(q) /\ q # pending
  BY <1>2, <1>4 DEF OnD
<1>6. \A q \in Requests : q # pending => block_table'[q] = block_table[q]
  BY <1>2, <1>3 DEF TypeOK
<1>7. ASSUME NEW q \in Requests, q # pending, OnD(q)
      PROVE  Stored(d_kv_cache', block_table[q], q, num_computed_tokens[q])
  <2>1. PICK n \in Nat : n = num_computed_tokens[q]
    BY <1>3, RequestFacts
  <2>2. Stored(d_kv_cache, block_table[q], q, n) /\ DOMAIN d_kv_cache = Blocks
    BY <1>3, <1>7, <2>1 DEF DecodeCacheInv
  <2>3. PICK content : content = [i \in torn |-> [s \in Slots |-> Garbage]]
    OBVIOUS
  <2>4. Stored(PagesReplaced(pending, torn, content), block_table[q], q, n)
    BY <1>2, <1>7, <2>2, CopySparesOthers
  <2> QED
    BY <1>1, <2>1, <2>3, <2>4
<1>8. DOMAIN d_kv_cache' = Blocks
  BY <1>1 DEF PagesReplaced
<1> QED
  BY <1>2, <1>3, <1>5, <1>6, <1>7, <1>8 DEF DecodeCacheInv, Blocks

----------------------------------------------------------------------------
(***************************************************************************)
(* Every step keeps what is stored.                                        *)
(***************************************************************************)
LEMMA RunControlInductive ==
  ASSUME PDInv, RunControl, [PDNext]_pd_vars
  PROVE  RunControl'
<1>1. CASE LaunchRuns
  <2>1. pd_pc = "schedule" /\ UNCHANGED prefilling
    BY <1>1 DEF LaunchRuns, pd_queue_vars
  <2>2. CASE pd_pc' = "idle" /\ UNCHANGED run_vars
    BY <2>1, <2>2 DEF RunControl, run_vars
  <2>3. CASE /\ IF prefilling = NoRequest THEN p_run' = "off" ELSE p_run' \in Launched
             /\ IF items = << >> THEN d_run' = "off" ELSE d_run' \in Launched
             /\ pd_pc' = "run" /\ UNCHANGED items
    BY <2>1, <2>3 DEF RunControl, Launched
  <2> QED
    BY <1>1, <2>2, <2>3 DEF LaunchRuns, output_vars
<1>2. CASE CommitStarts \/ RunsThrow
  BY <1>2 DEF CommitStarts, RunsThrow, RunControl
<1>3. CASE PrefillRuns \/ DecodeRuns
  BY <1>3 DEF PrefillRuns, DecodeRuns, RunControl, Launched, vars, pd_queue_vars
<1>4. CASE \/ \E r \in Requests : PDAddRequest(r)
           \/ StepBegins \/ HandoffSkipped \/ HandoffWaitsForPages \/ HandoffReserves
           \/ HandoffCopies \/ HandoffFails \/ PrefillAdmits \/ PrefillSkipped
           \/ DecodeSchedules \/ DecodeCommits \/ DecodeCommitted
           \/ PrefillCommits \/ PrefillSamples \/ PrefillReleases
  <2>1. pd_pc # "run" /\ pd_pc' # "run" /\ UNCHANGED run_vars
    BY <1>4 DEF PDAddRequest, StepBegins, HandoffSkipped, HandoffWaitsForPages, HandoffReserves,
       HandoffCopies, HandoffFails, PrefillAdmits, PrefillSkipped, DecodeSchedules,
       DecodeCommits, DecodeCommitted, PrefillCommits, PrefillSamples, PrefillReleases
  <2> QED
    BY <2>1 DEF RunControl, run_vars
<1>5. CASE PDDone \/ UNCHANGED pd_vars
  BY <1>5 DEF PDDone, RunControl, pd_vars, vars
<1> QED
  BY <1>1, <1>2, <1>3, <1>4, <1>5 DEF PDNext, PDStep

LEMMA DecodeCacheInductive ==
  ASSUME PDInv, PDInv', CacheInv, RunControl', [PDNext]_pd_vars
  PROVE  DecodeCacheInv'
<1>1. SchedulerInv /\ SchedulerInv' /\ DecodeInv /\ DecodeInv' /\ DecodeCacheInv /\ RunControl
  BY DEF PDInv, CacheInv
<1>2. CASE UNCHANGED <<vars, d_kv_cache, d_run, pd_pc>>
  BY <1>1, <1>2 DEF DecodeCacheInv, OnD, ItemStored, Untouched, Blocks, vars
<1>3. CASE UNCHANGED <<bm_vars, known_request_ids, d_kv_cache>> /\ pc # "release"
           /\ (pc' # "release" \/ UNCHANGED <<pc, items, cursor>>)
           /\ pd_pc' \notin {"run", "commit_decode"}
  <2>1. \A q \in Requests : OnD(q)' =>
          /\ OnD(q) /\ block_table'[q] = block_table[q]
          /\ num_computed_tokens'[q] = num_computed_tokens[q]
    BY <1>3 DEF OnD, bm_vars
  <2>2. d_run' # "returned"
    BY <1>3 DEF RunControl
  <2> QED
    BY <1>1, <1>3, <2>1, <2>2, DecodeCacheStays
<1>4. CASE \/ \E r \in Requests : PDAddRequest(r)
           \/ StepBegins \/ HandoffSkipped \/ PrefillAdmits \/ PrefillSkipped
           \/ RunsThrow \/ DecodeCommitted
           \/ PrefillCommits \/ PrefillSamples \/ PrefillReleases
  <2>1. CASE \/ \E r \in Requests : PDAddRequest(r)
             \/ StepBegins \/ HandoffSkipped \/ PrefillCommits \/ PrefillSamples
             \/ PrefillReleases
    <3>1. /\ UNCHANGED <<bm_vars, known_request_ids, d_kv_cache, pc, items, cursor>>
          /\ pd_pc \notin {"run", "schedule", "commit_decode"}
          /\ pd_pc' \notin {"run", "commit_decode"}
      BY <2>1 DEF PDAddRequest, StepBegins, HandoffSkipped, PrefillCommits, PrefillSamples,
         PrefillReleases, vars, bm_vars, cache_vars
    <3>2. pc = "idle"
      BY <3>1 DEF PDInv, Control
    <3> QED
      BY <1>3, <3>1, <3>2
  <2>2. CASE PrefillAdmits \/ PrefillSkipped
    <3>1. /\ UNCHANGED <<bm_vars, known_request_ids, d_kv_cache>>
          /\ pd_pc = "prefill" /\ pd_pc' = "schedule" /\ pc' = "running"
      BY <2>2 DEF PrefillAdmits, PrefillSkipped, cache_vars, queue_and_output, queue_vars
    <3>2. pc = "idle"
      BY <3>1 DEF PDInv, Control
    <3> QED
      BY <1>3, <3>1, <3>2
  <2>3. CASE RunsThrow \/ DecodeCommitted
    <3>1. /\ UNCHANGED <<bm_vars, known_request_ids, d_kv_cache>>
          /\ pd_pc = "run" \/ pc = "commit"
          /\ pd_pc' \notin {"run", "commit_decode"} /\ pc' = "idle"
      BY <2>3 DEF RunsThrow, DecodeCommitted, EndCommit, EndStep, cache_vars, queue_vars
    <3>2. pc # "release"
      BY <3>1 DEF PDInv, Control
    <3> QED
      BY <1>3, <3>1, <3>2
  <2> QED
    BY <1>4, <2>1, <2>2, <2>3
<1>5. CASE HandoffReserves \/ HandoffWaitsForPages \/ HandoffCopies \/ HandoffFails
  BY <1>5, HandoffReservesStores, HandoffCopiesStores, HandoffFailsStores
<1>6. CASE DecodeSchedules
  <2>1. /\ pd_pc = "schedule" /\ pd_pc' = "schedule" /\ UNCHANGED d_kv_cache
        /\ ScheduleRunning \/ EndRunning \/ AdmitFromCache \/ Admit \/ EndAdmit
    BY <1>6 DEF DecodeSchedules, cache_vars
  <2>2. d_run' # "returned"
    BY <2>1 DEF RunControl
  <2> QED
    BY <1>1, <2>1, <2>2, SchedulingKeepsStored, DecodeCacheStays
<1>7. CASE LaunchRuns
  <2>1. /\ UNCHANGED <<bm_vars, known_request_ids, d_kv_cache>>
        /\ pc = "model" /\ pd_pc' # "commit_decode"
        /\ pc' # "release"
    BY <1>7 DEF LaunchRuns, EndStep, queue_vars, cache_vars
  <2>2. d_run' # "returned"
    BY <1>1, <1>7 DEF LaunchRuns, Launched, RunControl, run_vars
  <2>3. \A q \in Requests : OnD(q)' =>
          /\ OnD(q) /\ block_table'[q] = block_table[q]
          /\ num_computed_tokens'[q] = num_computed_tokens[q]
    BY <2>1 DEF OnD, bm_vars
  <2> QED
    BY <1>1, <2>1, <2>2, <2>3, DecodeCacheStays
<1>8. CASE DecodeRuns
  BY <1>8, DecodeRunStores
<1>9. CASE CommitStarts
  <2>1. /\ UNCHANGED <<bm_vars, known_request_ids, d_kv_cache>>
        /\ pd_pc = "run" /\ d_run \in {"off", "returned"} /\ d_run' = "off"
    BY <1>9 DEF CommitStarts, RunsReturn, queue_vars, cache_vars
  <2>2. pc = "model"
    BY <2>1 DEF PDInv, Control
  <2>3. CASE items = << >>
    <3>1. pd_pc' = "commit_prefill" /\ pc' = "idle"
      BY <1>9, <2>3 DEF CommitStarts, EndStep
    <3> QED
      BY <1>3, <2>1, <2>2, <3>1
  <2>4. CASE items # << >>
    <3>1. pc' = "commit" /\ UNCHANGED items
      BY <1>9, <2>4 DEF CommitStarts, output_vars
    <3>2. \A i \in DOMAIN items : ItemStored(items[i])
      BY <1>1, <2>1, <2>4 DEF RunControl, DecodeCacheInv
    <3>3. \A q \in Requests : OnD(q)' => OnD(q)
      BY <2>1, <2>2, <3>1 DEF OnD, bm_vars
    <3> QED
      BY <1>1, <2>1, <3>1, <3>2, <3>3
      DEF DecodeCacheInv, ItemStored, Untouched, Blocks, bm_vars
  <2> QED
    BY <2>3, <2>4
<1>10. CASE DecodeCommits
  <2>1. /\ pd_pc = "commit_decode" /\ pd_pc' = "commit_decode" /\ UNCHANGED d_kv_cache
        /\ CommitItem \/ CommitSample \/ CommitRelease
    BY <1>10 DEF DecodeCommits, cache_vars
  <2>2. d_run' # "returned"
    BY <2>1 DEF RunControl
  <2> QED
    BY <1>1, <2>1, <2>2, CommitItemStores, CommitSampleStores, CommitReleaseStores
<1>11. CASE PrefillRuns \/ PDDone \/ UNCHANGED pd_vars
  BY <1>2, <1>11 DEF PrefillRuns, PDDone, pd_vars, vars
<1> QED
  BY <1>4, <1>5, <1>6, <1>7, <1>8, <1>9, <1>10, <1>11 DEF PDNext, PDStep

\* The two requests P has, where neither its pages nor its cache changes.
LEMMA PrefillCacheStays ==
  ASSUME PrefillCacheInv, UNCHANGED <<p_kv_cache, p_vars, prefilling, pending>>,
         p_run' = "returned" => p_run = "returned",
         pd_pc' \in {"commit_decode", "commit_prefill"} /\ prefilling # NoRequest =>
           PrefillStored
  PROVE  PrefillCacheInv'
<1>1. PrefillStored => PrefillStored'
  BY DEF PrefillStored, PrefillCount, P!PendingTokens, p_vars
<1> QED
  BY <1>1 DEF PrefillCacheInv, P!Blocks, p_vars

LEMMA PrefillAdmitsStores ==
  ASSUME PDInv, PDInv', PrefillCacheInv, RunControl', PrefillAdmits
  PROVE  PrefillCacheInv'
<1> DEFINE r == Head(pd_waiting)
<1>1. /\ pd_pc' = "schedule" /\ pd_waiting # << >> /\ prefilling' = r
      /\ prefilling = NoRequest /\ pending = NoRequest /\ pending' = NoRequest
      /\ P!EnsureCapacitySucceeds(r, PromptLen(r))
      /\ UNCHANGED <<p_kv_cache, p_num_computed_tokens>>
  BY DEF PrefillAdmits, MayPrefill, cache_vars, P!EnsureCapacitySucceeds, P!EvictAndAllocate
<1>2. r \in Requests /\ r \in Range(pd_waiting)
  BY <1>1, HeadOfQueue DEF PDInv, Places
<1>3. p_num_computed_tokens[r] = 0
  BY <1>2 DEF PDInv, Places
<1>4. Len(p_block_table'[r]) \in Nat
  <2>1. PP!PoolInv'
    BY DEF PDInv, PrefillInv
  <2> QED
    BY <1>2, <2>1, PrefillTypes
<1> HIDE DEF r
<1>5. Stored(p_kv_cache, p_block_table'[r], r, 0)
  BY <1>4, NothingStored
<1>6. p_run' # "returned"
  BY <1>1 DEF RunControl
<1> QED
  BY <1>1, <1>3, <1>5, <1>6 DEF PrefillCacheInv, P!Blocks

LEMMA PrefillCacheInductive ==
  ASSUME PDInv, PDInv', CacheInv, RunControl', [PDNext]_pd_vars
  PROVE  PrefillCacheInv'
<1>1. PrefillCacheInv /\ RunControl
  BY DEF CacheInv
<1>2. CASE UNCHANGED <<p_kv_cache, p_vars, prefilling, pending>>
           /\ pd_pc' \notin {"run", "commit_decode", "commit_prefill"}
  BY <1>1, <1>2, PrefillCacheStays DEF RunControl
<1>3. CASE UNCHANGED <<p_kv_cache, p_vars, prefilling, pending, p_run, pd_pc>>
  BY <1>1, <1>3, PrefillCacheStays DEF PrefillCacheInv
<1>4. CASE \/ \E r \in Requests : PDAddRequest(r)
           \/ StepBegins \/ HandoffSkipped \/ HandoffWaitsForPages \/ HandoffReserves
           \/ HandoffFails \/ DecodeSchedules \/ RunsThrow
  <2>1. /\ UNCHANGED <<p_kv_cache, p_vars, prefilling, pending>>
        /\ pd_pc' \notin {"run", "commit_decode", "commit_prefill"}
    BY <1>4 DEF PDAddRequest, StepBegins, HandoffSkipped, HandoffWaitsForPages,
       HandoffReserves, HandoffFails, DecodeSchedules, RunsThrow, cache_vars, pd_queue_vars
  <2> QED
    BY <1>2, <2>1
<1>5. CASE DecodeRuns \/ DecodeCommits \/ PDDone \/ UNCHANGED pd_vars
  <2>1. UNCHANGED <<p_kv_cache, p_vars, prefilling, pending, p_run, pd_pc>>
    BY <1>5 DEF DecodeRuns, DecodeCommits, PDDone, cache_vars, run_vars, pd_queue_vars,
       pd_vars, p_vars
  <2> QED
    BY <1>3, <2>1
<1>6. CASE LaunchRuns
  <2>1. /\ UNCHANGED <<p_kv_cache, p_vars, prefilling, pending>>
        /\ pd_pc' \notin {"commit_decode", "commit_prefill"} /\ pd_pc = "schedule"
        /\ p_run' \in Launched \cup {"off"} \/ p_run' = p_run
    BY <1>6 DEF LaunchRuns, cache_vars, pd_queue_vars, run_vars
  <2>2. p_run' # "returned"
    BY <1>1, <2>1 DEF RunControl, Launched
  <2> QED
    BY <1>1, <2>1, <2>2, PrefillCacheStays
<1>7. CASE CommitStarts
  <2>1. /\ UNCHANGED <<p_kv_cache, p_vars, prefilling, pending>>
        /\ pd_pc = "run" /\ p_run \in {"off", "returned"} /\ p_run' = "off"
    BY <1>7 DEF CommitStarts, RunsReturn, cache_vars, pd_queue_vars
  <2>2. prefilling # NoRequest => PrefillStored
    BY <1>1, <2>1 DEF RunControl, PrefillCacheInv
  <2> QED
    BY <1>1, <2>1, <2>2, PrefillCacheStays
<1>8. CASE DecodeCommitted
  <2>1. /\ UNCHANGED <<p_kv_cache, p_vars, prefilling, pending, p_run>>
        /\ pd_pc = "commit_decode"
    BY <1>8 DEF DecodeCommitted, cache_vars, run_vars
  <2> QED
    BY <1>1, <2>1, PrefillCacheStays DEF PrefillCacheInv
<1>9. CASE PrefillRuns
  BY <1>9, PrefillRunStores
<1>10. CASE PrefillAdmits
  BY <1>1, <1>10, PrefillAdmitsStores
<1>11. CASE PrefillSkipped
  <2>1. /\ pd_pc' = "schedule"
        /\ UNCHANGED <<p_kv_cache, prefilling, pending>>
        /\ UNCHANGED p_vars \/ (prefilling = NoRequest /\ pending = NoRequest)
    BY <1>11 DEF PrefillSkipped, MayPrefill, cache_vars, pd_queue_vars
  <2>2. p_run' # "returned"
    BY <2>1 DEF RunControl
  <2> QED
    BY <1>1, <1>2, <2>1, <2>2 DEF PrefillCacheInv, P!Blocks
<1>12. CASE HandoffCopies \/ PrefillReleases
  <2>1. /\ pd_pc' \in {"prefill", "idle"} /\ UNCHANGED p_kv_cache
        /\ pd_pc \in {"copy", "release_prefill"}
        /\ \/ pending # NoRequest /\ pending' = NoRequest /\ prefilling' = prefilling
           \/ prefilling # NoRequest /\ prefilling' = NoRequest /\ pending' = pending
    BY <1>12 DEF HandoffCopies, PrefillReleases, cache_vars, PDInv, Control
  <2>2. prefilling' = NoRequest /\ pending' = NoRequest
    BY <2>1 DEF PDInv, Places
  <2>3. p_run' # "returned"
    BY <2>1 DEF RunControl
  <2> QED
    BY <1>1, <2>1, <2>2, <2>3 DEF PrefillCacheInv, P!Blocks
<1>13. CASE PrefillCommits
  <2>1. /\ pd_pc = "commit_prefill" /\ pd_pc' \in {"idle", "sample_prefill"}
        /\ p_num_computed_tokens' =
             [p_num_computed_tokens EXCEPT ![prefilling] = @ + PrefillCount]
        /\ UNCHANGED <<p_kv_cache, p_block_table, prefilling, pending>>
    BY <1>13 DEF PrefillCommits, P!MarkComputed, cache_vars, pd_queue_vars
  <2>2. prefilling # NoRequest /\ prefilling \in Requests /\ pending = NoRequest
    BY <2>1 DEF PDInv, Control, Places
  <2>3. p_num_computed_tokens'[prefilling] = p_num_computed_tokens[prefilling] + PrefillCount
    BY <2>1, <2>2, PrefillTypes DEF PDInv, PrefillInv
  <2>4. Stored(p_kv_cache, p_block_table[prefilling], prefilling,
               p_num_computed_tokens'[prefilling])
    BY <1>1, <2>1, <2>2, <2>3 DEF PrefillCacheInv, PrefillStored
  <2>5. p_run' # "returned"
    BY <2>1 DEF RunControl
  <2> QED
    BY <1>1, <2>1, <2>2, <2>4, <2>5 DEF PrefillCacheInv, P!Blocks
<1>14. CASE PrefillSamples
  <2>1. /\ UNCHANGED <<p_kv_cache, p_block_table, p_num_computed_tokens>>
        /\ {prefilling', pending'} \subseteq {prefilling, pending, NoRequest}
        /\ pd_pc' \in {"release_prefill", "idle"}
    BY <1>14 DEF PrefillSamples, P!Sample, cache_vars
  <2>2. p_run' # "returned"
    BY <2>1 DEF RunControl
  <2> QED
    BY <1>1, <2>1, <2>2 DEF PrefillCacheInv, P!Blocks
<1> QED
  BY <1>4, <1>5, <1>6, <1>7, <1>8, <1>9, <1>10, <1>11, <1>12, <1>13, <1>14 DEF PDNext, PDStep

LEMMA CacheInvInit ==
  ASSUME PDInit
  PROVE  CacheInv
<1>1. \A r \in Requests : ~ OnD(r)
  BY DEF PDInit, Init, OnD
<1>2. items = << >> /\ Untouched = {}
  BY EmptySeq DEF PDInit, Init, Untouched
<1>3. DOMAIN p_kv_cache = P!Blocks /\ DOMAIN d_kv_cache = Blocks
  BY DEF PDInit, EmptyKVCache
<1> QED
  BY <1>1, <1>2, <1>3 DEF PDInit, CacheInv, RunControl, PrefillCacheInv, DecodeCacheInv

\* Every position that either GPU counts as computed holds the K/V of its own request's
\* history: chunks of the prompt, the copy to other physical pages, pages used again,
\* torn copies and runs that throw or overlap notwithstanding (PDEngine::step and
\* try_handoff, cuda/gpt2_pd_engine.hpp, copy_kv_to, cuda/gpt2_cuda_model_runner.cu).
THEOREM CachesStayCoherent == PDSpec => []PDKVCoherent
<1> DEFINE Inv == PDInv /\ CacheInv
<1>1. PDInit => Inv
  BY PDInvInit, CacheInvInit
<1>2. Inv /\ [PDNext]_pd_vars => Inv'
  BY PDInvInductive, RunControlInductive, PrefillCacheInductive, DecodeCacheInductive
  DEF CacheInv
<1>3. Inv => PDKVCoherent
  <2> SUFFICES ASSUME Inv
               PROVE  PDKVCoherent
    OBVIOUS
  <2>1. OnDecodeSide = {r \in Requests : OnD(r)}
    BY OnDecodeSideIsOnD DEF PDInv
  <2> QED
    BY <2>1, PDAssumption
    DEF PDKVCoherent, CacheInv, PrefillCacheInv, DecodeCacheInv, Stored
<1> QED
  BY <1>1, <1>2, <1>3, PTL DEF PDSpec

----------------------------------------------------------------------------
(***************************************************************************)
(* The two-GPU engine implements Serving.                                  *)
(***************************************************************************)

\* The two variables of Serving, as PDEngine maps them.
PDPhase ==
  [r \in Requests |-> IF r \notin requests THEN "unknown"
                      ELSE IF HandleStatus(r) = "Finished" THEN "finished" ELSE "accepted"]
PDTokens ==
  [r \in Requests |-> (IF r \in known_request_ids THEN num_tokens[r] ELSE p_num_tokens[r])
                      - PromptLen(r)]

\* P's sequence is finished only by its first token, and has left the queues then.
HandleInv ==
  \A r \in Requests : p_status[r] = "Finished" =>
    /\ r \in requests /\ r \notin Range(pd_waiting) /\ r # pending
    /\ r = prefilling => pd_pc = "release_prefill"

LEMMA HandleInvInit ==
  ASSUME PDInit
  PROVE  HandleInv
  BY DEF PDInit, P!BMInit, P!SequenceInit, HandleInv

LEMMA HandleInvInductive ==
  ASSUME PDInv, HandleInv, [PDNext]_pd_vars
  PROVE  HandleInv'
<1>0. Places /\ NoRequest \notin Requests /\ p_status \in [Requests -> SequenceStatus]
  BY PDAssumption, PrefillTypes DEF PDInv, PrefillInv
<1>1. ASSUME NEW r \in Requests, PDAddRequest(r)
      PROVE  HandleInv'
  <2>1. /\ r \notin requests /\ requests' = requests \cup {r}
        /\ pd_waiting' = Append(pd_waiting, r)
        /\ UNCHANGED <<p_status, pending, prefilling, pd_pc>>
    BY <1>1 DEF PDAddRequest, p_vars
  <2>2. Range(pd_waiting') = Range(pd_waiting) \cup {r}
    BY <1>0, <2>1, AppendToQueue DEF Places
  <2> QED
    BY <2>1, <2>2 DEF HandleInv
<1>2. CASE \/ StepBegins \/ HandoffSkipped \/ HandoffWaitsForPages \/ HandoffReserves
           \/ HandoffCopies \/ HandoffFails \/ PrefillSkipped
           \/ DecodeSchedules \/ LaunchRuns \/ PrefillRuns \/ DecodeRuns
           \/ CommitStarts \/ RunsThrow \/ DecodeCommits \/ DecodeCommitted \/ PrefillCommits
  <2>1. /\ pd_pc # "release_prefill"
        /\ UNCHANGED <<p_status, requests, pd_waiting, prefilling>>
        /\ pending' \in {pending, NoRequest}
    BY <1>2 DEF StepBegins, HandoffSkipped, HandoffWaitsForPages, HandoffReserves,
       HandoffCopies, P!Release, HandoffFails, PrefillSkipped, DecodeSchedules, LaunchRuns,
       PrefillRuns, DecodeRuns, CommitStarts, RunsReturn, RunsThrow, DecodeCommits,
       DecodeCommitted, PrefillCommits, p_vars, pd_queue_vars
  <2> QED
    BY <1>0, <2>1 DEF HandleInv
<1>3. CASE PrefillAdmits
  <2>1. /\ pd_waiting # << >> /\ pd_waiting' = Tail(pd_waiting)
        /\ pd_pc # "release_prefill" /\ prefilling' = Head(pd_waiting)
        /\ p_status' = [p_status EXCEPT ![Head(pd_waiting)] = "Running"]
        /\ UNCHANGED <<requests, pending>>
    BY <1>3 DEF PrefillAdmits, MayPrefill, P!SetStatus
  <2>2. /\ Head(pd_waiting) \in Requests
        /\ Range(pd_waiting') \subseteq Range(pd_waiting)
    BY <1>0, <2>1, HeadOfQueue DEF Places
  <2>3. \A q \in Requests :
          p_status'[q] = IF q = Head(pd_waiting) THEN "Running" ELSE p_status[q]
    BY <1>0, <2>1, <2>2
  <2> QED
    BY <2>1, <2>2, <2>3 DEF HandleInv
<1>4. CASE PrefillSamples
  <2>1. prefilling \in Requests /\ prefilling \in requests
        /\ prefilling \notin Range(pd_waiting) /\ pending = NoRequest
    BY <1>0, <1>4 DEF PrefillSamples, PDInv, Places, Control
  <2>2. /\ pd_pc = "sample_prefill" /\ UNCHANGED <<requests, pd_waiting>>
        /\ \/ /\ p_status' = [p_status EXCEPT ![prefilling] = "Finished"]
              /\ pd_pc' = "release_prefill" /\ UNCHANGED <<pending, prefilling>>
           \/ /\ UNCHANGED p_status
              /\ pending' = prefilling /\ prefilling' = NoRequest
    BY <1>4 DEF PrefillSamples, P!Sample, P!SetStatus
  <2>3. \A q \in Requests : q # prefilling => p_status'[q] = p_status[q]
    BY <1>0, <2>2
  <2>4. p_status[prefilling] # "Finished"
    BY <2>1, <2>2 DEF HandleInv
  <2> QED
    BY <1>0, <2>1, <2>2, <2>3, <2>4 DEF HandleInv
<1>5. CASE PrefillReleases
  <2>1. prefilling' = NoRequest /\ UNCHANGED <<p_status, requests, pd_waiting, pending>>
    BY <1>5 DEF PrefillReleases, P!Release
  <2> QED
    BY <1>0, <2>1 DEF HandleInv
<1>6. CASE PDDone \/ UNCHANGED pd_vars
  BY <1>6 DEF PDDone, HandleInv, pd_vars
<1> QED
  BY <1>1, <1>2, <1>3, <1>4, <1>5, <1>6 DEF PDNext, PDStep

\* Steps that append no token, finish nobody and accept nobody do not show.
LEMMA PDUnseenSteps ==
  ASSUME UNCHANGED <<known_request_ids, requests, num_tokens, p_num_tokens>>,
         \A q \in Requests : status'[q] = "Finished" <=> status[q] = "Finished",
         \A q \in Requests : p_status'[q] = "Finished" <=> p_status[q] = "Finished"
  PROVE  UNCHANGED <<PDPhase, PDTokens>>
  BY DEF PDPhase, PDTokens, HandleStatus

\* What a user sees of D is what D's scheduler shows.
LEMMA DecodeStepIsServed ==
  ASSUME PDInv, [Next]_vars, UNCHANGED <<known_request_ids, requests, p_status, p_num_tokens>>
  PROVE  [PDServed!Next]_<<PDPhase, PDTokens>>
<1>1. [Served!Next]_<<ServedPhase, ServedTokens>>
  BY StepsAreServed DEF PDInv
<1>2. known_request_ids \subseteq requests
  BY DEF PDInv, Places
<1>3. \A q \in Requests : q \in known_request_ids =>
        /\ PDPhase[q] = ServedPhase[q] /\ PDPhase'[q] = ServedPhase'[q]
        /\ PDTokens[q] = ServedTokens[q] /\ PDTokens'[q] = ServedTokens'[q]
  BY <1>2 DEF PDPhase, PDTokens, ServedPhase, ServedTokens, HandleStatus
<1>4. \A q \in Requests : q \notin known_request_ids =>
        /\ PDPhase'[q] = PDPhase[q] /\ PDTokens'[q] = PDTokens[q]
        /\ ServedPhase[q] = "unknown" /\ ServedPhase'[q] = "unknown"
  BY DEF PDPhase, PDTokens, HandleStatus, ServedPhase
<1>5. /\ PDPhase = [q \in Requests |-> PDPhase[q]]
      /\ PDPhase' = [q \in Requests |-> PDPhase'[q]]
      /\ PDTokens = [q \in Requests |-> PDTokens[q]]
      /\ PDTokens' = [q \in Requests |-> PDTokens'[q]]
      /\ ServedPhase = [q \in Requests |-> ServedPhase[q]]
      /\ ServedTokens = [q \in Requests |-> ServedTokens[q]]
  BY DEF PDPhase, PDTokens, ServedPhase, ServedTokens
<1>6. CASE UNCHANGED <<ServedPhase, ServedTokens>>
  <2>1. \A q \in Requests : PDPhase'[q] = PDPhase[q] /\ PDTokens'[q] = PDTokens[q]
    BY <1>3, <1>4, <1>6
  <2>2. PDPhase' = PDPhase /\ PDTokens' = PDTokens
    BY <1>5, <2>1, Zenon
  <2> QED
    BY <2>2
<1>7. ASSUME NEW r \in Requests, Served!Submit(r)
      PROVE  FALSE
  <2>1. ServedPhase[r] = "unknown" /\ ServedPhase' = [ServedPhase EXCEPT ![r] = "accepted"]
    BY <1>7 DEF Served!Submit, ServedPhase
  <2>2. ServedPhase'[r] = "accepted"
    BY <1>5, <2>1
  <2>3. r \notin known_request_ids
    BY <2>1 DEF ServedPhase
  <2> QED
    BY <1>4, <2>2, <2>3
<1>8. ASSUME NEW r \in Requests, Served!Generate(r)
      PROVE  PDServed!Next
  <2>1. /\ ServedPhase[r] = "accepted"
        /\ ServedTokens' = [ServedTokens EXCEPT ![r] = @ + 1]
        /\ \/ /\ ServedTokens[r] + 1 < MaxNewTokens[r]
              /\ UNCHANGED ServedPhase
           \/ /\ ServedTokens[r] + 1 = MaxNewTokens[r] \/ r \in HonorsEos
              /\ ServedPhase' = [ServedPhase EXCEPT ![r] = "finished"]
    BY <1>8 DEF Served!Generate, ServedPhase, ServedTokens
  <2>2. r \in known_request_ids
    BY <1>4, <2>1
  <2>3. /\ ServedTokens'[r] = ServedTokens[r] + 1
        /\ \A q \in Requests : q # r => ServedTokens'[q] = ServedTokens[q]
    BY <1>5, <2>1
  <2>4. \A q \in Requests : PDTokens'[q] = IF q = r THEN PDTokens[r] + 1 ELSE PDTokens[q]
    BY <1>3, <1>4, <2>2, <2>3
  <2>5. PDTokens' = [PDTokens EXCEPT ![r] = @ + 1]
    BY <1>5, <2>4
  <2>6. PDPhase[r] = "accepted" /\ PDTokens[r] = ServedTokens[r]
    BY <1>3, <2>1, <2>2
  <2>7. CASE ServedTokens[r] + 1 < MaxNewTokens[r] /\ UNCHANGED ServedPhase
    <3>1. \A q \in Requests : PDPhase'[q] = PDPhase[q]
      BY <1>3, <1>4, <2>7
    <3>2. UNCHANGED PDPhase
      BY <1>5, <3>1, Zenon
    <3>3. PDServed!Generate(r)
      BY <2>5, <2>6, <2>7, <3>2 DEF PDServed!Generate, PDPhase, PDTokens
    <3> QED
      BY <3>3 DEF PDServed!Next
  <2>8. CASE /\ ServedTokens[r] + 1 = MaxNewTokens[r] \/ r \in HonorsEos
             /\ ServedPhase' = [ServedPhase EXCEPT ![r] = "finished"]
    <3>1. ServedPhase'[r] = "finished"
          /\ \A q \in Requests : q # r => ServedPhase'[q] = ServedPhase[q]
      BY <1>5, <2>8
    <3>2. \A q \in Requests : PDPhase'[q] = IF q = r THEN "finished" ELSE PDPhase[q]
      BY <1>3, <1>4, <2>2, <3>1
    <3>3. PDPhase' = [PDPhase EXCEPT ![r] = "finished"]
      BY <1>5, <3>2
    <3>4. PDServed!Generate(r)
      BY <2>5, <2>6, <2>8, <3>3 DEF PDServed!Generate, PDPhase, PDTokens
    <3> QED
      BY <3>4 DEF PDServed!Next
  <2> QED
    BY <2>1, <2>7, <2>8
<1> QED
  BY <1>1, <1>6, <1>7, <1>8 DEF Served!Next

\* The handle changes from P's sequence to D's without showing it.
LEMMA HandoffIsUnseen ==
  ASSUME PDInv, HandleInv, HandoffCopies
  PROVE  UNCHANGED <<PDPhase, PDTokens>>
<1>1. PICK r \in Requests : r = pending
  BY HandedOver DEF HandoffCopies
<1>2. /\ pd_pc = "copy" /\ r \in Requests \ known_request_ids
      /\ known_request_ids' = known_request_ids \cup {r}
      /\ num_tokens' = [num_tokens EXCEPT ![r] = HandedTokens(r)]
      /\ UNCHANGED <<status, requests, p_status, p_num_tokens>>
  BY <1>1, HandedOver DEF HandoffCopies, P!Release
<1>3. p_num_tokens[r] = HandedTokens(r) /\ PromptLen(r) \in Nat
  BY <1>1, <1>2, HandedOver DEF PDInv, Places, Control
<1>4. status[r] = "Waiting" /\ p_status[r] # "Finished"
  BY <1>1, <1>2 DEF PDInv, DecodeInv, HandleInv
<1>5. \A q \in Requests : num_tokens'[q] = IF q = r THEN HandedTokens(r) ELSE num_tokens[q]
  BY <1>2 DEF PDInv, SchedulerInv, SchedulerTypeOK, TypeOK
<1>6. \A q \in Requests :
        /\ (HandleStatus(q) = "Finished")' <=> HandleStatus(q) = "Finished"
        /\ (IF q \in known_request_ids THEN num_tokens[q] ELSE p_num_tokens[q])'
             = IF q \in known_request_ids THEN num_tokens[q] ELSE p_num_tokens[q]
  BY <1>2, <1>3, <1>4, <1>5 DEF HandleStatus
<1> QED
  BY <1>2, <1>6 DEF PDPhase, PDTokens

LEMMA PrefillSampleIsServed ==
  ASSUME PDInv, HandleInv, PrefillSamples
  PROVE  PDServed!Next
<1>1. PICK r \in Requests : r = prefilling
  BY DEF PrefillSamples, PDInv, Places, Control
<1>2. PICK eos \in BOOLEAN : P!Sample(r, eos)
  BY <1>1 DEF PrefillSamples
<1>3. /\ pd_pc = "sample_prefill" /\ UNCHANGED <<requests, known_request_ids, status, num_tokens>>
      /\ r \in requests /\ r \notin known_request_ids /\ r # NoRequest
      /\ p_num_tokens[r] = PromptLen(r)
      /\ p_status[r] # "Finished"
  BY <1>1, PDAssumption DEF PrefillSamples, PDInv, Places, Control, HandleInv, vars
<1>4. PromptLen(r) \in Nat /\ MaxNewTokens[r] \in Nat \ {0}
  BY PrefixKeyFacts, SequenceAssumption
<1>5. /\ p_num_tokens \in [Requests -> Nat] /\ p_status \in [Requests -> SequenceStatus]
  BY PrefillTypes DEF PDInv, PrefillInv
<1>6. /\ p_num_tokens' = [p_num_tokens EXCEPT ![r] = @ + 1]
      /\ \/ /\ ShouldFinishAfter(r, p_num_tokens[r] + 1, eos)
            /\ p_status' = [p_status EXCEPT ![r] = "Finished"]
         \/ /\ ~ ShouldFinishAfter(r, p_num_tokens[r] + 1, eos)
            /\ UNCHANGED p_status
  BY <1>2, SameSizes DEF P!Sample, P!AppendToken, P!SetStatus, P!ShouldFinishAfter,
     ShouldFinishAfter
<1>7. /\ p_num_tokens'[r] = PromptLen(r) + 1
      /\ \A q \in Requests : q # r => p_num_tokens'[q] = p_num_tokens[q]
  BY <1>3, <1>5, <1>6
<1>8. /\ PDPhase = [q \in Requests |-> PDPhase[q]]
      /\ PDPhase' = [q \in Requests |-> PDPhase'[q]]
      /\ PDTokens = [q \in Requests |-> PDTokens[q]]
      /\ PDTokens' = [q \in Requests |-> PDTokens'[q]]
  BY DEF PDPhase, PDTokens
<1>9. PDPhase[r] = "accepted" /\ PDTokens[r] = 0 /\ PDTokens'[r] = 1
  <2>1. PDTokens[r] = PromptLen(r) - PromptLen(r)
    BY <1>3 DEF PDTokens
  <2>2. PDTokens'[r] = PromptLen(r) + 1 - PromptLen(r)
    <3>1. \A q \in Requests : q \in known_request_ids' <=> q \in known_request_ids
      BY <1>3
    <3>2. PDTokens' = [q \in Requests |->
                        IF q \in known_request_ids' THEN num_tokens'[q] - PromptLen(q)
                        ELSE p_num_tokens'[q] - PromptLen(q)]
      BY DEF PDTokens
    <3>3. r \notin known_request_ids'
      BY <1>3, <3>1
    <3>4. PDTokens'[r] = p_num_tokens'[r] - PromptLen(r)
      BY <3>2, <3>3
    <3> QED
      BY <1>4, <1>7, <3>4
  <2>3. PDPhase[r] = "accepted"
    BY <1>3 DEF PDPhase, HandleStatus
  <2> QED
    BY <1>4, <2>1, <2>2, <2>3
<1>10. PDTokens' = [PDTokens EXCEPT ![r] = @ + 1]
  <2>1. \A q \in Requests : q # r => PDTokens'[q] = PDTokens[q]
    BY <1>3, <1>7 DEF PDTokens
  <2>2. \A q \in Requests : PDTokens'[q] = IF q = r THEN PDTokens[r] + 1 ELSE PDTokens[q]
    BY <1>9, <2>1
  <2> QED
    BY <1>8, <2>2
<1>11. CASE ~ ShouldFinishAfter(r, p_num_tokens[r] + 1, eos)
  <2>1. PDTokens[r] + 1 < MaxNewTokens[r]
    BY <1>3, <1>4, <1>9, <1>11 DEF ShouldFinishAfter
  <2>2. UNCHANGED PDPhase
    BY <1>3, <1>6, <1>11 DEF PDPhase, HandleStatus
  <2>3. PDServed!Generate(r)
    BY <1>9, <1>10, <2>1, <2>2 DEF PDServed!Generate, PDPhase, PDTokens
  <2> QED
    BY <2>3 DEF PDServed!Next
<1>12. CASE ShouldFinishAfter(r, p_num_tokens[r] + 1, eos)
  <2>1. PDTokens[r] + 1 = MaxNewTokens[r] \/ r \in HonorsEos
    BY <1>3, <1>4, <1>9, <1>12 DEF ShouldFinishAfter
  <2>2. \A q \in Requests : p_status'[q] = IF q = r THEN "Finished" ELSE p_status[q]
    BY <1>5, <1>6, <1>12
  <2>3. \A q \in Requests : PDPhase'[q] = IF q = r THEN "finished" ELSE PDPhase[q]
    BY <1>3, <2>2 DEF PDPhase, HandleStatus
  <2>4. PDPhase' = [PDPhase EXCEPT ![r] = "finished"]
    BY <1>8, <2>3
  <2>5. PDServed!Generate(r)
    BY <1>9, <1>10, <2>1, <2>4 DEF PDServed!Generate, PDPhase, PDTokens
  <2> QED
    BY <2>5 DEF PDServed!Next
<1> QED
  BY <1>11, <1>12

LEMMA PDStepsAreServed ==
  ASSUME PDInv, HandleInv, [PDNext]_pd_vars
  PROVE  [PDServed!Next]_<<PDPhase, PDTokens>>
<1>0. Places /\ NoRequest \notin Requests /\ p_status \in [Requests -> SequenceStatus]
  BY PDAssumption, PrefillTypes DEF PDInv, PrefillInv
<1>1. ASSUME NEW r \in Requests, PDAddRequest(r)
      PROVE  PDServed!Next
  <2>1. /\ r \notin requests /\ requests' = requests \cup {r}
        /\ UNCHANGED <<status, num_tokens, known_request_ids, p_status, p_num_tokens>>
    BY <1>1 DEF PDAddRequest, p_vars, vars
  <2>2. r \notin known_request_ids /\ p_status[r] # "Finished"
    BY <1>0, <2>1 DEF Places, HandleInv
  <2>3. PDPhase[r] = "unknown" /\ UNCHANGED PDTokens
    BY <2>1 DEF PDPhase, PDTokens
  <2>4. PDPhase' = [PDPhase EXCEPT ![r] = "accepted"]
    BY <2>1, <2>2 DEF PDPhase, HandleStatus
  <2>5. PDServed!Submit(r)
    BY <2>3, <2>4 DEF PDServed!Submit, PDPhase, PDTokens
  <2> QED
    BY <2>5 DEF PDServed!Next
<1>2. CASE \/ StepBegins \/ HandoffSkipped \/ PrefillRuns \/ DecodeRuns \/ PrefillCommits
           \/ PDDone \/ UNCHANGED pd_vars
  <2>1. UNCHANGED <<status, num_tokens, known_request_ids, requests, p_status, p_num_tokens>>
    BY <1>2 DEF StepBegins, HandoffSkipped, PrefillRuns, DecodeRuns, PrefillCommits, PDDone,
       pd_vars, vars, p_vars, pd_queue_vars
  <2> QED
    BY <2>1, PDUnseenSteps
<1>3. CASE HandoffWaitsForPages \/ HandoffReserves \/ HandoffFails
  <2>1. UNCHANGED num_tokens
    BY <1>3, ReservationCountsNothing DEF HandoffWaitsForPages, HandoffReserves, HandoffFails,
       Release
  <2>2. UNCHANGED <<status, known_request_ids, requests, p_status, p_num_tokens>>
    BY <1>3 DEF HandoffWaitsForPages, HandoffReserves, HandoffFails, Release,
       queue_and_output, queue_vars, pd_queue_vars, p_vars
  <2> QED
    BY <2>1, <2>2, PDUnseenSteps
<1>4. CASE HandoffCopies
  BY <1>4, HandoffIsUnseen
<1>5. CASE PrefillAdmits
  <2>1. /\ pd_waiting # << >>
        /\ p_status' = [p_status EXCEPT ![Head(pd_waiting)] = "Running"]
        /\ UNCHANGED <<status, num_tokens, known_request_ids, requests, p_num_tokens>>
    BY <1>5 DEF PrefillAdmits, MayPrefill, P!SetStatus, P!EnsureCapacitySucceeds,
       P!EvictAndAllocate, bm_vars, queue_and_output, queue_vars
  <2>2. /\ Head(pd_waiting) \in Requests /\ p_status[Head(pd_waiting)] # "Finished"
    BY <1>0, <2>1, HeadOfQueue DEF Places, HandleInv
  <2>3. \A q \in Requests : p_status'[q] = "Finished" <=> p_status[q] = "Finished"
    BY <1>0, <2>1, <2>2
  <2> QED
    BY <2>1, <2>3, PDUnseenSteps
<1>6. CASE PrefillSkipped
  <2>1. UNCHANGED <<status, num_tokens, known_request_ids, requests, p_status, p_num_tokens>>
    BY <1>6 DEF PrefillSkipped, P!EnsureCapacityFails, P!EvictAndAllocate, bm_vars, p_vars,
       queue_and_output, queue_vars, pd_queue_vars
  <2> QED
    BY <2>1, PDUnseenSteps
<1>7. CASE DecodeSchedules \/ LaunchRuns \/ CommitStarts \/ RunsThrow \/ DecodeCommits
             \/ DecodeCommitted
  <2>1. UNCHANGED <<requests, p_status, p_num_tokens>>
    BY <1>7 DEF DecodeSchedules, LaunchRuns, CommitStarts, RunsThrow, DecodeCommits,
       DecodeCommitted, pd_queue_vars, p_vars
  <2>2. [Next]_vars
    BY <1>7, DecodeStepIsSchedulerStep DEF Next, EngineStep
  <2>3. UNCHANGED known_request_ids
    BY <1>7, DecodeStepIsSchedulerStep, SchedulerStepKeeps
    DEF vars, ScheduleRunning, EndRunning, AdmitFromCache, Admit, EndAdmit, NoProgress,
        RunFails, RunSucceeds, CommitItem, CommitSample, CommitRelease, EndCommit, queue_vars
  <2> QED
    BY <2>1, <2>2, <2>3, DecodeStepIsServed
<1>8. CASE PrefillSamples
  BY <1>8, PrefillSampleIsServed
<1>9. CASE PrefillReleases
  <2>1. UNCHANGED <<status, num_tokens, known_request_ids, requests, p_status, p_num_tokens>>
    BY <1>9 DEF PrefillReleases, P!Release, vars
  <2> QED
    BY <2>1, PDUnseenSteps
<1> QED
  BY <1>1, <1>2, <1>3, <1>4, <1>5, <1>6, <1>7, <1>8, <1>9 DEF PDNext, PDStep

\* Seen through the handles, the engine with two GPUs serves like the one with one: each
\* request is accepted once, and the first token, generated on P, is neither lost nor
\* repeated when D's sequence takes the place of P's (try_handoff,
\* cuda/gpt2_pd_engine.hpp).
THEOREM PDServesLikeAnyEngine == PDSpec => PDImplementsServing
<1> DEFINE Inv == PDInv /\ HandleInv
<1>1. PDInit => Inv
  BY PDInvInit, HandleInvInit
<1>2. Inv /\ [PDNext]_pd_vars => Inv'
  BY PDInvInductive, HandleInvInductive
<1>3. PDInit => PDServed!Init
  <2> SUFFICES ASSUME PDInit
               PROVE  PDServed!Init
    OBVIOUS
  <2>1. /\ requests = {} /\ known_request_ids = {}
        /\ p_num_tokens = [r \in Requests |-> PromptLen(r)]
    BY SameSizes DEF PDInit, Init, P!BMInit, P!SequenceInit
  <2>2. \A r \in Requests : PromptLen(r) \in Nat
    BY PrefixKeyFacts
  <2> QED
    BY <2>1, <2>2 DEF PDServed!Init
<1>4. Inv /\ [PDNext]_pd_vars => [PDServed!Next]_<<PDPhase, PDTokens>>
  BY PDStepsAreServed
<1> QED
  BY <1>1, <1>2, <1>3, <1>4, PTL
  DEF PDSpec, PDImplementsServing, PDServed!Spec, PDPhase, PDTokens

=============================================================================
