---------------------------- MODULE BlockManager ----------------------------
(***************************************************************************)
(* The paged KV-cache block pool of mini-vLLM                              *)
(* (src/mini_vllm/block_manager.hpp): a FIFO free list, a reference count  *)
(* per block, and a prefix cache that keeps computed prompt blocks alive   *)
(* and shares them between requests until the LRU policy evicts them.      *)
(*                                                                         *)
(* The operations are written so that Scheduler can take them as steps.    *)
(* Next is the most general client that keeps to the calling discipline of *)
(* the code: compute only tokens that have a block, sample only when every *)
(* token is computed, release only a finished sequence.                    *)
(***************************************************************************)
EXTENDS Sequence, Functions

CONSTANTS
  NumBlocks,          \* num_blocks
  BlockSize,          \* block_size
  PrefixCacheEnabled  \* enable_prefix_cache

ASSUME BlockManagerAssumption ==
  /\ NumBlocks \in Nat \ {0}
  /\ BlockSize \in Nat \ {0}
  /\ PrefixCacheEnabled \in BOOLEAN

VARIABLES
  free_block_ids, \* free_block_ids_: the FIFO free list
  ref_count,      \* blocks_[b].ref_count
  live_sequences, \* live_sequences_
  prefix_cache,   \* prefix_cache_[key].block_id, NoBlock where there is no entry
  last_used,      \* prefix_cache_[key].last_used, 0 where there is no entry
  cache_clock     \* cache_clock_

sequence_vars == <<status, num_tokens, num_computed_tokens, block_table>>
pool_vars == <<free_block_ids, ref_count, live_sequences,
               prefix_cache, last_used, cache_clock>>
bm_vars == <<status, num_tokens, num_computed_tokens, block_table,
             free_block_ids, ref_count, live_sequences,
             prefix_cache, last_used, cache_clock>>

\* The only listing of a finite set of numbers in increasing order (a singleton).
Ascending(S) ==
  {f \in [1 .. Cardinality(S) -> S] :
     \A i, j \in 1 .. Cardinality(S) : i < j => f[i] < f[j]}

Blocks == 0 .. NumBlocks - 1
NoBlock == -1

\* Operators named X_Y are faulty variants of X, kept to show that the properties
\* below notice the fault; nothing uses them.

BlocksNeeded_RoundedDown(tokens) == tokens \div BlockSize

BlocksNeeded(tokens) == (tokens + BlockSize - 1) \div BlockSize

CacheableBlocks_WholePrompt(r) == PromptLen(r) \div BlockSize

\* At least one prompt token is always left to compute, for its logits.
CacheableBlocks(r) == (PromptLen(r) - 1) \div BlockSize

PrefixKey_BlockTokens(r, i) ==
  SubSeq(Prompt[r], (i - 1) * BlockSize + 1, i * BlockSize)

\* The key of logical block i (counted from 1): every token up to its end.
PrefixKey(r, i) == SubSeq(Prompt[r], 1, i * BlockSize)

PrefixKeys == UNION {{PrefixKey(r, i) : i \in 1 .. CacheableBlocks(r)} : r \in Requests}

IsCached(k) == prefix_cache[k] # NoBlock

CachedBlocks == {prefix_cache[k] : k \in {key \in PrefixKeys : IsCached(key)}}

Evictable_InUse == {k \in PrefixKeys : IsCached(k) /\ ref_count[prefix_cache[k]] >= 1}

\* Cache entries whose block no sequence reads: the ones LRU may evict.
Evictable == {k \in PrefixKeys : IsCached(k) /\ ref_count[prefix_cache[k]] = 1}

\* The requests whose block table holds b.
Holders(b) == {r \in Requests : b \in Range(block_table[r])}

----------------------------------------------------------------------------
BlockManagerInit ==
  /\ free_block_ids = [i \in 1 .. NumBlocks |-> i - 1]
  /\ ref_count = [b \in Blocks |-> 0]
  /\ live_sequences = {}
  /\ prefix_cache = [k \in PrefixKeys |-> NoBlock]
  /\ last_used = [k \in PrefixKeys |-> 0]
  /\ cache_clock = 0

BMInit == SequenceInit /\ BlockManagerInit

\* Take one reference to each of the given blocks.
AddReferences_Lost(blocks) == ref_count' = ref_count

AddReferences(blocks) ==
  ref_count' = [b \in Blocks |->
    IF b \in blocks THEN ref_count[b] + 1 ELSE ref_count[b]]

\* Give back one reference to each of the given blocks.
DropReferences(blocks) ==
  ref_count' = [b \in Blocks |->
    IF b \in blocks THEN ref_count[b] - 1 ELSE ref_count[b]]

\* r enters live_sequences_ with its first blocks.
BecomesLive(r, blocks) ==
  live_sequences' = IF blocks = 0 THEN live_sequences ELSE live_sequences \cup {r}

(***************************************************************************)
(* apply_prefix_cache: a sequence with no computed token and no block takes *)
(* the longest run of cached blocks its prompt starts with.                *)
(***************************************************************************)
PrefixHits(r, hits) ==
  IF PrefixCacheEnabled /\ num_computed_tokens[r] = 0 /\ block_table[r] = << >>
  THEN /\ \A i \in 1 .. hits : IsCached(PrefixKey(r, i))
       /\ hits < CacheableBlocks(r) => ~ IsCached(PrefixKey(r, hits + 1))
  ELSE hits = 0

ApplyPrefixCache(r) ==
  \E hits \in 0 .. CacheableBlocks(r) :
    LET shared == [i \in 1 .. hits |-> prefix_cache[PrefixKey(r, i)]]
    IN  /\ PrefixHits(r, hits)
        /\ AddReferences(Range(shared))
        /\ last_used' = [k \in PrefixKeys |->
             IF \E i \in 1 .. hits : k = PrefixKey(r, i)
             THEN cache_clock + (CHOOSE i \in 1 .. hits : k = PrefixKey(r, i))
             ELSE last_used[k]]
        /\ cache_clock' = cache_clock + hits
        /\ block_table' = [block_table EXCEPT ![r] = @ \o shared]
        /\ BecomesLive(r, hits)
        /\ num_computed_tokens' = [num_computed_tokens EXCEPT ![r] = @ + hits * BlockSize]
        /\ UNCHANGED <<status, num_tokens, free_block_ids, prefix_cache>>

(***************************************************************************)
(* ensure_capacity: evict least recently used entries while the free list  *)
(* is too short, then allocate every missing block or none.  Evictions     *)
(* made before a failure are not undone.                                   *)
(***************************************************************************)
AdditionalBlocks(r, tokens) ==
  IF BlocksNeeded(tokens) > Len(block_table[r])
  THEN BlocksNeeded(tokens) - Len(block_table[r])
  ELSE 0

CanEnsureCapacity_AllCached(r, tokens) ==
  AdditionalBlocks(r, tokens) <= Len(free_block_ids) + Cardinality(CachedBlocks)

CanEnsureCapacity(r, tokens) ==
  AdditionalBlocks(r, tokens) <= Len(free_block_ids) + Cardinality(Evictable)

\* victims is the order in which the loop evicts: it stops as soon as the
\* free list is long enough, or when nothing evictable is left.
EvictionOrder(victims, n, additional) ==
  /\ \A i, j \in 1 .. n : i < j => last_used[victims[i]] < last_used[victims[j]]
  /\ \A k \in Evictable \ Range(victims) :
       \A i \in 1 .. n : last_used[victims[i]] < last_used[k]
  /\ n > 0 => Len(free_block_ids) + n <= additional
  /\ additional <= Len(free_block_ids) + n \/ Evictable \subseteq Range(victims)

EvictedBlocks(victims, n) == [i \in 1 .. n |-> prefix_cache[victims[i]]]

EvictAndAllocate(r, victims, n, taken) ==
  LET evicted == EvictedBlocks(victims, n)
      pool == free_block_ids \o evicted
      allocated == SubSeq(pool, 1, taken)
  IN  /\ prefix_cache' = [k \in PrefixKeys |->
           IF k \in Range(victims) THEN NoBlock ELSE prefix_cache[k]]
      /\ last_used' = [k \in PrefixKeys |->
           IF k \in Range(victims) THEN 0 ELSE last_used[k]]
      /\ free_block_ids' = SubSeq(pool, taken + 1, Len(pool))
      /\ ref_count' = [b \in Blocks |->
           IF b \in Range(allocated) THEN 1
           ELSE IF b \in Range(evicted) THEN ref_count[b] - 1
           ELSE ref_count[b]]
      /\ block_table' = [block_table EXCEPT ![r] = @ \o allocated]
      /\ BecomesLive(r, taken)
      /\ UNCHANGED <<num_tokens, num_computed_tokens, cache_clock>>

EnsureCapacitySucceeds(r, tokens) ==
  LET additional == AdditionalBlocks(r, tokens)
  IN  \E n \in 0 .. additional : \E victims \in [1 .. n -> Evictable] :
        /\ EvictionOrder(victims, n, additional)
        /\ additional <= Len(free_block_ids) + n
        /\ EvictAndAllocate(r, victims, n, additional)

EnsureCapacityFails(r, tokens) ==
  LET additional == AdditionalBlocks(r, tokens)
  IN  \E n \in 0 .. additional : \E victims \in [1 .. n -> Evictable] :
        /\ EvictionOrder(victims, n, additional)
        /\ additional > Len(free_block_ids) + n
        /\ EvictAndAllocate(r, victims, n, 0)

(***************************************************************************)
(* cache_computed_prefix_blocks, as called right after mark_computed:      *)
(* every full prompt block that is computed and in the table is touched in *)
(* the cache, or registered there with one reference of the cache's own.   *)
(***************************************************************************)
ComputedPrefixBlocks_RoundedUp(r, computed) ==
  IF PrefixCacheEnabled
  THEN {i \in 1 .. CacheableBlocks(r) :
          i <= BlocksNeeded(computed) /\ i <= Len(block_table[r])}
  ELSE {}

ComputedPrefixBlocks(r, computed) ==
  IF PrefixCacheEnabled
  THEN {i \in 1 .. CacheableBlocks(r) :
          i <= computed \div BlockSize /\ i <= Len(block_table[r])}
  ELSE {}

CacheComputedPrefixBlocks(r, computed) ==
  LET full == ComputedPrefixBlocks(r, computed)
      fresh == {i \in full : ~ IsCached(PrefixKey(r, i))}
  IN  /\ prefix_cache' = [k \in PrefixKeys |->
           IF \E i \in fresh : k = PrefixKey(r, i)
           THEN block_table[r][CHOOSE i \in fresh : k = PrefixKey(r, i)]
           ELSE prefix_cache[k]]
      /\ last_used' = [k \in PrefixKeys |->
           IF \E i \in full : k = PrefixKey(r, i)
           THEN cache_clock + (CHOOSE i \in full : k = PrefixKey(r, i))
           ELSE last_used[k]]
      /\ cache_clock' = cache_clock + Cardinality(full)
      /\ AddReferences({block_table[r][i] : i \in fresh})
      /\ UNCHANGED <<free_block_ids, live_sequences>>

ComputeTokens(r, count) ==
  /\ MarkComputed(r, count)
  /\ CacheComputedPrefixBlocks(r, num_computed_tokens[r] + count)
  /\ UNCHANGED <<status, num_tokens, block_table>>

\* The tail of commit's loop body: append, and mark the sequence finished.
Sample(r, eos) ==
  /\ AppendToken(r)
  /\ IF ShouldFinishAfter(r, num_tokens[r] + 1, eos)
     THEN SetStatus(r, "Finished")
     ELSE UNCHANGED status
  /\ UNCHANGED <<num_computed_tokens, block_table, pool_vars>>

(***************************************************************************)
(* release drops one reference per table entry, last block first, so that  *)
(* freed blocks enter the free list in reverse table order.                *)
(***************************************************************************)
LastReferences(r) == {i \in DOMAIN block_table[r] : ref_count[block_table[r][i]] = 1}

Release(r) ==
  LET table == block_table[r]
  IN  /\ table # << >>
      /\ r \in live_sequences
      /\ \E last \in Ascending(LastReferences(r)) :
           free_block_ids' =
             free_block_ids \o [i \in DOMAIN last |-> table[last[Len(last) + 1 - i]]]
      /\ DropReferences(Range(table))
      /\ live_sequences' = live_sequences \ {r}
      /\ block_table' = [block_table EXCEPT ![r] = << >>]
      /\ UNCHANGED <<status, num_tokens, num_computed_tokens,
                     prefix_cache, last_used, cache_clock>>

\* clear_prefix_cache walks the std::map, so in the keys' order; the order in
\* which unread blocks reach the free list is left open here.
ClearPrefixCache ==
  /\ \E freed \in [1 .. Cardinality(Evictable) -> Evictable] :
       /\ \A i, j \in DOMAIN freed : i # j => freed[i] # freed[j]
       /\ free_block_ids' =
            free_block_ids \o [i \in DOMAIN freed |-> prefix_cache[freed[i]]]
  /\ DropReferences(CachedBlocks)
  /\ prefix_cache' = [k \in PrefixKeys |-> NoBlock]
  /\ last_used' = [k \in PrefixKeys |-> 0]
  /\ UNCHANGED <<sequence_vars, live_sequences, cache_clock>>

----------------------------------------------------------------------------
(***************************************************************************)
(* The most general client.                                                *)
(***************************************************************************)
TryApplyPrefixCache(r) ==
  /\ status[r] = "Waiting"
  /\ ApplyPrefixCache(r)

\* A successful reservation may also start the sequence.
Reserve(r, tokens) ==
  /\ status[r] # "Finished"
  /\ \/ /\ EnsureCapacitySucceeds(r, tokens)
        /\ SetStatus(r, "Running")
     \/ /\ EnsureCapacityFails(r, tokens)
        /\ UNCHANGED status

Compute(r, count) ==
  /\ status[r] = "Running"
  /\ num_computed_tokens[r] + count <= Len(block_table[r]) * BlockSize
  /\ ComputeTokens(r, count)

Generate(r, eos) ==
  /\ status[r] = "Running"
  /\ Sample(r, eos)

Retire(r) ==
  /\ status[r] = "Finished"
  /\ Release(r)

BMNext ==
  \/ \E r \in Requests :
       \/ TryApplyPrefixCache(r)
       \/ \E tokens \in 1 .. num_tokens[r] : Reserve(r, tokens)
       \/ \E count \in 1 .. PendingTokens(r) : Compute(r, count)
       \/ \E eos \in BOOLEAN : Generate(r, eos)
       \/ Retire(r)
  \/ ClearPrefixCache

BMSpec == BMInit /\ [][BMNext]_bm_vars

----------------------------------------------------------------------------
(***************************************************************************)
(* What the pool promises.                                                 *)
(***************************************************************************)

\* Types of the sequence and pool state.
TypeOK ==
  /\ status \in [Requests -> SequenceStatus]
  /\ num_tokens \in [Requests -> Nat]
  /\ num_computed_tokens \in [Requests -> Nat]
  /\ block_table \in [Requests -> Seq(Blocks)]
  /\ free_block_ids \in Seq(Blocks)
  /\ ref_count \in [Blocks -> Nat]
  /\ live_sequences \in SUBSET Requests
  /\ prefix_cache \in [PrefixKeys -> Blocks \cup {NoBlock}]
  /\ last_used \in [PrefixKeys -> Nat]
  /\ cache_clock \in Nat

\* Every reference is accounted for: a block's count is the number of block
\* tables that hold it, plus one if the prefix cache holds it.  A lost decrement
\* leaks the block, an extra one frees it under a reader (release, eviction and
\* clear_prefix_cache all decrement the same counter).
RefCountsOwners ==
  \A b \in Blocks :
    ref_count[b] = Cardinality(Holders(b)) + (IF b \in CachedBlocks THEN 1 ELSE 0)

\* What validate() asserts of the free list: no duplicate, and exactly the
\* unreferenced blocks are on it.
FreeListExact ==
  /\ Range(free_block_ids) = {b \in Blocks : ref_count[b] = 0}
  /\ IsInjective(free_block_ids)

\* What validate() asserts of the cache (no block under two keys), and that a
\* table never names a block twice, so one release gives back each block once.
NoAliasing ==
  /\ \A k1, k2 \in PrefixKeys :
       IsCached(k1) /\ prefix_cache[k1] = prefix_cache[k2] => k1 = k2
  /\ \A r \in Requests : IsInjective(block_table[r])

\* live_sequences_ is exactly the set of sequences that hold blocks, so neither
\* the insert in ensure_capacity / apply_prefix_cache nor the erase in release
\* ever throws.
LiveIffHolding ==
  live_sequences = {r \in Requests : block_table[r] # << >>}

FullyComputed(r, i) == i * BlockSize <= num_computed_tokens[r]

\* The prompts of r and q start with the same i blocks of tokens.
SameTokens(r, q, i) ==
  SubSeq(Prompt[r], 1, i * BlockSize) = SubSeq(Prompt[q], 1, i * BlockSize)

\* Sharing is sound: two sequences share a block only at the same logical
\* position, inside the cacheable part of both prompts, with the same tokens up
\* to the block's end, and only once both count the whole block as computed.
SharedBlocksAgree ==
  \A r, q \in Requests : r # q =>
    \A i \in DOMAIN block_table[r], j \in DOMAIN block_table[q] :
      block_table[r][i] = block_table[q][j] =>
        /\ i = j
        /\ i <= CacheableBlocks(r) /\ i <= CacheableBlocks(q)
        /\ SameTokens(r, q, i)
        /\ FullyComputed(r, i) /\ FullyComputed(q, i)

\* The cache never lies about a block somebody still reads: the reader's tokens up
\* to that block are the entry's key, and the reader has them computed.
CacheCoherent ==
  \A k \in PrefixKeys, r \in Requests : IsCached(k) =>
    \A i \in DOMAIN block_table[r] :
      block_table[r][i] = prefix_cache[k] =>
        /\ i <= CacheableBlocks(r)
        /\ k = PrefixKey(r, i)
        /\ FullyComputed(r, i)

\* A model step writes K/V only at positions not computed yet.  Every block of a
\* sequence that still has such positions belongs to that sequence alone: no other
\* table and no cache entry can see the write.
WriteIsolation ==
  \A r \in Requests : \A i \in DOMAIN block_table[r] :
    ~ FullyComputed(r, i) =>
      /\ Holders(block_table[r][i]) = {r}
      /\ block_table[r][i] \notin CachedBlocks

\* can_ensure_capacity, a const oracle, answers exactly whether ensure_capacity
\* would succeed now (the one counts evictable entries, the other evicts them).
CapacityOracle ==
  \A r \in Requests : \A tokens \in 1 .. num_tokens[r] :
    CanEnsureCapacity(r, tokens) <=> ENABLED EnsureCapacitySucceeds(r, tokens)

KeepBlocksStep ==
  /\ \A r \in Requests :
       \/ r \in live_sequences /\ r \notin live_sequences'
       \/ \A i \in DOMAIN block_table[r] :
            /\ i \in DOMAIN block_table'[r]
            /\ block_table'[r][i] = block_table[r][i]
            /\ ref_count'[block_table[r][i]] > 0
  /\ \A k \in PrefixKeys : IsCached(k) =>
       \/ prefix_cache'[k] = prefix_cache[k]
       \/ prefix_cache'[k] = NoBlock /\
            \/ Holders(prefix_cache[k]) = {}
            \/ \A key \in PrefixKeys : prefix_cache'[key] = NoBlock

\* A block leaves the cache by eviction only while no sequence reads it, a cached
\* block keeps its key, and a sequence keeps every block it has, in place, until
\* its own release.  (clear_prefix_cache may drop entries that are being read: the
\* readers then keep the block.)
ReadersKeepBlocks == [][KeepBlocksStep]_bm_vars

=============================================================================
