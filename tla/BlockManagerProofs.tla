------------------------- MODULE BlockManagerProofs -------------------------
(***************************************************************************)
(* Proofs about BlockManager, for every set of requests, every prompt,     *)
(* every pool size and every block size.                                   *)
(*                                                                         *)
(* PoolInv is inductive.  None of its parts is so alone: that shared       *)
(* blocks agree needs the cache to be coherent with the tables, which      *)
(* needs freed blocks to have no reader, which needs the reference counts. *)
(*                                                                         *)
(* The lemmas on pages and slots at the end serve both engines, which      *)
(* write and read their K/V caches through the tables of a pool.           *)
(***************************************************************************)
EXTENDS KVCache, FiniteSetTheorems, SequenceTheorems, TLAPS

PoolInv ==
  /\ TypeOK
  /\ RefCountsOwners
  /\ FreeListExact
  /\ NoAliasing
  /\ LiveIffHolding
  /\ SharedBlocksAgree
  /\ CacheCoherent

----------------------------------------------------------------------------
(***************************************************************************)
(* Prefix keys.                                                            *)
(***************************************************************************)

\* A block size that divides with remainder: i blocks fit into n tokens iff
\* i is at most n \div BlockSize (block_manager.hpp counts blocks both ways).
LEMMA BlocksFit ==
  ASSUME NEW n \in Nat, NEW i \in Nat
  PROVE  /\ n \div BlockSize \in Nat
         /\ i <= n \div BlockSize <=> i * BlockSize <= n
  BY BlockManagerAssumption, SMT

\* The prefix of a cacheable block lies inside the prompt, and its length tells
\* which logical block it ends with.
LEMMA PrefixKeyFacts ==
  ASSUME NEW r \in Requests
  PROVE  /\ PromptLen(r) \in Nat \ {0}
         /\ CacheableBlocks(r) \in Nat
         /\ \A i \in 1 .. CacheableBlocks(r) :
              /\ i * BlockSize <= PromptLen(r)
              /\ PrefixKey(r, i) \in Seq(Nat)
              /\ Len(PrefixKey(r, i)) = i * BlockSize
              /\ PrefixKey(r, i) \in PrefixKeys
<1>1. PromptLen(r) \in Nat \ {0}
  BY SequenceAssumption DEF PromptLen
<1>2. CacheableBlocks(r) \in Nat
  BY <1>1, BlocksFit, BlockManagerAssumption, SMT DEF CacheableBlocks
<1>3. ASSUME NEW i \in 1 .. CacheableBlocks(r)
      PROVE  i * BlockSize \in Nat /\ i * BlockSize <= PromptLen(r)
  <2>1. PromptLen(r) - 1 \in Nat /\ i \in Nat
    BY <1>1, <1>2
  <2>2. i * BlockSize <= PromptLen(r) - 1
    BY <2>1, <1>2, BlocksFit DEF CacheableBlocks
  <2> QED
    BY <2>1, <2>2, <1>1, BlockManagerAssumption
<1>4. ASSUME NEW i \in 1 .. CacheableBlocks(r)
      PROVE  /\ PrefixKey(r, i) \in Seq(Nat)
             /\ Len(PrefixKey(r, i)) = i * BlockSize
  BY <1>3, SequenceAssumption, SMT DEF PrefixKey, PromptLen
<1>5. ASSUME NEW i \in 1 .. CacheableBlocks(r)
      PROVE  PrefixKey(r, i) \in PrefixKeys
  BY DEF PrefixKeys
<1> QED
  BY <1>1, <1>2, <1>3, <1>4, <1>5

\* Equal keys end at the same logical block.
LEMMA PrefixKeyPosition ==
  ASSUME NEW r \in Requests, NEW q \in Requests,
         NEW i \in 1 .. CacheableBlocks(r), NEW j \in 1 .. CacheableBlocks(q),
         PrefixKey(r, i) = PrefixKey(q, j)
  PROVE  i = j
<1>1. i * BlockSize = j * BlockSize
  BY PrefixKeyFacts
<1> QED
  BY <1>1, PrefixKeyFacts, BlockManagerAssumption, SMT

\* There are finitely many keys, so the cache can be counted.
LEMMA PrefixKeysFinite == IsFiniteSet(PrefixKeys)
<1> DEFINE keysOf(r) == {PrefixKey(r, i) : i \in 1 .. CacheableBlocks(r)}
<1>1. ASSUME NEW r \in Requests
      PROVE  IsFiniteSet(keysOf(r))
  <2>1. IsFiniteSet(1 .. CacheableBlocks(r))
    BY PrefixKeyFacts, FS_Interval
  <2>2. [i \in 1 .. CacheableBlocks(r) |-> PrefixKey(r, i)]
          \in Surjection(1 .. CacheableBlocks(r), keysOf(r))
    BY DEF Surjection
  <2> QED
    BY <2>1, <2>2, FS_Surjection
<1>2. IsFiniteSet({keysOf(r) : r \in Requests})
  <2>1. [r \in Requests |-> keysOf(r)] \in Surjection(Requests, {keysOf(r) : r \in Requests})
    BY DEF Surjection
  <2> QED
    BY <2>1, FS_Surjection, SequenceAssumption
<1>3. IsFiniteSet(UNION {keysOf(r) : r \in Requests})
  BY <1>1, <1>2, FS_UNION
<1> QED
  BY <1>3 DEF PrefixKeys


----------------------------------------------------------------------------
(***************************************************************************)
(* Holders, owners and counting.                                           *)
(***************************************************************************)

\* Blocks have finitely many holders and at most one owner more, the cache.
LEMMA HoldersFinite ==
  ASSUME NEW b
  PROVE  IsFiniteSet(Holders(b)) /\ Cardinality(Holders(b)) \in Nat
<1>1. Holders(b) \in SUBSET Requests
  BY DEF Holders
<1> QED
  BY <1>1, SequenceAssumption, FS_Subset, FS_CardinalityType

\* What one table's change does to the holders of a block.
LEMMA HoldersUpdate ==
  ASSUME block_table \in [Requests -> Seq(Blocks)], NEW r \in Requests,
         NEW table, block_table' = [block_table EXCEPT ![r] = table],
         NEW b
  PROVE  Holders(b)' = IF b \in Range(table) THEN Holders(b) \cup {r}
                                             ELSE Holders(b) \ {r}
  BY DEF Holders

\* A reference count is a number of owners: what it being 0, 1 or more says.
LEMMA OwnersFacts ==
  ASSUME TypeOK, RefCountsOwners, NEW b \in Blocks
  PROVE  /\ ref_count[b] \in Nat
         /\ ref_count[b] = 0 => Holders(b) = {} /\ b \notin CachedBlocks
         /\ ref_count[b] = 1 /\ b \in CachedBlocks => Holders(b) = {}
         /\ \A r \in Holders(b) : ref_count[b] = 1 => Holders(b) = {r}
<1>1. /\ IsFiniteSet(Holders(b)) /\ Cardinality(Holders(b)) \in Nat
      /\ ref_count[b] = Cardinality(Holders(b)) + (IF b \in CachedBlocks THEN 1 ELSE 0)
  BY HoldersFinite DEF RefCountsOwners
<1>2. Cardinality(Holders(b)) = 0 => Holders(b) = {}
  BY <1>1, FS_EmptySet
<1>3. ASSUME NEW r \in Holders(b), ref_count[b] = 1
      PROVE  Holders(b) = {r}
  <2>1. Cardinality(Holders(b)) # 0
    BY <1>1, <1>3, FS_EmptySet
  <2>2. Cardinality(Holders(b)) = 1
    BY <2>1, <1>1, <1>3
  <2> QED
    BY <2>2, <1>1, <1>3, FS_Singleton
<1> QED
  BY <1>1, <1>2, <1>3 DEF TypeOK

\* The elements of a table, seen as positions.
LEMMA TableFacts ==
  ASSUME TypeOK, NEW r \in Requests
  PROVE  /\ block_table[r] \in Seq(Blocks)
         /\ Len(block_table[r]) \in Nat
         /\ DOMAIN block_table[r] = 1 .. Len(block_table[r])
         /\ \A i \in DOMAIN block_table[r] :
              block_table[r][i] \in Blocks /\ r \in Holders(block_table[r][i])
         /\ \A b : r \in Holders(b) => \E i \in DOMAIN block_table[r] : b = block_table[r][i]
  BY DEF TypeOK, Holders, Range

\* Evictable entries: their blocks are cached and nobody reads them.
LEMMA EvictableFacts ==
  ASSUME TypeOK, RefCountsOwners, NEW k \in Evictable
  PROVE  /\ k \in PrefixKeys /\ IsCached(k)
         /\ prefix_cache[k] \in Blocks /\ prefix_cache[k] \in CachedBlocks
         /\ ref_count[prefix_cache[k]] = 1
         /\ Holders(prefix_cache[k]) = {}
  BY OwnersFacts DEF TypeOK, Evictable, IsCached, CachedBlocks

----------------------------------------------------------------------------
(***************************************************************************)
(* The invariant holds initially, and every operation preserves it.        *)
(***************************************************************************)

LEMMA PoolInvInit ==
  ASSUME BMInit
  PROVE  PoolInv
<1> USE DEF BMInit, SequenceInit, BlockManagerInit
<1>1. TypeOK
  <2>1. free_block_ids \in Seq(Blocks)
    BY BlockManagerAssumption, SMT DEF Blocks
  <2>2. \A r \in Requests : PromptLen(r) \in Nat
    BY PrefixKeyFacts
  <2> QED
    BY <2>1, <2>2 DEF TypeOK, SequenceStatus, NoBlock
<1>2. CachedBlocks = {} /\ \A b \in Blocks : Holders(b) = {}
  BY DEF CachedBlocks, IsCached, Holders, Range
<1>3. RefCountsOwners
  <2>1. \A b \in Blocks : ref_count[b] = 0 /\ Cardinality(Holders(b)) = 0
    BY <1>2, FS_EmptySet
  <2> QED
    BY <1>2, <2>1 DEF RefCountsOwners
<1>4. FreeListExact
  <2>1. DOMAIN free_block_ids = 1 .. NumBlocks
    OBVIOUS
  <2>2. Range(free_block_ids) = Blocks
    <3>1. Range(free_block_ids) \subseteq Blocks
      BY BlockManagerAssumption DEF Range, Blocks
    <3>2. ASSUME NEW b \in Blocks
          PROVE  b \in Range(free_block_ids)
      <4>1. b + 1 \in 1 .. NumBlocks /\ free_block_ids[b + 1] = b
        BY BlockManagerAssumption DEF Blocks
      <4> QED
        BY <2>1, <4>1 DEF Range
    <3> QED
      BY <3>1, <3>2
  <2>3. IsInjective(free_block_ids)
    BY <2>1, BlockManagerAssumption DEF IsInjective
  <2>4. {b \in Blocks : ref_count[b] = 0} = Blocks
    OBVIOUS
  <2> QED
    BY <2>2, <2>3, <2>4 DEF FreeListExact
<1>5. NoAliasing /\ LiveIffHolding /\ SharedBlocksAgree /\ CacheCoherent
  BY DEF NoAliasing, IsInjective, IsCached, LiveIffHolding, SharedBlocksAgree, CacheCoherent
<1> QED
  BY <1>1, <1>3, <1>4, <1>5 DEF PoolInv

\* A step that touches no block and takes back no computed token.
LEMMA PoolInvCounters ==
  ASSUME PoolInv, UNCHANGED <<block_table, pool_vars>>,
         status' \in [Requests -> SequenceStatus],
         num_tokens' \in [Requests -> Nat],
         num_computed_tokens' \in [Requests -> Nat],
         \A r \in Requests : num_computed_tokens[r] <= num_computed_tokens'[r]
  PROVE  PoolInv'
<1>1. TypeOK'
  BY DEF PoolInv, TypeOK, pool_vars
<1>2. RefCountsOwners' /\ FreeListExact' /\ NoAliasing' /\ LiveIffHolding'
  BY DEF PoolInv, pool_vars, RefCountsOwners, FreeListExact, NoAliasing, LiveIffHolding,
         Holders, CachedBlocks, IsCached
<1>3. ASSUME NEW r \in Requests, NEW i \in DOMAIN block_table[r], FullyComputed(r, i)
      PROVE  FullyComputed(r, i)'
  <2>1. i \in Nat /\ num_computed_tokens[r] \in Nat /\ num_computed_tokens'[r] \in Nat
    BY TableFacts DEF PoolInv, TypeOK
  <2>2. i * BlockSize \in Int
    BY <2>1, BlockManagerAssumption
  <2> QED
    BY <1>3, <2>1, <2>2 DEF FullyComputed
<1>4. SharedBlocksAgree'
  BY <1>3 DEF PoolInv, pool_vars, SharedBlocksAgree
<1>5. CacheCoherent'
  BY <1>3 DEF PoolInv, pool_vars, CacheCoherent, IsCached
<1> QED
  BY <1>1, <1>2, <1>4, <1>5 DEF PoolInv

\* A step that touches neither blocks nor what counts as computed.
LEMMA PoolInvFrame ==
  ASSUME PoolInv, UNCHANGED <<num_computed_tokens, block_table, pool_vars>>,
         status' \in [Requests -> SequenceStatus],
         num_tokens' \in [Requests -> Nat]
  PROVE  PoolInv'
  BY PoolInvCounters DEF PoolInv, TypeOK

\* Sampling changes neither blocks nor what counts as computed.
LEMMA GeneratePreservesPoolInv ==
  ASSUME PoolInv, NEW r \in Requests, NEW eos \in BOOLEAN, Generate(r, eos)
  PROVE  PoolInv'
<1>1. UNCHANGED <<num_computed_tokens, block_table, pool_vars>>
  BY DEF Generate, Sample
<1>2. num_tokens' \in [Requests -> Nat]
  BY DEF Generate, Sample, AppendToken, PoolInv, TypeOK
<1>3. status' \in [Requests -> SequenceStatus]
  BY DEF Generate, Sample, SetStatus, SequenceStatus, PoolInv, TypeOK
<1> QED
  BY <1>1, <1>2, <1>3, PoolInvFrame

----------------------------------------------------------------------------
(***************************************************************************)
(* Lists.                                                                  *)
(***************************************************************************)

\* A listing without repetition of as many elements as a set has lists it all.
LEMMA ListingIsOnto ==
  ASSUME NEW S, IsFiniteSet(S),
         NEW f \in [1 .. Cardinality(S) -> S],
         \A i, j \in 1 .. Cardinality(S) : f[i] = f[j] => i = j
  PROVE  Range(f) = S
<1>1. Cardinality(S) \in Nat
  BY FS_CardinalityType
<1>2. IsFiniteSet(1 .. Cardinality(S)) /\ Cardinality(1 .. Cardinality(S)) = Cardinality(S)
  BY <1>1, FS_Interval
<1>3. f \in Injection(1 .. Cardinality(S), S)
  BY DEF Injection, IsInjective
<1>4. f \in Surjection(1 .. Cardinality(S), S)
  BY <1>2, <1>3, FS_Injection
<1> QED
  BY <1>4 DEF Surjection, Range

\* Appending blocks to the free list.
LEMMA AppendBlocks ==
  ASSUME NEW s \in Seq(Blocks), NEW t \in Seq(Blocks)
  PROVE  /\ s \o t \in Seq(Blocks)
         /\ Len(s \o t) = Len(s) + Len(t)
         /\ Range(s \o t) = Range(s) \cup Range(t)
         /\ IsInjective(s) /\ IsInjective(t) /\ Range(s) \cap Range(t) = {}
              => IsInjective(s \o t)
<1>1. /\ s \o t \in Seq(Blocks)
      /\ Len(s \o t) = Len(s) + Len(t)
      /\ \A i \in 1 .. Len(s) + Len(t) :
           (s \o t)[i] = IF i <= Len(s) THEN s[i] ELSE t[i - Len(s)]
  BY ConcatProperties
<1>2. /\ Len(s) \in Nat /\ DOMAIN s = 1 .. Len(s)
      /\ Len(t) \in Nat /\ DOMAIN t = 1 .. Len(t)
      /\ DOMAIN (s \o t) = 1 .. Len(s) + Len(t)
  BY <1>1, LenProperties
<1>3. Range(s \o t) \subseteq Range(s) \cup Range(t)
  BY <1>1, <1>2 DEF Range
<1>4. \A i \in 1 .. Len(s) : i \in 1 .. Len(s) + Len(t) /\ (s \o t)[i] = s[i]
  BY <1>1, <1>2
<1>5. \A i \in 1 .. Len(t) :
        Len(s) + i \in 1 .. Len(s) + Len(t) /\ (s \o t)[Len(s) + i] = t[i]
  BY <1>1, <1>2
<1>6. Range(s) \cup Range(t) \subseteq Range(s \o t)
  <2>1. Range(s) \subseteq Range(s \o t)
    BY <1>2, <1>4 DEF Range
  <2>2. ASSUME NEW i \in 1 .. Len(t)
        PROVE  t[i] \in Range(s \o t)
    BY <1>2, <1>5 DEF Range
  <2> QED
    BY <1>2, <2>1, <2>2 DEF Range
<1>7. ASSUME IsInjective(s), IsInjective(t), Range(s) \cap Range(t) = {},
             NEW i \in 1 .. Len(s) + Len(t), NEW j \in 1 .. Len(s) + Len(t),
             (s \o t)[i] = (s \o t)[j]
      PROVE  i = j
  <2>1. CASE i <= Len(s) /\ j <= Len(s)
    <3>1. i \in 1 .. Len(s) /\ j \in 1 .. Len(s) /\ s[i] = s[j]
      BY <1>1, <1>2, <1>7, <2>1
    <3> QED
      BY <3>1, <1>2, <1>7 DEF IsInjective
  <2>2. CASE i > Len(s) /\ j > Len(s)
    <3>1. /\ i - Len(s) \in 1 .. Len(t) /\ j - Len(s) \in 1 .. Len(t)
          /\ t[i - Len(s)] = t[j - Len(s)]
      BY <1>1, <1>2, <1>7, <2>2
    <3>2. i - Len(s) = j - Len(s)
      BY <3>1, <1>2, <1>7 DEF IsInjective
    <3> QED
      BY <3>2, <1>2
  <2>3. CASE i <= Len(s) /\ j > Len(s)
    <3>1. i \in 1 .. Len(s) /\ j - Len(s) \in 1 .. Len(t) /\ s[i] = t[j - Len(s)]
      BY <1>1, <1>2, <1>7, <2>3
    <3> QED
      BY <3>1, <1>2, <1>7 DEF Range
  <2>4. CASE i > Len(s) /\ j <= Len(s)
    <3>1. j \in 1 .. Len(s) /\ i - Len(s) \in 1 .. Len(t) /\ s[j] = t[i - Len(s)]
      BY <1>1, <1>2, <1>7, <2>4
    <3> QED
      BY <3>1, <1>2, <1>7 DEF Range
  <2> QED
    BY <2>1, <2>2, <2>3, <2>4, <1>2
<1>8. ASSUME IsInjective(s), IsInjective(t), Range(s) \cap Range(t) = {}
      PROVE  IsInjective(s \o t)
  BY <1>2, <1>7, <1>8 DEF IsInjective
<1> QED
  BY <1>1, <1>3, <1>6, <1>8

----------------------------------------------------------------------------
\* Clearing the cache gives up the cache's references and frees what nobody reads.
LEMMA ClearPreservesPoolInv ==
  ASSUME PoolInv, ClearPrefixCache
  PROVE  PoolInv'
<1> DEFINE n == Cardinality(Evictable)
<1>0. TypeOK /\ RefCountsOwners /\ FreeListExact /\ NoAliasing
  BY DEF PoolInv
<1>1. PICK freed \in [1 .. n -> Evictable] :
        /\ \A i, j \in DOMAIN freed : i # j => freed[i] # freed[j]
        /\ free_block_ids' =
             free_block_ids \o [i \in DOMAIN freed |-> prefix_cache[freed[i]]]
  BY DEF ClearPrefixCache
<1> DEFINE blocks == [i \in DOMAIN freed |-> prefix_cache[freed[i]]]
<1>2. /\ ref_count' = [b \in Blocks |->
           IF b \in CachedBlocks THEN ref_count[b] - 1 ELSE ref_count[b]]
      /\ prefix_cache' = [k \in PrefixKeys |-> NoBlock]
      /\ last_used' = [k \in PrefixKeys |-> 0]
      /\ UNCHANGED <<status, num_tokens, num_computed_tokens, block_table,
                     live_sequences, cache_clock>>
  BY DEF ClearPrefixCache, DropReferences, sequence_vars
<1>3. IsFiniteSet(Evictable) /\ n \in Nat
  <2>1. Evictable \in SUBSET PrefixKeys
    BY DEF Evictable
  <2> QED
    BY <2>1, PrefixKeysFinite, FS_Subset, FS_CardinalityType
<1>4. Range(freed) = Evictable
  BY <1>1, <1>3, ListingIsOnto
<1>5. /\ blocks \in Seq(Blocks)
      /\ Range(blocks) = {prefix_cache[k] : k \in Evictable}
      /\ IsInjective(blocks)
  <2>1. \A i \in 1 .. n : prefix_cache[freed[i]] \in Blocks
    BY <1>0, <1>1, EvictableFacts
  <2>2. blocks \in Seq(Blocks)
    BY <1>3, <2>1, SeqDef
  <2>3. Range(blocks) = {prefix_cache[k] : k \in Evictable}
    BY <1>4 DEF Range
  <2>4. IsInjective(blocks)
    <3>1. ASSUME NEW i \in 1 .. n, NEW j \in 1 .. n,
                 prefix_cache[freed[i]] = prefix_cache[freed[j]]
          PROVE  i = j
      <4>1. freed[i] = freed[j]
        BY <1>0, <1>1, <3>1, EvictableFacts DEF NoAliasing
      <4> QED
        BY <1>1, <4>1
    <3> QED
      BY <3>1 DEF IsInjective
  <2> QED
    BY <2>2, <2>3, <2>4
<1>6. Range(free_block_ids) \cap Range(blocks) = {}
  BY <1>0, <1>5, EvictableFacts DEF FreeListExact
<1>7. /\ free_block_ids' \in Seq(Blocks)
      /\ IsInjective(free_block_ids')
      /\ Range(free_block_ids') =
           {b \in Blocks : ref_count[b] = 0} \cup {prefix_cache[k] : k \in Evictable}
  BY <1>0, <1>1, <1>5, <1>6, AppendBlocks DEF TypeOK, FreeListExact
<1>8. /\ CachedBlocks' = {}
      /\ \A k \in PrefixKeys : ~ IsCached(k)'
      /\ \A b : Holders(b)' = Holders(b)
  BY <1>2 DEF CachedBlocks, IsCached, Holders
<1>9. \A b \in CachedBlocks : b \in Blocks /\ ref_count[b] \in Nat \ {0}
  BY <1>0, OwnersFacts DEF CachedBlocks, IsCached, TypeOK
<1>10. TypeOK'
  BY <1>0, <1>2, <1>7, <1>9 DEF TypeOK, NoBlock
<1>11. RefCountsOwners'
  BY <1>0, <1>2, <1>8, HoldersFinite DEF RefCountsOwners
<1>12. FreeListExact'
  <2>1. \A b \in Blocks :
          ref_count'[b] = 0 <=> ref_count[b] = 0 \/ (b \in CachedBlocks /\ ref_count[b] = 1)
    BY <1>0, <1>2, <1>9 DEF TypeOK
  <2>2. \A b \in Blocks :
          (b \in CachedBlocks /\ ref_count[b] = 1) <=> b \in {prefix_cache[k] : k \in Evictable}
    BY DEF CachedBlocks, Evictable, IsCached
  <2>3. {prefix_cache[k] : k \in Evictable} \subseteq Blocks
    BY <1>0, EvictableFacts
  <2> QED
    BY <1>7, <2>1, <2>2, <2>3 DEF FreeListExact
<1>13. NoAliasing' /\ LiveIffHolding'
  BY <1>0, <1>2, <1>8 DEF PoolInv, NoAliasing, LiveIffHolding
<1>14. SharedBlocksAgree'
  <2>1. UNCHANGED <<num_computed_tokens, block_table>> /\ SharedBlocksAgree
    BY <1>2 DEF PoolInv
  <2> QED
    BY <2>1 DEF SharedBlocksAgree, FullyComputed
<1>15. CacheCoherent'
  BY <1>8 DEF CacheCoherent
<1> QED
  BY <1>10, <1>11, <1>12, <1>13, <1>14, <1>15 DEF PoolInv

----------------------------------------------------------------------------
\* Releasing gives back one reference per table entry.
LEMMA ReleasePreservesPoolInv ==
  ASSUME PoolInv, NEW r \in Requests, Release(r)
  PROVE  PoolInv'
<1> DEFINE table == block_table[r]
           S == LastReferences(r)
           n == Cardinality(S)
<1>0. TypeOK /\ RefCountsOwners /\ FreeListExact /\ NoAliasing /\ LiveIffHolding
  BY DEF PoolInv
<1>1. /\ ref_count' = [b \in Blocks |->
           IF b \in Range(table) THEN ref_count[b] - 1 ELSE ref_count[b]]
      /\ live_sequences' = live_sequences \ {r}
      /\ block_table' = [block_table EXCEPT ![r] = << >>]
      /\ UNCHANGED <<status, num_tokens, num_computed_tokens,
                     prefix_cache, last_used, cache_clock>>
  BY DEF Release, DropReferences
<1>2. PICK last \in Ascending(S) :
        free_block_ids' =
          free_block_ids \o [i \in DOMAIN last |-> table[last[Len(last) + 1 - i]]]
  BY DEF Release
<1> DEFINE blocks == [i \in DOMAIN last |-> table[last[Len(last) + 1 - i]]]
<1>3. /\ table \in Seq(Blocks) /\ Len(table) \in Nat /\ DOMAIN table = 1 .. Len(table)
      /\ Range(table) \subseteq Blocks
      /\ \A b : b \in Range(table) <=> r \in Holders(b)
      /\ IsInjective(table)
  BY <1>0, TableFacts DEF Range, NoAliasing
<1>4. IsFiniteSet(S) /\ n \in Nat /\ S \subseteq 1 .. Len(table)
  <2>1. S \in SUBSET (1 .. Len(table))
    BY <1>3 DEF LastReferences
  <2>2. IsFiniteSet(1 .. Len(table))
    BY <1>3, FS_Interval
  <2>3. IsFiniteSet(S)
    BY <2>1, <2>2, FS_Subset
  <2> QED
    BY <2>1, <2>3, FS_CardinalityType
<1>5. /\ last \in [1 .. n -> S] /\ DOMAIN last = 1 .. n /\ Len(last) = n
      /\ \A i, j \in 1 .. n : i < j => last[i] < last[j]
  <2>1. last \in [1 .. n -> S] /\ \A i, j \in 1 .. n : i < j => last[i] < last[j]
    BY <1>2 DEF Ascending
  <2>2. last \in Seq(S)
    BY <2>1, <1>4, SeqDef
  <2> QED
    BY <2>1, <2>2, <1>4, LenProperties
<1>6. \A i, j \in 1 .. n : last[i] = last[j] => i = j
  <2> SUFFICES ASSUME NEW i \in 1 .. n, NEW j \in 1 .. n, i # j
               PROVE  last[i] # last[j]
    OBVIOUS
  <2>1. last[i] \in Nat /\ last[j] \in Nat
    BY <1>3, <1>4, <1>5
  <2>2. i < j \/ j < i
    BY <1>4
  <2> QED
    BY <2>1, <2>2, <1>5
<1>7. Range(last) = S
  BY <1>4, <1>5, <1>6, ListingIsOnto
<1>8. /\ blocks \in Seq(Blocks)
      /\ Range(blocks) = {table[i] : i \in S}
      /\ IsInjective(blocks)
  <2>1. DOMAIN blocks = 1 .. n /\ \A i \in 1 .. n : n + 1 - i \in 1 .. n
    BY <1>4, <1>5
  <2>2. \A i \in 1 .. n : /\ blocks[i] = table[last[n + 1 - i]]
                          /\ last[n + 1 - i] \in S
    BY <1>5, <2>1
  <2>3. \A i \in 1 .. n : blocks[i] \in Blocks
    BY <1>3, <1>4, <2>2 DEF Range
  <2>4. blocks \in Seq(Blocks)
    <3>1. blocks \in [1 .. n -> Blocks]
      BY <2>1, <2>3
    <3> QED
      BY <1>4, <3>1, SeqDef
  <2>5. Range(blocks) \subseteq {table[i] : i \in S}
    <3> SUFFICES ASSUME NEW i \in 1 .. n
                 PROVE  blocks[i] \in {table[m] : m \in S}
      BY <2>1 DEF Range
    <3> QED
      BY <2>2
  <2>6. ASSUME NEW i \in S
        PROVE  table[i] \in Range(blocks)
    <3>1. PICK m \in 1 .. n : last[m] = i
      BY <1>5, <1>7 DEF Range
    <3>2. n + 1 - m \in 1 .. n /\ n + 1 - (n + 1 - m) = m
      BY <1>4
    <3>3. blocks[n + 1 - m] = table[i]
      BY <2>2, <3>1, <3>2
    <3> QED
      BY <2>1, <3>2, <3>3 DEF Range
  <2>7. ASSUME NEW i \in 1 .. n, NEW j \in 1 .. n, blocks[i] = blocks[j]
        PROVE  i = j
    <3>1. last[n + 1 - i] = last[n + 1 - j]
      <4>1. last[n + 1 - i] \in DOMAIN table /\ last[n + 1 - j] \in DOMAIN table
        BY <2>2, <1>3, <1>4
      <4>2. table[last[n + 1 - i]] = table[last[n + 1 - j]]
        BY <2>2, <2>7
      <4> QED
        BY <4>1, <4>2, <1>3 DEF IsInjective
    <3>2. n + 1 - i = n + 1 - j
      BY <1>6, <2>1, <3>1
    <3> QED
      BY <3>2, <1>4
  <2>8. IsInjective(blocks)
    BY <2>1, <2>7 DEF IsInjective
  <2> QED
    BY <2>4, <2>5, <2>6, <2>8
<1>9. \A b \in Range(table) : b \in Blocks /\ ref_count[b] \in Nat \ {0}
  BY <1>0, <1>3, OwnersFacts
<1>10. \A b \in Blocks :
         b \in {table[i] : i \in S} <=> b \in Range(table) /\ ref_count[b] = 1
  BY <1>3 DEF LastReferences, Range
<1>11. Range(free_block_ids) \cap Range(blocks) = {}
  BY <1>0, <1>8, <1>9, <1>10 DEF FreeListExact
<1>12. /\ free_block_ids' \in Seq(Blocks)
       /\ IsInjective(free_block_ids')
       /\ Range(free_block_ids') =
            {b \in Blocks : ref_count[b] = 0} \cup {table[i] : i \in S}
  BY <1>0, <1>2, <1>8, <1>11, AppendBlocks DEF TypeOK, FreeListExact
<1>13. \A b : Holders(b)' = Holders(b) \ {r}
  <2>1. Range(<< >>) = {}
    BY DEF Range
  <2> QED
    BY <1>0, <1>1, <2>1, HoldersUpdate DEF TypeOK
<1>14. CachedBlocks' = CachedBlocks /\ \A k \in PrefixKeys : IsCached(k)' <=> IsCached(k)
  BY <1>1 DEF CachedBlocks, IsCached
<1>15. TypeOK'
  <2>1. ref_count' \in [Blocks -> Nat]
    BY <1>0, <1>1, <1>9 DEF TypeOK
  <2>2. block_table' \in [Requests -> Seq(Blocks)]
    BY <1>0, <1>1 DEF TypeOK
  <2> QED
    BY <1>0, <1>1, <1>12, <2>1, <2>2 DEF TypeOK
<1>16. RefCountsOwners'
  <2> SUFFICES ASSUME NEW b \in Blocks
               PROVE  ref_count'[b] = Cardinality(Holders(b) \ {r})
                                      + (IF b \in CachedBlocks THEN 1 ELSE 0)
    BY <1>13, <1>14 DEF RefCountsOwners
  <2>1. /\ IsFiniteSet(Holders(b)) /\ Cardinality(Holders(b)) \in Nat
        /\ ref_count[b] = Cardinality(Holders(b)) + (IF b \in CachedBlocks THEN 1 ELSE 0)
    BY <1>0, HoldersFinite DEF RefCountsOwners
  <2>2. Cardinality(Holders(b) \ {r}) =
          IF r \in Holders(b) THEN Cardinality(Holders(b)) - 1 ELSE Cardinality(Holders(b))
    BY <2>1, FS_RemoveElement
  <2> QED
    BY <2>1, <2>2, <1>1, <1>3
<1>17. FreeListExact'
  <2>1. \A b \in Blocks :
          ref_count'[b] = 0 <=> ref_count[b] = 0 \/ b \in {table[i] : i \in S}
    BY <1>0, <1>1, <1>9, <1>10 DEF TypeOK
  <2>2. {table[i] : i \in S} \subseteq Blocks
    BY <1>3, <1>4 DEF Range
  <2> QED
    BY <1>12, <2>1, <2>2 DEF FreeListExact
<1>18. \A q \in Requests : block_table'[q] = IF q = r THEN << >> ELSE block_table[q]
  BY <1>0, <1>1 DEF TypeOK
<1>19. NoAliasing'
  <2>1. IsInjective(<< >>)
    BY DEF IsInjective
  <2>2. \A q \in Requests : IsInjective(block_table'[q])
    BY <1>0, <1>18, <2>1 DEF NoAliasing
  <2> QED
    BY <1>0, <1>1, <1>14, <2>2 DEF NoAliasing
<1>20. LiveIffHolding'
  BY <1>0, <1>1, <1>18 DEF LiveIffHolding
<1>21. UNCHANGED num_computed_tokens /\ DOMAIN << >> = {}
  BY <1>1
<1>22. SharedBlocksAgree'
  BY <1>18, <1>21 DEF PoolInv, SharedBlocksAgree, FullyComputed
<1>23. CacheCoherent'
  BY <1>1, <1>14, <1>18, <1>21 DEF PoolInv, CacheCoherent, FullyComputed
<1> QED
  BY <1>15, <1>16, <1>17, <1>19, <1>20, <1>22, <1>23 DEF PoolInv

----------------------------------------------------------------------------
(***************************************************************************)
(* Sharing, when one request's table or computed tokens change.            *)
(***************************************************************************)

\* Two requests start with the same i blocks iff they have the same i-th key.
LEMMA SameTokensSameKey ==
  ASSUME NEW r \in Requests, NEW q \in Requests, NEW i
  PROVE  /\ SameTokens(r, q, i) <=> PrefixKey(r, i) = PrefixKey(q, i)
         /\ SameTokens(r, q, i) <=> SameTokens(q, r, i)
  BY DEF SameTokens, PrefixKey

\* Only the pairs with r have to be looked at again.
LEMMA SharedBlocksUpdate ==
  ASSUME NEW r \in Requests, SharedBlocksAgree,
         \A q \in Requests \ {r} : /\ block_table'[q] = block_table[q]
                                   /\ num_computed_tokens'[q] = num_computed_tokens[q],
         \A q \in Requests \ {r} :
           \A i \in DOMAIN block_table'[r], j \in DOMAIN block_table[q] :
             block_table'[r][i] = block_table[q][j] =>
               /\ i = j
               /\ i <= CacheableBlocks(r) /\ i <= CacheableBlocks(q)
               /\ SameTokens(r, q, i)
               /\ FullyComputed(r, i)' /\ FullyComputed(q, i)
  PROVE  SharedBlocksAgree'
<1> SUFFICES ASSUME NEW x \in Requests, NEW y \in Requests, x # y,
                    NEW i \in DOMAIN block_table'[x], NEW j \in DOMAIN block_table'[y],
                    block_table'[x][i] = block_table'[y][j]
             PROVE  /\ i = j
                    /\ i <= CacheableBlocks(x) /\ i <= CacheableBlocks(y)
                    /\ SameTokens(x, y, i)
                    /\ FullyComputed(x, i)' /\ FullyComputed(y, i)'
  BY DEF SharedBlocksAgree
<1>1. ASSUME NEW q \in Requests \ {r}, NEW m
      PROVE  FullyComputed(q, m)' <=> FullyComputed(q, m)
  BY DEF FullyComputed
<1>2. CASE x = r
  BY <1>1, <1>2
<1>3. CASE y = r
  <2>1. /\ j = i
        /\ j <= CacheableBlocks(r) /\ j <= CacheableBlocks(x)
        /\ SameTokens(r, x, j)
        /\ FullyComputed(r, j)' /\ FullyComputed(x, j)
    BY <1>3
  <2> QED
    BY <2>1, <1>1, <1>3, SameTokensSameKey
<1>4. CASE x # r /\ y # r
  <2>1. /\ i \in DOMAIN block_table[x] /\ j \in DOMAIN block_table[y]
        /\ block_table[x][i] = block_table[y][j]
    BY <1>4
  <2>2. /\ i = j
        /\ i <= CacheableBlocks(x) /\ i <= CacheableBlocks(y)
        /\ SameTokens(x, y, i)
        /\ FullyComputed(x, i) /\ FullyComputed(y, i)
    BY <2>1 DEF SharedBlocksAgree
  <2> QED
    BY <2>2, <1>1, <1>4
<1> QED
  BY <1>2, <1>3, <1>4

\* A cached block has an owner, so it is not on the free list.
LEMMA CachedBlocksReferenced ==
  ASSUME TypeOK, RefCountsOwners, NEW k \in PrefixKeys, IsCached(k)
  PROVE  /\ prefix_cache[k] \in Blocks /\ prefix_cache[k] \in CachedBlocks
         /\ ref_count[prefix_cache[k]] \in Nat \ {0}
<1>1. prefix_cache[k] \in Blocks /\ prefix_cache[k] \in CachedBlocks
  BY DEF TypeOK, IsCached, CachedBlocks
<1> QED
  BY <1>1, OwnersFacts

----------------------------------------------------------------------------
\* A cache hit adds a reader at the position the key ends at, with the whole
\* block computed; a request that misses changes nothing.
LEMMA ApplyPreservesPoolInv ==
  ASSUME PoolInv, NEW r \in Requests, ApplyPrefixCache(r)
  PROVE  PoolInv'
<1>0. /\ TypeOK /\ RefCountsOwners /\ FreeListExact /\ NoAliasing /\ LiveIffHolding
      /\ SharedBlocksAgree /\ CacheCoherent
  BY DEF PoolInv
<1>1. CacheableBlocks(r) \in Nat
  BY PrefixKeyFacts
<1>2. PICK hits \in 0 .. CacheableBlocks(r) :
        LET shared == [i \in 1 .. hits |-> prefix_cache[PrefixKey(r, i)]]
        IN  /\ PrefixHits(r, hits)
            /\ AddReferences(Range(shared))
            /\ last_used' = [k \in PrefixKeys |->
                 IF \E i \in 1 .. hits : k = PrefixKey(r, i)
                 THEN cache_clock + (CHOOSE i \in 1 .. hits : k = PrefixKey(r, i))
                 ELSE last_used[k]]
            /\ cache_clock' = cache_clock + hits
            /\ block_table' = [block_table EXCEPT ![r] = @ \o shared]
            /\ BecomesLive(r, hits)
            /\ num_computed_tokens' = [num_computed_tokens EXCEPT ![r] = @ + hits * BlockSize]
            /\ UNCHANGED <<status, num_tokens, free_block_ids, prefix_cache>>
  BY DEF ApplyPrefixCache
<1> DEFINE shared == [i \in 1 .. hits |-> prefix_cache[PrefixKey(r, i)]]
<1>3. hits \in Nat /\ hits * BlockSize \in Nat
  BY <1>1, BlockManagerAssumption
<1>4. CASE hits = 0
  <2>1. shared = << >> /\ Range(shared) = {}
    BY <1>4 DEF Range
  <2>2. block_table' = block_table
    <3>1. block_table[r] \in Seq(Blocks) /\ block_table[r] \o << >> = block_table[r]
      BY <1>0, ConcatEmptySeq DEF TypeOK
    <3> QED
      BY <1>0, <1>2, <2>1, <3>1 DEF TypeOK
  <2>3. num_computed_tokens' = num_computed_tokens
    BY <1>0, <1>2, <1>4, BlockManagerAssumption DEF TypeOK
  <2>4. ref_count' = ref_count
    BY <1>0, <1>2, <2>1 DEF AddReferences, TypeOK
  <2>5. last_used' = last_used
    BY <1>0, <1>2, <1>4 DEF TypeOK
  <2>6. cache_clock' = cache_clock /\ live_sequences' = live_sequences
    BY <1>0, <1>2, <1>4 DEF TypeOK, BecomesLive
  <2>7. UNCHANGED <<num_computed_tokens, block_table, pool_vars>>
    BY <1>2, <2>2, <2>3, <2>4, <2>5, <2>6 DEF pool_vars
  <2> QED
    BY <1>0, <1>2, <2>7, PoolInvFrame DEF TypeOK
<1>5. CASE hits > 0
  <2>1. num_computed_tokens[r] = 0 /\ block_table[r] = << >>
    BY <1>2, <1>3, <1>5 DEF PrefixHits
  <2>2. \A i \in 1 .. hits :
          /\ i \in 1 .. CacheableBlocks(r)
          /\ PrefixKey(r, i) \in PrefixKeys
          /\ IsCached(PrefixKey(r, i))
          /\ shared[i] = prefix_cache[PrefixKey(r, i)]
          /\ shared[i] \in Blocks /\ shared[i] \in CachedBlocks
          /\ ref_count[shared[i]] \in Nat \ {0}
    <3>1. \A i \in 1 .. hits : IsCached(PrefixKey(r, i)) /\ i \in 1 .. CacheableBlocks(r)
      BY <1>1, <1>2, <1>3, <1>5 DEF PrefixHits
    <3> QED
      BY <1>0, <3>1, PrefixKeyFacts, CachedBlocksReferenced
  <2>3. shared \in Seq(Blocks) /\ DOMAIN shared = 1 .. hits
    <3>1. shared \in [1 .. hits -> Blocks]
      BY <2>2
    <3> QED
      BY <1>3, <3>1, SeqDef
  <2>4. \A b : b \in Range(shared) => /\ b \in Blocks /\ b \in CachedBlocks
                                     /\ ref_count[b] \in Nat \ {0}
    BY <2>2, <2>3 DEF Range
  <2>5. /\ ref_count' = [b \in Blocks |->
             IF b \in Range(shared) THEN ref_count[b] + 1 ELSE ref_count[b]]
        /\ live_sequences' = live_sequences \cup {r}
        /\ UNCHANGED <<status, num_tokens, free_block_ids, prefix_cache>>
        /\ cache_clock' = cache_clock + hits
    BY <1>2, <1>5 DEF AddReferences, BecomesLive
  <2>6. block_table' = [block_table EXCEPT ![r] = shared]
    <3>1. << >> \o shared = shared
      BY <2>3, ConcatEmptySeq
    <3> QED
      BY <1>2, <2>1, <3>1
  <2>7. num_computed_tokens' = [num_computed_tokens EXCEPT ![r] = hits * BlockSize]
    <3>1. num_computed_tokens[r] + hits * BlockSize = hits * BlockSize
      BY <1>3, <2>1
    <3> QED
      BY <1>2, <3>1
  <2>8. last_used' \in [PrefixKeys -> Nat]
    <3>1. ASSUME NEW k \in PrefixKeys, \E i \in 1 .. hits : k = PrefixKey(r, i)
          PROVE  (CHOOSE i \in 1 .. hits : k = PrefixKey(r, i)) \in 1 .. hits
      BY <3>1
    <3>2. cache_clock \in Nat /\ last_used \in [PrefixKeys -> Nat]
      BY <1>0 DEF TypeOK
    <3>3. \A k \in PrefixKeys :
            (IF \E i \in 1 .. hits : k = PrefixKey(r, i)
             THEN cache_clock + (CHOOSE i \in 1 .. hits : k = PrefixKey(r, i))
             ELSE last_used[k]) \in Nat
      BY <1>3, <3>1, <3>2
    <3> QED
      BY <1>2, <3>3
  <2> HIDE DEF shared
  <2>9. \A q \in Requests : block_table'[q] = IF q = r THEN shared ELSE block_table[q]
    BY <1>0, <2>6 DEF TypeOK
  <2>10. \A q \in Requests : num_computed_tokens'[q] =
           IF q = r THEN hits * BlockSize ELSE num_computed_tokens[q]
    BY <1>0, <2>7 DEF TypeOK
  <2>11. \A b : Holders(b)' =
           IF b \in Range(shared) THEN Holders(b) \cup {r} ELSE Holders(b)
    <3> TAKE b
    <3>1. r \notin Holders(b)
      BY <2>1 DEF Holders, Range
    <3>2. Holders(b)' = IF b \in Range(shared) THEN Holders(b) \cup {r} ELSE Holders(b) \ {r}
      BY <1>0, <2>6, HoldersUpdate DEF TypeOK
    <3> QED
      BY <3>1, <3>2
  <2>12. /\ CachedBlocks' = CachedBlocks
         /\ \A k \in PrefixKeys : IsCached(k)' <=> IsCached(k)
    BY <2>5 DEF CachedBlocks, IsCached
  <2>13. \A i \in 1 .. hits : FullyComputed(r, i)'
    BY <1>3, <2>10, BlockManagerAssumption, SMT DEF FullyComputed
  <2>14. TypeOK'
    <3>1. ref_count' \in [Blocks -> Nat]
      BY <1>0, <2>5 DEF TypeOK
    <3>2. block_table' \in [Requests -> Seq(Blocks)]
      BY <1>0, <2>3, <2>6 DEF TypeOK
    <3>3. num_computed_tokens' \in [Requests -> Nat]
      BY <1>0, <1>3, <2>7 DEF TypeOK
    <3> QED
      BY <1>0, <1>3, <2>5, <2>8, <3>1, <3>2, <3>3 DEF TypeOK
  <2>15. RefCountsOwners'
    <3> SUFFICES ASSUME NEW b \in Blocks
                 PROVE  ref_count'[b] = Cardinality(Holders(b)')
                                        + (IF b \in CachedBlocks THEN 1 ELSE 0)
      BY <2>12 DEF RefCountsOwners
    <3>1. /\ IsFiniteSet(Holders(b)) /\ Cardinality(Holders(b)) \in Nat
          /\ ref_count[b] = Cardinality(Holders(b)) + (IF b \in CachedBlocks THEN 1 ELSE 0)
      BY <1>0, HoldersFinite DEF RefCountsOwners
    <3>2. r \notin Holders(b)
      BY <2>1 DEF Holders, Range
    <3>3. Cardinality(Holders(b) \cup {r}) = Cardinality(Holders(b)) + 1
      BY <3>1, <3>2, FS_AddElement
    <3> QED
      BY <2>5, <2>11, <3>1, <3>3
  <2>16. FreeListExact'
    <3>1. \A b \in Blocks : ref_count'[b] = 0 <=> ref_count[b] = 0
      BY <1>0, <2>4, <2>5 DEF TypeOK
    <3> QED
      BY <1>0, <2>5, <3>1 DEF FreeListExact
  <2>17. NoAliasing'
    <3>1. IsInjective(shared)
      BY <1>0, <2>2, <2>3, PrefixKeyPosition DEF NoAliasing, IsInjective
    <3> QED
      BY <1>0, <2>5, <2>9, <2>12, <3>1 DEF NoAliasing
  <2>18. LiveIffHolding'
    <3>1. shared # << >>
      BY <1>3, <1>5, <2>3
    <3> QED
      BY <1>0, <2>5, <2>9, <3>1 DEF LiveIffHolding
  <2>19. SharedBlocksAgree'
    <3>1. ASSUME NEW q \in Requests \ {r},
                 NEW i \in 1 .. hits, NEW j \in DOMAIN block_table[q],
                 shared[i] = block_table[q][j]
          PROVE  /\ i = j
                 /\ i <= CacheableBlocks(r) /\ i <= CacheableBlocks(q)
                 /\ SameTokens(r, q, i)
                 /\ FullyComputed(r, i)' /\ FullyComputed(q, i)
      <4>1. /\ j <= CacheableBlocks(q)
            /\ PrefixKey(r, i) = PrefixKey(q, j)
            /\ FullyComputed(q, j)
        BY <1>0, <2>2, <3>1 DEF CacheCoherent
      <4>2. j \in 1 .. CacheableBlocks(q)
        BY <1>0, <4>1, TableFacts, PrefixKeyFacts
      <4>3. i = j
        BY <2>2, <4>1, <4>2, PrefixKeyPosition
      <4>4. i <= CacheableBlocks(r)
        BY <1>1, <2>2
      <4> QED
        BY <2>13, <4>1, <4>3, <4>4, SameTokensSameKey
    <3> QED
      BY <1>0, <2>3, <2>9, <2>10, <3>1, SharedBlocksUpdate
  <2>20. CacheCoherent'
    <3> SUFFICES ASSUME NEW k \in PrefixKeys, NEW q \in Requests, IsCached(k),
                        NEW i \in DOMAIN block_table'[q],
                        block_table'[q][i] = prefix_cache[k]
                 PROVE  i <= CacheableBlocks(q) /\ k = PrefixKey(q, i) /\ FullyComputed(q, i)'
      BY <2>5, <2>12 DEF CacheCoherent
    <3>1. CASE q = r
      <4>1. i \in 1 .. hits /\ shared[i] = prefix_cache[k]
        BY <2>3, <2>9, <3>1
      <4>2. k = PrefixKey(r, i)
        BY <1>0, <2>2, <4>1 DEF NoAliasing
      <4> QED
        BY <1>1, <2>2, <2>13, <3>1, <4>1, <4>2
    <3>2. CASE q # r
      BY <1>0, <2>9, <2>10, <3>2 DEF CacheCoherent, FullyComputed
    <3> QED
      BY <3>1, <3>2
  <2> QED
    BY <2>14, <2>15, <2>16, <2>17, <2>18, <2>19, <2>20 DEF PoolInv
<1> QED
  BY <1>3, <1>4, <1>5

----------------------------------------------------------------------------
\* Computing tokens registers blocks that were not cached, under the keys of the
\* sequence that holds them, and only once they are computed to their end.
LEMMA ComputePreservesPoolInv ==
  ASSUME PoolInv, NEW r \in Requests, NEW count \in 1 .. PendingTokens(r), Compute(r, count)
  PROVE  PoolInv'
<1> DEFINE table == block_table[r]
           computed == num_computed_tokens[r] + count
           full == ComputedPrefixBlocks(r, computed)
           fresh == {i \in full : ~ IsCached(PrefixKey(r, i))}
           registered == {table[i] : i \in fresh}
<1>0. /\ TypeOK /\ RefCountsOwners /\ FreeListExact /\ NoAliasing /\ LiveIffHolding
      /\ SharedBlocksAgree /\ CacheCoherent
  BY DEF PoolInv
<1>1. count \in Nat /\ num_computed_tokens[r] \in Nat /\ computed \in Nat
  BY <1>0 DEF TypeOK, PendingTokens
<1>2. /\ num_computed_tokens' = [num_computed_tokens EXCEPT ![r] = @ + count]
      /\ prefix_cache' = [k \in PrefixKeys |->
           IF \E i \in fresh : k = PrefixKey(r, i)
           THEN table[CHOOSE i \in fresh : k = PrefixKey(r, i)]
           ELSE prefix_cache[k]]
      /\ last_used' = [k \in PrefixKeys |->
           IF \E i \in full : k = PrefixKey(r, i)
           THEN cache_clock + (CHOOSE i \in full : k = PrefixKey(r, i))
           ELSE last_used[k]]
      /\ cache_clock' = cache_clock + Cardinality(full)
      /\ ref_count' = [b \in Blocks |->
           IF b \in registered THEN ref_count[b] + 1 ELSE ref_count[b]]
      /\ UNCHANGED <<status, num_tokens, block_table, free_block_ids, live_sequences>>
  BY DEF Compute, ComputeTokens, MarkComputed, CacheComputedPrefixBlocks, AddReferences
<1>3. /\ table \in Seq(Blocks) /\ Len(table) \in Nat /\ DOMAIN table = 1 .. Len(table)
      /\ IsInjective(table)
      /\ \A i \in DOMAIN table : table[i] \in Blocks /\ r \in Holders(table[i])
      /\ CacheableBlocks(r) \in Nat
  BY <1>0, TableFacts, PrefixKeyFacts DEF NoAliasing
<1>4. ASSUME NEW i \in full
      PROVE  /\ i \in Nat \ {0} /\ i \in 1 .. CacheableBlocks(r) /\ i \in DOMAIN table
             /\ i * BlockSize <= computed
             /\ PrefixKey(r, i) \in PrefixKeys
  <2>1. i \in 1 .. CacheableBlocks(r) /\ i <= computed \div BlockSize /\ i <= Len(table)
    BY DEF ComputedPrefixBlocks
  <2>2. i \in Nat \ {0} /\ i \in DOMAIN table
    BY <1>3, <2>1
  <2>3. i * BlockSize <= computed
    BY <1>1, <2>1, <2>2, BlocksFit
  <2> QED
    BY <2>1, <2>2, <2>3, PrefixKeyFacts
<1>5. IsFiniteSet(full) /\ Cardinality(full) \in Nat
  <2>1. full \in SUBSET (1 .. CacheableBlocks(r))
    BY <1>4
  <2>2. IsFiniteSet(1 .. CacheableBlocks(r))
    BY <1>3, FS_Interval
  <2> QED
    BY <2>1, <2>2, FS_Subset, FS_CardinalityType
<1> HIDE DEF full
<1>6. \A i \in fresh : prefix_cache'[PrefixKey(r, i)] = table[i]
  <2> SUFFICES ASSUME NEW i \in fresh
               PROVE  prefix_cache'[PrefixKey(r, i)] = table[i]
    OBVIOUS
  <2> DEFINE chosen == CHOOSE m \in fresh : PrefixKey(r, i) = PrefixKey(r, m)
  <2>1. chosen \in fresh /\ PrefixKey(r, i) = PrefixKey(r, chosen)
    OBVIOUS
  <2>2. i \in 1 .. CacheableBlocks(r) /\ chosen \in 1 .. CacheableBlocks(r)
    BY <1>4, <2>1
  <2> HIDE DEF chosen
  <2>3. chosen = i
    BY <2>1, <2>2, PrefixKeyPosition
  <2>4. prefix_cache'[PrefixKey(r, i)] = table[chosen]
    BY <1>2, <1>4 DEF chosen
  <2> QED
    BY <2>3, <2>4
<1>7. ASSUME NEW k \in PrefixKeys
      PROVE  /\ (\E i \in fresh : k = PrefixKey(r, i) /\ prefix_cache'[k] = table[i])
                  \/ (prefix_cache'[k] = prefix_cache[k]
                        /\ ~ \E i \in fresh : k = PrefixKey(r, i))
             /\ IsCached(k)' <=> IsCached(k) \/ \E i \in fresh : k = PrefixKey(r, i)
  <2>1. CASE \E i \in fresh : k = PrefixKey(r, i)
    <3>1. PICK i \in fresh : k = PrefixKey(r, i)
      BY <2>1
    <3>2. prefix_cache'[k] = table[i] /\ table[i] \in Blocks
      BY <1>3, <1>4, <1>6, <3>1
    <3>3. table[i] # NoBlock
      BY <3>2, BlockManagerAssumption DEF Blocks, NoBlock
    <3> QED
      BY <3>1, <3>2, <3>3 DEF IsCached
  <2>2. CASE ~ \E i \in fresh : k = PrefixKey(r, i)
    BY <1>2, <2>2 DEF IsCached
  <2> QED
    BY <2>1, <2>2
<1>8. \A i \in fresh : table[i] \notin CachedBlocks
  <2> SUFFICES ASSUME NEW i \in fresh, NEW k \in PrefixKeys, IsCached(k), prefix_cache[k] = table[i]
               PROVE  FALSE
    BY DEF CachedBlocks
  <2>1. k = PrefixKey(r, i)
    BY <1>0, <1>4 DEF CacheCoherent
  <2> QED
    BY <2>1
<1>9. CachedBlocks' = CachedBlocks \cup registered
  <2>1. \A k \in PrefixKeys : IsCached(k)' => prefix_cache'[k] \in CachedBlocks \cup registered
    BY <1>7 DEF CachedBlocks
  <2>2. \A k \in PrefixKeys : IsCached(k) => IsCached(k)' /\ prefix_cache'[k] = prefix_cache[k]
    BY <1>7
  <2>3. \A i \in fresh : /\ PrefixKey(r, i) \in PrefixKeys
                         /\ IsCached(PrefixKey(r, i))'
                         /\ prefix_cache'[PrefixKey(r, i)] = table[i]
    BY <1>4, <1>6, <1>7
  <2>4. CachedBlocks' = {prefix_cache'[k] : k \in {key \in PrefixKeys : IsCached(key)'}}
    BY DEF CachedBlocks
  <2>5. CachedBlocks \subseteq CachedBlocks'
    BY <2>2, <2>4 DEF CachedBlocks
  <2> QED
    BY <2>1, <2>3, <2>4, <2>5
<1>10. \A b \in registered : b \in Blocks /\ r \in Holders(b) /\ ref_count[b] \in Nat \ {0}
  BY <1>0, <1>3, <1>4, OwnersFacts
<1>11. \A b : Holders(b)' = Holders(b)
  BY <1>2 DEF Holders
<1>12. \A i \in full : FullyComputed(r, i)'
  BY <1>0, <1>2, <1>4 DEF FullyComputed, TypeOK
<1>13. \A q \in Requests : \A m \in Nat : FullyComputed(q, m) => FullyComputed(q, m)'
  <2> SUFFICES ASSUME NEW q \in Requests, NEW m \in Nat, FullyComputed(q, m)
               PROVE  FullyComputed(q, m)'
    OBVIOUS
  <2>1. /\ num_computed_tokens[q] \in Nat /\ num_computed_tokens'[q] \in Nat
        /\ num_computed_tokens[q] <= num_computed_tokens'[q]
    BY <1>0, <1>1, <1>2 DEF TypeOK
  <2>2. m * BlockSize \in Nat
    BY BlockManagerAssumption
  <2> QED
    BY <2>1, <2>2 DEF FullyComputed
<1>14. TypeOK'
  <2>1. prefix_cache' \in [PrefixKeys -> Blocks \cup {NoBlock}]
    <3>1. \A k \in PrefixKeys : prefix_cache'[k] \in Blocks \cup {NoBlock}
      BY <1>0, <1>3, <1>4, <1>7 DEF TypeOK
    <3> QED
      BY <1>2, <3>1
  <2>2. last_used' \in [PrefixKeys -> Nat]
    <3>1. ASSUME NEW k \in PrefixKeys, \E i \in full : k = PrefixKey(r, i)
          PROVE  (CHOOSE i \in full : k = PrefixKey(r, i)) \in Nat
      <4>1. (CHOOSE i \in full : k = PrefixKey(r, i)) \in full
        BY <3>1
      <4> QED
        BY <1>4, <4>1
    <3>2. cache_clock \in Nat /\ last_used \in [PrefixKeys -> Nat]
      BY <1>0 DEF TypeOK
    <3>3. ASSUME NEW k \in PrefixKeys
          PROVE  last_used'[k] \in Nat
      <4> DEFINE position == CHOOSE i \in full : k = PrefixKey(r, i)
      <4>1. last_used'[k] =
              IF \E i \in full : k = PrefixKey(r, i) THEN cache_clock + position ELSE last_used[k]
        BY <1>2
      <4>2. (\E i \in full : k = PrefixKey(r, i)) => position \in Nat
        BY <3>1
      <4> HIDE DEF position
      <4> QED
        BY <3>2, <4>1, <4>2
    <3> QED
      BY <1>2, <3>3
  <2>3. ref_count' \in [Blocks -> Nat]
    BY <1>0, <1>2 DEF TypeOK
  <2>4. num_computed_tokens' \in [Requests -> Nat]
    BY <1>0, <1>1, <1>2 DEF TypeOK
  <2> QED
    BY <1>0, <1>2, <1>5, <2>1, <2>2, <2>3, <2>4 DEF TypeOK
<1>15. RefCountsOwners'
  <2> SUFFICES ASSUME NEW b \in Blocks
               PROVE  ref_count'[b] = Cardinality(Holders(b))
                                      + (IF b \in CachedBlocks \cup registered THEN 1 ELSE 0)
    BY <1>9, <1>11 DEF RefCountsOwners
  <2>1. /\ Cardinality(Holders(b)) \in Nat
        /\ ref_count[b] = Cardinality(Holders(b)) + (IF b \in CachedBlocks THEN 1 ELSE 0)
    BY <1>0, HoldersFinite DEF RefCountsOwners
  <2>2. b \in registered => b \notin CachedBlocks
    BY <1>8
  <2> QED
    BY <1>2, <2>1, <2>2
<1>16. FreeListExact'
  <2>1. \A b \in Blocks : ref_count'[b] = 0 <=> ref_count[b] = 0
    BY <1>0, <1>2, <1>10 DEF TypeOK
  <2> QED
    BY <1>0, <1>2, <2>1 DEF FreeListExact
<1>17. NoAliasing'
  <2>1. ASSUME NEW k1 \in PrefixKeys, NEW k2 \in PrefixKeys, IsCached(k1)',
               prefix_cache'[k1] = prefix_cache'[k2]
        PROVE  k1 = k2
    <3>1. ASSUME NEW i \in fresh, NEW k \in PrefixKeys, prefix_cache'[k] = table[i]
          PROVE  k = PrefixKey(r, i)
      <4>1. CASE \E m \in fresh : k = PrefixKey(r, m) /\ prefix_cache'[k] = table[m]
        <5>1. PICK m \in fresh : k = PrefixKey(r, m) /\ prefix_cache'[k] = table[m]
          BY <4>1
        <5>2. m = i
          BY <1>3, <1>4, <3>1, <5>1 DEF IsInjective
        <5> QED
          BY <5>1, <5>2
      <4>2. CASE prefix_cache'[k] = prefix_cache[k]
        <5>1. table[i] # NoBlock
          BY <1>3, <1>4, BlockManagerAssumption DEF Blocks, NoBlock
        <5>2. table[i] \in CachedBlocks
          BY <3>1, <4>2, <5>1 DEF CachedBlocks, IsCached
        <5> QED
          BY <1>8, <5>2
      <4> QED
        BY <1>7, <4>1, <4>2
    <3>2. CASE \E i \in fresh : k1 = PrefixKey(r, i)
      BY <1>6, <2>1, <3>1, <3>2
    <3>3. CASE \E i \in fresh : k2 = PrefixKey(r, i)
      BY <1>6, <2>1, <3>1, <3>3
    <3>4. CASE ~ (\E i \in fresh : k1 = PrefixKey(r, i)) /\ ~ (\E i \in fresh : k2 = PrefixKey(r, i))
      <4>1. /\ prefix_cache'[k1] = prefix_cache[k1] /\ prefix_cache'[k2] = prefix_cache[k2]
            /\ IsCached(k1)
        BY <1>7, <2>1, <3>4
      <4> QED
        BY <1>0, <2>1, <4>1 DEF NoAliasing
    <3> QED
      BY <3>2, <3>3, <3>4
  <2>2. \A q \in Requests : IsInjective(block_table'[q])
    BY <1>0, <1>2 DEF NoAliasing
  <2> QED
    BY <2>1, <2>2 DEF NoAliasing
<1>18. LiveIffHolding'
  BY <1>0, <1>2 DEF LiveIffHolding
<1>19. SharedBlocksAgree'
  <2> SUFFICES ASSUME NEW x \in Requests, NEW y \in Requests, x # y,
                      NEW i \in DOMAIN block_table[x], NEW j \in DOMAIN block_table[y],
                      block_table[x][i] = block_table[y][j]
               PROVE  /\ i = j
                      /\ i <= CacheableBlocks(x) /\ i <= CacheableBlocks(y)
                      /\ SameTokens(x, y, i)
                      /\ FullyComputed(x, i)' /\ FullyComputed(y, i)'
    BY <1>2 DEF SharedBlocksAgree
  <2>1. /\ i = j
        /\ i <= CacheableBlocks(x) /\ i <= CacheableBlocks(y)
        /\ SameTokens(x, y, i)
        /\ FullyComputed(x, i) /\ FullyComputed(y, i)
    BY <1>0 DEF SharedBlocksAgree
  <2>2. i \in Nat
    BY <1>0, TableFacts
  <2> QED
    BY <1>13, <2>1, <2>2
<1>20. CacheCoherent'
  <2> SUFFICES ASSUME NEW k \in PrefixKeys, NEW q \in Requests, IsCached(k)',
                      NEW i \in DOMAIN block_table[q],
                      block_table[q][i] = prefix_cache'[k]
               PROVE  i <= CacheableBlocks(q) /\ k = PrefixKey(q, i) /\ FullyComputed(q, i)'
    BY <1>2 DEF CacheCoherent
  <2>0. i \in Nat
    BY <1>0, TableFacts
  <2>1. CASE \E m \in fresh : k = PrefixKey(r, m) /\ prefix_cache'[k] = table[m]
    <3>1. PICK m \in fresh : k = PrefixKey(r, m) /\ prefix_cache'[k] = table[m]
      BY <2>1
    <3>2. m \in full /\ m \in DOMAIN table /\ m <= CacheableBlocks(r)
      BY <1>3, <1>4
    <3>3. CASE q = r
      <4>1. i = m
        BY <1>3, <3>1, <3>2, <3>3 DEF IsInjective
      <4> QED
        BY <1>12, <3>1, <3>2, <3>3, <4>1
    <3>4. CASE q # r
      <4>1. /\ m = i /\ m <= CacheableBlocks(q)
            /\ SameTokens(r, q, m) /\ FullyComputed(q, i)
        BY <1>0, <3>1, <3>2, <3>4 DEF SharedBlocksAgree
      <4> QED
        BY <1>13, <2>0, <3>1, <4>1, SameTokensSameKey
    <3> QED
      BY <3>3, <3>4
  <2>2. CASE prefix_cache'[k] = prefix_cache[k] /\ ~ \E m \in fresh : k = PrefixKey(r, m)
    <3>1. IsCached(k)
      BY <1>7, <2>2
    <3>2. i <= CacheableBlocks(q) /\ k = PrefixKey(q, i) /\ FullyComputed(q, i)
      BY <1>0, <2>2, <3>1 DEF CacheCoherent
    <3> QED
      BY <1>13, <2>0, <3>2
  <2> QED
    BY <1>7, <2>1, <2>2
<1> QED
  BY <1>14, <1>15, <1>16, <1>17, <1>18, <1>19, <1>20 DEF PoolInv

----------------------------------------------------------------------------
\* Taking the first n blocks of a list without repetition.
LEMMA SplitBlocks ==
  ASSUME NEW s \in Seq(Blocks), IsInjective(s), NEW n \in 0 .. Len(s)
  PROVE  /\ SubSeq(s, 1, n) \in Seq(Blocks) /\ Len(SubSeq(s, 1, n)) = n
         /\ IsInjective(SubSeq(s, 1, n))
         /\ SubSeq(s, n + 1, Len(s)) \in Seq(Blocks)
         /\ IsInjective(SubSeq(s, n + 1, Len(s)))
         /\ Range(SubSeq(s, 1, n)) \cup Range(SubSeq(s, n + 1, Len(s))) = Range(s)
         /\ Range(SubSeq(s, 1, n)) \cap Range(SubSeq(s, n + 1, Len(s))) = {}
<1> DEFINE taken == SubSeq(s, 1, n)
           left == SubSeq(s, n + 1, Len(s))
<1>1. Len(s) \in Nat /\ DOMAIN s = 1 .. Len(s) /\ n \in Nat /\ n <= Len(s)
  BY LenProperties
<1>2. /\ taken \in Seq(Blocks) /\ Len(taken) = n /\ DOMAIN taken = 1 .. n
      /\ \A i \in 1 .. n : i \in 1 .. Len(s) /\ taken[i] = s[i]
  <2>1. \A i \in 1 .. n : s[i] \in Blocks
    BY <1>1, ElementOfSeq
  <2>2. /\ taken \in Seq(Blocks)
        /\ Len(taken) = IF 1 <= n THEN n - 1 + 1 ELSE 0
        /\ \A i \in 1 .. n - 1 + 1 : taken[i] = s[1 + i - 1]
    BY <1>1, <2>1, SubSeqProperties
  <2> QED
    BY <1>1, <2>2, LenProperties
<1>3. /\ left \in Seq(Blocks) /\ DOMAIN left = 1 .. Len(s) - n
      /\ \A i \in 1 .. Len(s) - n : n + i \in 1 .. Len(s) /\ left[i] = s[n + i]
  <2>1. \A i \in n + 1 .. Len(s) : s[i] \in Blocks
    BY <1>1, ElementOfSeq
  <2>2. /\ left \in Seq(Blocks)
        /\ Len(left) = IF n + 1 <= Len(s) THEN Len(s) - (n + 1) + 1 ELSE 0
        /\ \A i \in 1 .. Len(s) - (n + 1) + 1 : left[i] = s[n + 1 + i - 1]
    BY <1>1, <2>1, SubSeqProperties
  <2>3. Len(left) = Len(s) - n /\ DOMAIN left = 1 .. Len(left)
    BY <1>1, <2>2, LenProperties
  <2>4. \A i \in 1 .. Len(s) - n : left[i] = s[n + i]
    BY <1>1, <2>2
  <2>5. \A i \in 1 .. Len(s) - n : n + i \in 1 .. Len(s)
    BY <1>1
  <2> QED
    BY <2>2, <2>3, <2>4, <2>5
<1> HIDE DEF taken, left
<1>4. IsInjective(taken)
  BY <1>1, <1>2 DEF IsInjective
<1>5. IsInjective(left)
  <2> SUFFICES ASSUME NEW i \in 1 .. Len(s) - n, NEW j \in 1 .. Len(s) - n, left[i] = left[j]
               PROVE  i = j
    BY <1>3 DEF IsInjective
  <2>1. n + i = n + j
    BY <1>1, <1>3 DEF IsInjective
  <2> QED
    BY <1>1, <2>1
<1>6. Range(taken) \subseteq Range(s) /\ Range(left) \subseteq Range(s)
  <2>1. Range(taken) \subseteq Range(s)
    BY <1>1, <1>2 DEF Range
  <2>2. Range(left) \subseteq Range(s)
    BY <1>1, <1>3 DEF Range
  <2> QED
    BY <2>1, <2>2
<1>7. ASSUME NEW m \in 1 .. Len(s)
      PROVE  s[m] \in Range(taken) \cup Range(left)
  <2>1. CASE m <= n
    <3>1. m \in 1 .. n
      BY <1>1, <2>1
    <3> QED
      BY <1>2, <3>1 DEF Range
  <2>2. CASE m > n
    <3>1. m - n \in 1 .. Len(s) - n /\ n + (m - n) = m
      BY <1>1, <2>2
    <3>2. left[m - n] = s[m]
      BY <1>3, <3>1
    <3> QED
      BY <1>3, <3>1, <3>2 DEF Range
  <2> QED
    BY <1>1, <2>1, <2>2
<1>8. Range(taken) \cup Range(left) = Range(s)
  BY <1>1, <1>6, <1>7 DEF Range
<1>9. ASSUME NEW i \in 1 .. n, NEW j \in 1 .. Len(s) - n, taken[i] = left[j]
      PROVE  FALSE
  <2>1. i = n + j
    <3>1. i \in 1 .. Len(s) /\ n + j \in 1 .. Len(s) /\ s[i] = s[n + j]
      BY <1>2, <1>3, <1>9
    <3> QED
      BY <1>1, <3>1 DEF IsInjective
  <2> QED
    BY <1>1, <2>1
<1>10. Range(taken) \cap Range(left) = {}
  BY <1>2, <1>3, <1>9 DEF Range
<1> QED
  BY <1>2, <1>3, <1>4, <1>5, <1>8, <1>10 DEF taken, left

----------------------------------------------------------------------------
\* Eviction takes blocks that only the cache owns, so whatever ensure_capacity
\* allocates has no reader and no entry, whether or not it goes on to succeed.
LEMMA EvictAndAllocatePreservesPoolInv ==
  ASSUME PoolInv, NEW r \in Requests, NEW n \in Nat, NEW victims \in [1 .. n -> Evictable],
         \A i, j \in 1 .. n : i < j => last_used[victims[i]] < last_used[victims[j]],
         NEW taken \in 0 .. Len(free_block_ids) + n,
         EvictAndAllocate(r, victims, n, taken),
         status' \in [Requests -> SequenceStatus]
  PROVE  PoolInv'
<1> DEFINE evicted == EvictedBlocks(victims, n)
           pool == free_block_ids \o evicted
           allocated == SubSeq(pool, 1, taken)
           table == block_table[r]
<1>0. /\ TypeOK /\ RefCountsOwners /\ FreeListExact /\ NoAliasing /\ LiveIffHolding
      /\ SharedBlocksAgree /\ CacheCoherent
  BY DEF PoolInv
<1>1. /\ prefix_cache' = [k \in PrefixKeys |->
           IF k \in Range(victims) THEN NoBlock ELSE prefix_cache[k]]
      /\ last_used' = [k \in PrefixKeys |->
           IF k \in Range(victims) THEN 0 ELSE last_used[k]]
      /\ free_block_ids' = SubSeq(pool, taken + 1, Len(pool))
      /\ ref_count' = [b \in Blocks |->
           IF b \in Range(allocated) THEN 1
           ELSE IF b \in Range(evicted) THEN ref_count[b] - 1
           ELSE ref_count[b]]
      /\ block_table' = [block_table EXCEPT ![r] = @ \o allocated]
      /\ BecomesLive(r, taken)
      /\ UNCHANGED <<num_tokens, num_computed_tokens, cache_clock>>
  BY DEF EvictAndAllocate
<1>2. \A i \in 1 .. n : /\ victims[i] \in PrefixKeys /\ IsCached(victims[i])
                        /\ evicted[i] = prefix_cache[victims[i]]
                        /\ evicted[i] \in Blocks /\ ref_count[evicted[i]] = 1
                        /\ evicted[i] \in CachedBlocks /\ Holders(evicted[i]) = {}
  BY <1>0, EvictableFacts DEF EvictedBlocks
<1>3. \A i, j \in 1 .. n : victims[i] = victims[j] => i = j
  <2> SUFFICES ASSUME NEW i \in 1 .. n, NEW j \in 1 .. n, i # j
               PROVE  victims[i] # victims[j]
    OBVIOUS
  <2>1. last_used[victims[i]] \in Nat /\ last_used[victims[j]] \in Nat
    BY <1>0, <1>2 DEF TypeOK
  <2>2. i < j \/ j < i
    OBVIOUS
  <2> QED
    BY <2>1, <2>2
<1>4. /\ evicted \in Seq(Blocks) /\ DOMAIN evicted = 1 .. n /\ Len(evicted) = n
      /\ IsInjective(evicted)
  <2>1. evicted \in [1 .. n -> Blocks]
    BY <1>2 DEF EvictedBlocks
  <2>2. evicted \in Seq(Blocks)
    BY <2>1, SeqDef
  <2>3. Len(evicted) = n
    BY <2>1, <2>2, LenProperties
  <2>4. \A i, j \in 1 .. n : evicted[i] = evicted[j] => i = j
    BY <1>0, <1>2, <1>3 DEF NoAliasing
  <2> QED
    BY <2>1, <2>2, <2>3, <2>4 DEF IsInjective
<1> HIDE DEF evicted
<1>5. \A b \in Range(evicted) :
        /\ b \in Blocks /\ ref_count[b] = 1 /\ b \in CachedBlocks /\ Holders(b) = {}
  BY <1>2, <1>4 DEF Range
<1>6. \A b \in Range(free_block_ids) :
        /\ b \in Blocks /\ ref_count[b] = 0 /\ b \notin CachedBlocks /\ Holders(b) = {}
  BY <1>0, OwnersFacts DEF FreeListExact
<1>7. /\ pool \in Seq(Blocks) /\ Len(pool) = Len(free_block_ids) + n
      /\ Range(pool) = Range(free_block_ids) \cup Range(evicted)
      /\ IsInjective(pool)
  <2>1. Range(free_block_ids) \cap Range(evicted) = {}
    BY <1>5, <1>6
  <2> QED
    BY <1>0, <1>4, <2>1, AppendBlocks DEF TypeOK, FreeListExact
<1> HIDE DEF pool
<1>8. /\ allocated \in Seq(Blocks) /\ Len(allocated) = taken
      /\ IsInjective(allocated)
      /\ free_block_ids' \in Seq(Blocks) /\ IsInjective(free_block_ids')
      /\ Range(allocated) \cup Range(free_block_ids') = Range(pool)
      /\ Range(allocated) \cap Range(free_block_ids') = {}
  BY <1>1, <1>7, SplitBlocks
<1> HIDE DEF allocated
<1>9. \A b \in Range(allocated) : b \in Blocks /\ Holders(b) = {}
  BY <1>5, <1>6, <1>7, <1>8
<1>10. /\ table \in Seq(Blocks) /\ Len(table) \in Nat /\ DOMAIN table = 1 .. Len(table)
       /\ IsInjective(table)
       /\ \A b \in Range(table) : r \in Holders(b)
  BY <1>0, TableFacts DEF NoAliasing, Range
<1>11. /\ table \o allocated \in Seq(Blocks)
       /\ Len(table \o allocated) = Len(table) + taken
       /\ Range(table \o allocated) = Range(table) \cup Range(allocated)
       /\ IsInjective(table \o allocated)
  <2>1. Range(table) \cap Range(allocated) = {}
    BY <1>9, <1>10
  <2> QED
    BY <1>8, <1>10, <2>1, AppendBlocks
<1>12. \A i \in DOMAIN (table \o allocated) :
         \/ i \in DOMAIN table /\ (table \o allocated)[i] = table[i]
         \/ (table \o allocated)[i] \in Range(allocated)
  <2> SUFFICES ASSUME NEW i \in 1 .. Len(table) + taken
               PROVE  \/ i \in DOMAIN table /\ (table \o allocated)[i] = table[i]
                      \/ (table \o allocated)[i] \in Range(allocated)
    BY <1>11, LenProperties
  <2>1. (table \o allocated)[i] =
          IF i <= Len(table) THEN table[i] ELSE allocated[i - Len(table)]
    BY <1>8, <1>10, ConcatProperties
  <2>2. CASE i <= Len(table)
    BY <1>10, <2>1, <2>2
  <2>3. CASE i > Len(table)
    <3>1. i - Len(table) \in 1 .. taken /\ DOMAIN allocated = 1 .. taken
      BY <1>8, <1>10, <2>3, LenProperties
    <3> QED
      BY <1>10, <2>1, <2>3, <3>1 DEF Range
  <2>4. i <= Len(table) \/ i > Len(table)
    BY <1>10
  <2> QED
    BY <2>2, <2>3, <2>4
<1>13. \A q \in Requests :
         block_table'[q] = IF q = r THEN table \o allocated ELSE block_table[q]
  BY <1>0, <1>1 DEF TypeOK
<1>14. \A b : Holders(b)' = IF b \in Range(allocated) THEN {r} ELSE Holders(b)
  <2> TAKE b
  <2>1. Holders(b)' = IF b \in Range(table \o allocated) THEN Holders(b) \cup {r}
                                                         ELSE Holders(b) \ {r}
    BY <1>0, <1>1, HoldersUpdate DEF TypeOK
  <2>2. b \in Range(table) <=> r \in Holders(b)
    BY <1>10 DEF Holders
  <2> QED
    BY <1>9, <1>11, <2>1, <2>2
<1>15. /\ \A k \in PrefixKeys : IsCached(k)' <=> IsCached(k) /\ k \notin Range(victims)
       /\ \A k \in PrefixKeys : IsCached(k)' => prefix_cache'[k] = prefix_cache[k]
       /\ CachedBlocks' = CachedBlocks \ Range(evicted)
  <2>1. \A k \in PrefixKeys : IsCached(k)' <=> IsCached(k) /\ k \notin Range(victims)
    BY <1>1 DEF IsCached
  <2>2. \A k \in PrefixKeys : IsCached(k)' => prefix_cache'[k] = prefix_cache[k]
    BY <1>1, <2>1
  <2>3. \A k \in PrefixKeys : IsCached(k) =>
          (k \in Range(victims) <=> prefix_cache[k] \in Range(evicted))
    BY <1>0, <1>2, <1>4 DEF NoAliasing, Range
  <2>4. CachedBlocks' = {prefix_cache'[k] : k \in {key \in PrefixKeys : IsCached(key)'}}
    BY DEF CachedBlocks
  <2>5. CachedBlocks' \subseteq CachedBlocks \ Range(evicted)
    BY <2>1, <2>2, <2>3, <2>4 DEF CachedBlocks
  <2>6. ASSUME NEW k \in PrefixKeys, IsCached(k), prefix_cache[k] \notin Range(evicted)
        PROVE  prefix_cache[k] \in CachedBlocks'
    BY <2>1, <2>2, <2>3, <2>4, <2>6
  <2>7. CachedBlocks \ Range(evicted) \subseteq CachedBlocks'
    BY <2>6 DEF CachedBlocks
  <2> QED
    BY <2>1, <2>2, <2>5, <2>7
<1>16. \A b \in Range(allocated) : b \notin CachedBlocks'
  BY <1>5, <1>6, <1>7, <1>8, <1>15
<1>17. TypeOK'
  <2>1. ref_count' \in [Blocks -> Nat]
    BY <1>0, <1>1, <1>5 DEF TypeOK
  <2>2. block_table' \in [Requests -> Seq(Blocks)]
    BY <1>0, <1>1, <1>11 DEF TypeOK
  <2>3. live_sequences' \in SUBSET Requests
    BY <1>0, <1>1 DEF TypeOK, BecomesLive
  <2>4. prefix_cache' \in [PrefixKeys -> Blocks \cup {NoBlock}] /\ last_used' \in [PrefixKeys -> Nat]
    BY <1>0, <1>1 DEF TypeOK
  <2> QED
    BY <1>0, <1>1, <1>8, <2>1, <2>2, <2>3, <2>4 DEF TypeOK
<1>18. RefCountsOwners'
  <2> SUFFICES ASSUME NEW b \in Blocks
               PROVE  ref_count'[b] = Cardinality(Holders(b)')
                                      + (IF b \in CachedBlocks' THEN 1 ELSE 0)
    BY DEF RefCountsOwners
  <2>1. /\ Cardinality(Holders(b)) \in Nat
        /\ ref_count[b] = Cardinality(Holders(b)) + (IF b \in CachedBlocks THEN 1 ELSE 0)
    BY <1>0, HoldersFinite DEF RefCountsOwners
  <2>2. CASE b \in Range(allocated)
    <3>1. Holders(b)' = {r} /\ b \notin CachedBlocks' /\ ref_count'[b] = 1
      BY <1>1, <1>14, <1>16, <2>2
    <3>2. Cardinality({r}) = 1
      BY FS_Singleton
    <3> QED
      BY <3>1, <3>2
  <2>3. CASE b \notin Range(allocated) /\ b \in Range(evicted)
    <3>1. Holders(b)' = {} /\ b \notin CachedBlocks' /\ ref_count'[b] = 0
      BY <1>1, <1>5, <1>14, <1>15, <2>3
    <3> QED
      BY <3>1, FS_EmptySet
  <2>4. CASE b \notin Range(allocated) /\ b \notin Range(evicted)
    BY <1>1, <1>14, <1>15, <2>1, <2>4
  <2> QED
    BY <2>2, <2>3, <2>4
<1>19. FreeListExact'
  <2>1. ASSUME NEW b \in Blocks
        PROVE  ref_count'[b] = 0 <=> b \in Range(free_block_ids')
    <3>1. ref_count[b] = 0 <=> b \in Range(free_block_ids)
      BY <1>0 DEF FreeListExact
    <3>2. b \in Range(free_block_ids') <=> b \in Range(pool) /\ b \notin Range(allocated)
      BY <1>8
    <3> QED
      BY <1>1, <1>5, <1>7, <1>8, <3>1, <3>2
  <2>2. Range(free_block_ids') \subseteq Blocks
    BY <1>5, <1>6, <1>7, <1>8
  <2> QED
    BY <1>8, <2>1, <2>2 DEF FreeListExact
<1>20. NoAliasing'
  <2>1. \A q \in Requests : IsInjective(block_table'[q])
    BY <1>0, <1>11, <1>13 DEF NoAliasing
  <2>2. ASSUME NEW k1 \in PrefixKeys, NEW k2 \in PrefixKeys, IsCached(k1)',
               prefix_cache'[k1] = prefix_cache'[k2]
        PROVE  k1 = k2
    <3>1. IsCached(k2)'
      BY <2>2 DEF IsCached
    <3> QED
      BY <1>0, <1>15, <2>2, <3>1 DEF NoAliasing
  <2> QED
    BY <2>1, <2>2 DEF NoAliasing
<1>21. LiveIffHolding'
  <2>1. CASE taken = 0
    <3>1. allocated = << >>
      BY <1>8, <2>1, EmptySeq
    <3>2. table \o allocated = table
      BY <1>10, <3>1, ConcatEmptySeq
    <3> QED
      BY <1>0, <1>1, <1>13, <2>1, <3>2 DEF LiveIffHolding, BecomesLive
  <2>2. CASE taken > 0
    <3>1. table \o allocated # << >>
      <4>1. Len(table \o allocated) # 0
        BY <1>10, <1>11, <2>2
      <4> QED
        BY <4>1
    <3>2. live_sequences' = live_sequences \cup {r}
      BY <1>1, <2>2 DEF BecomesLive
    <3>3. \A q \in Requests : block_table'[q] # << >> <=> q = r \/ block_table[q] # << >>
      BY <1>13, <3>1
    <3> QED
      BY <1>0, <3>2, <3>3 DEF LiveIffHolding
  <2>3. taken \in Nat
    OBVIOUS
  <2> QED
    BY <2>1, <2>2, <2>3
<1>22. SharedBlocksAgree'
  <2>1. \A q \in Requests : \A i : FullyComputed(q, i)' <=> FullyComputed(q, i)
    BY <1>1 DEF FullyComputed
  <2>2. ASSUME NEW q \in Requests \ {r},
               NEW i \in DOMAIN (table \o allocated), NEW j \in DOMAIN block_table[q],
               (table \o allocated)[i] = block_table[q][j]
        PROVE  /\ i = j
               /\ i <= CacheableBlocks(r) /\ i <= CacheableBlocks(q)
               /\ SameTokens(r, q, i)
               /\ FullyComputed(r, i) /\ FullyComputed(q, i)
    <3>1. q \in Holders(block_table[q][j])
      BY <1>0, TableFacts
    <3>2. (table \o allocated)[i] \notin Range(allocated)
      BY <1>9, <2>2, <3>1
    <3>3. i \in DOMAIN table /\ table[i] = block_table[q][j]
      BY <1>12, <2>2, <3>2
    <3> QED
      BY <1>0, <3>3 DEF SharedBlocksAgree
  <2> QED
    BY <1>0, <1>1, <1>13, <2>1, <2>2, SharedBlocksUpdate
<1>23. CacheCoherent'
  <2>1. \A q \in Requests : \A i : FullyComputed(q, i)' <=> FullyComputed(q, i)
    BY <1>1 DEF FullyComputed
  <2> SUFFICES ASSUME NEW k \in PrefixKeys, NEW q \in Requests, IsCached(k)',
                      NEW i \in DOMAIN block_table'[q],
                      block_table'[q][i] = prefix_cache'[k]
               PROVE  i <= CacheableBlocks(q) /\ k = PrefixKey(q, i) /\ FullyComputed(q, i)
    BY <2>1 DEF CacheCoherent
  <2>2. prefix_cache'[k] = prefix_cache[k] /\ IsCached(k) /\ prefix_cache'[k] \in CachedBlocks'
    BY <1>15 DEF CachedBlocks
  <2>3. i \in DOMAIN block_table[q] /\ block_table[q][i] = prefix_cache[k]
    BY <1>12, <1>13, <1>16, <2>2
  <2> QED
    BY <1>0, <2>2, <2>3 DEF CacheCoherent
<1> QED
  BY <1>17, <1>18, <1>19, <1>20, <1>21, <1>22, <1>23 DEF PoolInv

----------------------------------------------------------------------------
(***************************************************************************)
(* What a reservation does to the tables.                                  *)
(***************************************************************************)

\* A reservation wants a natural number of blocks more.
LEMMA AdditionalBlocksNat ==
  ASSUME TypeOK, NEW r \in Requests, NEW tokens \in Nat
  PROVE  AdditionalBlocks(r, tokens) \in Nat
<1>1. tokens + BlockSize - 1 \in Nat
  BY BlockManagerAssumption
<1>2. BlocksNeeded(tokens) \in Nat
  BY <1>1, BlocksFit DEF BlocksNeeded
<1> QED
  BY <1>2, TableFacts DEF AdditionalBlocks

LEMMA BlocksNeededNat ==
  ASSUME NEW n \in Nat
  PROVE  BlocksNeeded(n) \in Nat
  BY BlockManagerAssumption, BlocksFit DEF BlocksNeeded

LEMMA BlocksNeededFacts ==
  ASSUME NEW m \in Nat, NEW n \in Nat, m <= n
  PROVE  /\ BlocksNeeded(m) \in Nat /\ BlocksNeeded(n) \in Nat
         /\ BlocksNeeded(m) <= BlocksNeeded(n)
         /\ \A k \in Nat : k * BlockSize <= n => k <= BlocksNeeded(n)
<1>1. BlocksNeeded(m) \in Nat /\ BlocksNeeded(n) \in Nat
  BY BlocksNeededNat
<1>2. \A k \in Nat : k * BlockSize <= n => k <= BlocksNeeded(n)
  <2> SUFFICES ASSUME NEW k \in Nat, k * BlockSize <= n
               PROVE  k <= (n + BlockSize - 1) \div BlockSize
    BY DEF BlocksNeeded
  <2>1. n + BlockSize - 1 \in Nat /\ k * BlockSize \in Nat
    BY BlockManagerAssumption
  <2>2. k * BlockSize <= n + BlockSize - 1
    BY <2>1, BlockManagerAssumption
  <2> QED
    BY <2>1, <2>2, BlocksFit
<1>3. BlocksNeeded(m) <= BlocksNeeded(n)
  <2>1. m + BlockSize - 1 \in Nat /\ n + BlockSize - 1 \in Nat
        /\ m + BlockSize - 1 <= n + BlockSize - 1
    BY BlockManagerAssumption
  <2>2. BlocksNeeded(m) * BlockSize <= m + BlockSize - 1
    BY <1>1, <2>1, BlocksFit DEF BlocksNeeded
  <2>3. BlocksNeeded(m) * BlockSize \in Nat
    BY <1>1, BlockManagerAssumption
  <2>4. BlocksNeeded(m) * BlockSize <= n + BlockSize - 1
    BY <2>1, <2>2, <2>3
  <2> QED
    BY <1>1, <2>1, <2>4, BlocksFit DEF BlocksNeeded
<1> QED
  BY <1>1, <1>2, <1>3

\* Rounding up: the blocks needed for some tokens hold them.
LEMMA BlocksNeededHold ==
  ASSUME NEW tokens \in Nat, NEW blocks \in Nat, BlocksNeeded(tokens) <= blocks
  PROVE  tokens <= blocks * BlockSize
  BY BlockManagerAssumption, SMT DEF BlocksNeeded

\* Appending blocks to one table shortens none.
LEMMA AppendLengthens ==
  ASSUME TypeOK, NEW r \in Requests, NEW blocks \in Seq(Blocks),
         block_table' = [block_table EXCEPT ![r] = @ \o blocks]
  PROVE  /\ \A q \in Requests : Len(block_table[q]) <= Len(block_table'[q])
         /\ \A q \in Requests : q # r => block_table'[q] = block_table[q]
         /\ Len(block_table'[r]) = Len(block_table[r]) + Len(blocks)
<1>1. block_table'[r] = block_table[r] \o blocks
  BY DEF TypeOK
<1>2. block_table[r] \in Seq(Blocks) /\ Len(block_table[r]) \in Nat /\ Len(blocks) \in Nat
  BY TableFacts, LenProperties
<1>3. Len(block_table'[r]) = Len(block_table[r]) + Len(blocks)
  BY <1>1, <1>2, ConcatProperties
<1>4. \A q \in Requests : q # r => block_table'[q] = block_table[q]
  BY DEF TypeOK
<1> QED
  BY <1>2, <1>3, <1>4, TableFacts

\* An eviction with an allocation appends the allocated blocks and nothing else.
LEMMA AllocationLengthens ==
  ASSUME TypeOK, NEW r \in Requests, NEW n \in Nat,
         NEW victims \in [1 .. n -> Evictable],
         NEW taken \in 0 .. Len(free_block_ids) + n,
         RefCountsOwners, EvictAndAllocate(r, victims, n, taken)
  PROVE  /\ UNCHANGED <<num_tokens, num_computed_tokens>>
         /\ \A q \in Requests : Len(block_table[q]) <= Len(block_table'[q])
         /\ \A q \in Requests : q # r => block_table'[q] = block_table[q]
         /\ Len(block_table'[r]) = Len(block_table[r]) + taken
<1> DEFINE evicted == EvictedBlocks(victims, n)
           pool == free_block_ids \o evicted
           allocated == SubSeq(pool, 1, taken)
<1>1. /\ block_table' = [block_table EXCEPT ![r] = @ \o allocated]
      /\ UNCHANGED <<num_tokens, num_computed_tokens>>
  BY DEF EvictAndAllocate
<1>2. evicted \in [1 .. n -> Blocks]
  BY EvictableFacts DEF EvictedBlocks
<1>3. evicted \in Seq(Blocks) /\ Len(evicted) = n
  BY <1>2, SeqDef, LenProperties
<1> HIDE DEF evicted
<1>4. pool \in Seq(Blocks) /\ Len(pool) = Len(free_block_ids) + n
      /\ Len(free_block_ids) \in Nat
  <2>1. free_block_ids \in Seq(Blocks)
    BY DEF TypeOK
  <2> QED
    BY <1>3, <2>1, AppendBlocks, LenProperties
<1> HIDE DEF pool
<1>5. \A i \in 1 .. taken : pool[i] \in Blocks
  BY <1>4, ElementOfSeq
<1>6. allocated \in Seq(Blocks) /\ Len(allocated) = taken
  BY <1>4, <1>5, SubSeqProperties
<1> QED
  BY <1>1, <1>6, AppendLengthens

\* A successful reservation leaves room for all the tokens it was asked for, and takes
\* no block more.
LEMMA SuccessMakesRoom ==
  ASSUME PoolInv, NEW r \in Requests, NEW tokens \in Nat,
         EnsureCapacitySucceeds(r, tokens)
  PROVE  /\ UNCHANGED <<num_tokens, num_computed_tokens>>
         /\ \A q \in Requests : Len(block_table[q]) <= Len(block_table'[q])
         /\ tokens <= Len(block_table'[r]) * BlockSize
         /\ \A q \in Requests : q # r => block_table'[q] = block_table[q]
         /\ \/ Len(block_table'[r]) = Len(block_table[r])
            \/ Len(block_table'[r]) = BlocksNeeded(tokens)
<1> DEFINE additional == AdditionalBlocks(r, tokens)
<1>1. TypeOK /\ RefCountsOwners
  BY DEF PoolInv
<1>2. additional \in Nat /\ Len(free_block_ids) \in Nat /\ Len(block_table[r]) \in Nat
  BY <1>1, AdditionalBlocksNat, TableFacts DEF TypeOK
<1>3. PICK n \in 0 .. additional : \E victims \in [1 .. n -> Evictable] :
        /\ additional <= Len(free_block_ids) + n
        /\ EvictAndAllocate(r, victims, n, additional)
  BY DEF EnsureCapacitySucceeds
<1>4. /\ BlocksNeeded(tokens) <= Len(block_table[r]) + additional
      /\ additional = 0 \/ Len(block_table[r]) + additional = BlocksNeeded(tokens)
  <2>1. BlocksNeeded(tokens) \in Int
    BY BlockManagerAssumption, SMT DEF BlocksNeeded
  <2> QED
    BY <1>2, <2>1 DEF AdditionalBlocks
<1> HIDE DEF additional
<1>5. n \in Nat /\ additional \in 0 .. Len(free_block_ids) + n
  BY <1>2, <1>3
<1>6. /\ UNCHANGED <<num_tokens, num_computed_tokens>>
      /\ \A q \in Requests : Len(block_table[q]) <= Len(block_table'[q])
      /\ \A q \in Requests : q # r => block_table'[q] = block_table[q]
      /\ Len(block_table'[r]) = Len(block_table[r]) + additional
  BY <1>1, <1>3, <1>5, AllocationLengthens
<1>7. tokens <= Len(block_table'[r]) * BlockSize
  <2>1. BlocksNeeded(tokens) <= Len(block_table'[r]) /\ Len(block_table'[r]) \in Nat
    BY <1>2, <1>4, <1>6
  <2> QED
    BY <2>1, BlocksNeededHold
<1> QED
  BY <1>2, <1>4, <1>6, <1>7

\* The first reservation of a sequence takes exactly the blocks it asked for.
LEMMA FirstReservation ==
  ASSUME PoolInv, NEW r \in Requests, NEW tokens \in Nat \ {0},
         Len(block_table[r]) = 0, EnsureCapacitySucceeds(r, tokens)
  PROVE  Len(block_table'[r]) = BlocksNeeded(tokens)
<1>1. /\ tokens <= Len(block_table'[r]) * BlockSize
      /\ \/ Len(block_table'[r]) = Len(block_table[r])
         \/ Len(block_table'[r]) = BlocksNeeded(tokens)
  BY SuccessMakesRoom
<1>2. Len(block_table'[r]) # 0
  BY <1>1, BlockManagerAssumption
<1> QED
  BY <1>1, <1>2

\* A failed one allocates nothing.
LEMMA FailureKeepsTables ==
  ASSUME PoolInv, NEW r \in Requests, NEW tokens \in Nat,
         EnsureCapacityFails(r, tokens)
  PROVE  /\ UNCHANGED <<num_tokens, num_computed_tokens>>
         /\ \A q \in Requests : Len(block_table'[q]) = Len(block_table[q])
<1> DEFINE additional == AdditionalBlocks(r, tokens)
<1>1. TypeOK /\ RefCountsOwners
  BY DEF PoolInv
<1>2. additional \in Nat /\ Len(free_block_ids) \in Nat
  BY <1>1, AdditionalBlocksNat DEF TypeOK
<1>3. PICK n \in 0 .. additional : \E victims \in [1 .. n -> Evictable] :
        EvictAndAllocate(r, victims, n, 0)
  BY DEF EnsureCapacityFails
<1> HIDE DEF additional
<1>4. n \in Nat /\ 0 \in 0 .. Len(free_block_ids) + n
  BY <1>2, <1>3
<1>5. /\ UNCHANGED <<num_tokens, num_computed_tokens>>
      /\ \A q \in Requests : q # r => block_table'[q] = block_table[q]
      /\ Len(block_table'[r]) = Len(block_table[r]) + 0
  BY <1>1, <1>3, <1>4, AllocationLengthens
<1> QED
  BY <1>1, <1>5, TableFacts

\* What a lookup does to the table of r.
LEMMA LookupTables ==
  ASSUME PoolInv, NEW r \in Requests, ApplyPrefixCache(r)
  PROVE  \E hits \in 0 .. CacheableBlocks(r) :
           /\ Len(block_table'[r]) = Len(block_table[r]) + hits
           /\ num_computed_tokens'[r] = num_computed_tokens[r] + hits * BlockSize
           /\ \A j \in 1 .. hits :
                /\ IsCached(PrefixKey(r, j))
                /\ block_table'[r][Len(block_table[r]) + j] = prefix_cache[PrefixKey(r, j)]
           /\ hits = 0 \/ (block_table[r] = << >> /\ num_computed_tokens[r] = 0)
<1>1. TypeOK /\ CacheableBlocks(r) \in Nat
  BY PrefixKeyFacts DEF PoolInv
<1>2. PICK hits \in 0 .. CacheableBlocks(r) :
        /\ PrefixHits(r, hits)
        /\ block_table' = [block_table EXCEPT ![r] =
             @ \o [i \in 1 .. hits |-> prefix_cache[PrefixKey(r, i)]]]
        /\ num_computed_tokens' = [num_computed_tokens EXCEPT ![r] = @ + hits * BlockSize]
  BY DEF ApplyPrefixCache
<1> DEFINE shared == [i \in 1 .. hits |-> prefix_cache[PrefixKey(r, i)]]
<1>3. \A i \in 1 .. hits : i \in 1 .. CacheableBlocks(r) /\ IsCached(PrefixKey(r, i))
  BY <1>1, <1>2 DEF PrefixHits
<1>4. \A i \in 1 .. hits : prefix_cache[PrefixKey(r, i)] \in Blocks
  BY <1>1, <1>3, PrefixKeyFacts DEF TypeOK, IsCached
<1>5. shared \in [1 .. hits -> Blocks] /\ hits \in Nat
  BY <1>1, <1>4
<1>6. shared \in Seq(Blocks) /\ Len(shared) = hits
  BY <1>5, SeqDef, LenProperties
<1>7. \A i \in 1 .. hits : shared[i] = prefix_cache[PrefixKey(r, i)]
  OBVIOUS
<1> HIDE DEF shared
<1>8. /\ block_table'[r] = block_table[r] \o shared
      /\ num_computed_tokens'[r] = num_computed_tokens[r] + hits * BlockSize
  BY <1>1, <1>2 DEF TypeOK, shared
<1>9. block_table[r] \in Seq(Blocks) /\ Len(block_table[r]) \in Nat
  BY <1>1, TableFacts
<1>10. /\ Len(block_table'[r]) = Len(block_table[r]) + hits
       /\ \A i \in 1 .. Len(block_table[r]) + hits : block_table'[r][i] =
            IF i <= Len(block_table[r]) THEN block_table[r][i]
            ELSE shared[i - Len(block_table[r])]
  <2> DEFINE table == block_table[r]
  <2>1. table \in Seq(Blocks) /\ Len(shared) = hits /\ block_table'[r] = table \o shared
    BY <1>6, <1>8, <1>9
  <2> HIDE DEF table
  <2>2. /\ Len(table \o shared) = Len(table) + Len(shared)
        /\ \A i \in 1 .. Len(table) + Len(shared) : (table \o shared)[i] =
             IF i <= Len(table) THEN table[i] ELSE shared[i - Len(table)]
    BY <1>6, <2>1, ConcatProperties
  <2>3. /\ Len(block_table'[r]) = Len(table) + hits
        /\ \A i \in 1 .. Len(table) + hits : block_table'[r][i] =
             IF i <= Len(table) THEN table[i] ELSE shared[i - Len(table)]
    BY <2>1, <2>2
  <2> QED
    BY <2>3 DEF table
<1>11. ASSUME NEW j \in 1 .. hits
       PROVE  block_table'[r][Len(block_table[r]) + j] = prefix_cache[PrefixKey(r, j)]
  <2>1. PICK k \in 1 .. Len(block_table[r]) + hits : k = Len(block_table[r]) + j
    BY <1>5, <1>9
  <2>2. ~ (k <= Len(block_table[r])) /\ k - Len(block_table[r]) = j
    BY <1>5, <1>9, <2>1
  <2>3. block_table'[r][k] = shared[k - Len(block_table[r])]
    BY <1>10, <2>2
  <2>4. block_table'[r][k] = shared[j]
    BY <2>2, <2>3
  <2> QED
    BY <1>7, <2>1, <2>4
<1>12. hits = 0 \/ (block_table[r] = << >> /\ num_computed_tokens[r] = 0)
  BY <1>2 DEF PrefixHits
<1> QED
  BY <1>3, <1>8, <1>10, <1>11, <1>12

----------------------------------------------------------------------------
(***************************************************************************)
(* The invariant, and what follows from it.                                *)
(***************************************************************************)

\* A reservation, successful or not, is an eviction with an allocation.
LEMMA EnsureCapacityIsEvictAndAllocate ==
  ASSUME TypeOK, NEW r \in Requests, NEW tokens \in Nat,
         EnsureCapacitySucceeds(r, tokens) \/ EnsureCapacityFails(r, tokens)
  PROVE  \E n \in Nat : \E victims \in [1 .. n -> Evictable] :
           \E taken \in 0 .. Len(free_block_ids) + n :
             /\ \A i, j \in 1 .. n : i < j => last_used[victims[i]] < last_used[victims[j]]
             /\ EvictAndAllocate(r, victims, n, taken)
<1> DEFINE additional == AdditionalBlocks(r, tokens)
<1>1. additional \in Nat
  BY AdditionalBlocksNat
<1>2. Len(free_block_ids) \in Nat
  BY DEF TypeOK
<1> HIDE DEF additional
<1>3. CASE EnsureCapacitySucceeds(r, tokens)
  <2>1. PICK n \in 0 .. additional : \E victims \in [1 .. n -> Evictable] :
          /\ EvictionOrder(victims, n, additional)
          /\ additional <= Len(free_block_ids) + n
          /\ EvictAndAllocate(r, victims, n, additional)
    BY <1>3 DEF EnsureCapacitySucceeds, additional
  <2>2. n \in Nat /\ additional \in 0 .. Len(free_block_ids) + n
    BY <1>1, <1>2, <2>1
  <2> QED
    BY <2>1, <2>2 DEF EvictionOrder
<1>4. CASE EnsureCapacityFails(r, tokens)
  <2>1. PICK n \in 0 .. additional : \E victims \in [1 .. n -> Evictable] :
          /\ EvictionOrder(victims, n, additional)
          /\ EvictAndAllocate(r, victims, n, 0)
    BY <1>4 DEF EnsureCapacityFails, additional
  <2>2. n \in Nat /\ 0 \in 0 .. Len(free_block_ids) + n
    BY <1>1, <1>2, <2>1
  <2> QED
    BY <2>1, <2>2 DEF EvictionOrder
<1> QED
  BY <1>3, <1>4

\* Reserving keeps the invariant even when it fails half-way, whatever the caller
\* makes of the statuses.
LEMMA EnsureCapacityPreservesPoolInv ==
  ASSUME PoolInv, NEW r \in Requests, NEW tokens \in Nat,
         EnsureCapacitySucceeds(r, tokens) \/ EnsureCapacityFails(r, tokens),
         status' \in [Requests -> SequenceStatus]
  PROVE  PoolInv'
<1>1. TypeOK
  BY DEF PoolInv
<1>2. \E n \in Nat : \E victims \in [1 .. n -> Evictable] :
        \E taken \in 0 .. Len(free_block_ids) + n :
          /\ \A i, j \in 1 .. n : i < j => last_used[victims[i]] < last_used[victims[j]]
          /\ EvictAndAllocate(r, victims, n, taken)
  BY <1>1, EnsureCapacityIsEvictAndAllocate
<1> QED
  BY <1>2, EvictAndAllocatePreservesPoolInv

LEMMA ReservePreservesPoolInv ==
  ASSUME PoolInv, NEW r \in Requests, NEW tokens \in Nat, Reserve(r, tokens)
  PROVE  PoolInv'
<1>1. status' \in [Requests -> SequenceStatus]
  BY DEF PoolInv, TypeOK, Reserve, SetStatus, SequenceStatus
<1> QED
  BY <1>1, EnsureCapacityPreservesPoolInv DEF Reserve

\* Every step of every client preserves the invariant.
LEMMA PoolInvInductive ==
  ASSUME PoolInv, [BMNext]_bm_vars
  PROVE  PoolInv'
<1>1. \A r \in Requests : num_tokens[r] \in Nat
  BY DEF PoolInv, TypeOK
<1>2. ASSUME NEW r \in Requests, TryApplyPrefixCache(r)
      PROVE  PoolInv'
  BY <1>2, ApplyPreservesPoolInv DEF TryApplyPrefixCache
<1>3. ASSUME NEW r \in Requests, NEW tokens \in 1 .. num_tokens[r], Reserve(r, tokens)
      PROVE  PoolInv'
  BY <1>1, <1>3, ReservePreservesPoolInv
<1>4. ASSUME NEW r \in Requests, NEW count \in 1 .. PendingTokens(r), Compute(r, count)
      PROVE  PoolInv'
  BY <1>4, ComputePreservesPoolInv
<1>5. ASSUME NEW r \in Requests, NEW eos \in BOOLEAN, Generate(r, eos)
      PROVE  PoolInv'
  BY <1>5, GeneratePreservesPoolInv
<1>6. ASSUME NEW r \in Requests, Retire(r)
      PROVE  PoolInv'
  BY <1>6, ReleasePreservesPoolInv DEF Retire
<1>7. CASE ClearPrefixCache
  BY <1>7, ClearPreservesPoolInv
<1>8. CASE UNCHANGED bm_vars
  BY <1>8, PoolInvFrame DEF bm_vars, pool_vars, PoolInv, TypeOK
<1> QED
  BY <1>2, <1>3, <1>4, <1>5, <1>6, <1>7, <1>8 DEF BMNext

\* In every reachable state of every client, the whole invariant holds.
THEOREM PoolInvariant == BMSpec => []PoolInv
<1>1. BMInit => PoolInv
  BY PoolInvInit
<1>2. PoolInv /\ [BMNext]_bm_vars => PoolInv'
  BY PoolInvInductive
<1> QED
  BY <1>1, <1>2, PTL DEF BMSpec

\* The state of the pool and of its sequences is always well typed.
THEOREM TypeCorrectness == BMSpec => []TypeOK
<1>1. PoolInv => TypeOK
  BY DEF PoolInv
<1> QED
  BY <1>1, PoolInvariant, PTL

\* No reference is ever lost or given back twice, and the free list is always exactly
\* what validate() (block_manager.hpp) checks it to be.
THEOREM ReferencesAreAccounted ==
  BMSpec => [](RefCountsOwners /\ FreeListExact /\ NoAliasing /\ LiveIffHolding)
<1>1. PoolInv => RefCountsOwners /\ FreeListExact /\ NoAliasing /\ LiveIffHolding
  BY DEF PoolInv
<1> QED
  BY <1>1, PoolInvariant, PTL

\* Sequences share a block only where their tokens agree, and the cache never names
\* a block that a reader uses for something else.
THEOREM SharingIsSound == BMSpec => [](SharedBlocksAgree /\ CacheCoherent)
<1>1. PoolInv => SharedBlocksAgree /\ CacheCoherent
  BY DEF PoolInv
<1> QED
  BY <1>1, PoolInvariant, PTL

\* Sharing being sound, a block not wholly computed has one reader and no cache entry.
LEMMA PoolInvIsolatesWrites ==
  ASSUME PoolInv
  PROVE  WriteIsolation
<1> SUFFICES ASSUME NEW r \in Requests, NEW i \in DOMAIN block_table[r],
                    ~ FullyComputed(r, i)
             PROVE  /\ Holders(block_table[r][i]) = {r}
                    /\ block_table[r][i] \notin CachedBlocks
  BY DEF WriteIsolation
<1>1. TypeOK /\ SharedBlocksAgree /\ CacheCoherent
  BY DEF PoolInv
<1>2. r \in Holders(block_table[r][i])
  BY <1>1, TableFacts
<1>3. ASSUME NEW q \in Holders(block_table[r][i]), q # r
      PROVE  FALSE
  <2>1. q \in Requests
    BY DEF Holders
  <2>2. PICK j \in DOMAIN block_table[q] : block_table[r][i] = block_table[q][j]
    BY <1>1, <2>1, TableFacts
  <2> QED
    BY <1>1, <1>3, <2>1, <2>2 DEF SharedBlocksAgree
<1>4. ASSUME block_table[r][i] \in CachedBlocks
      PROVE  FALSE
  BY <1>1, <1>4 DEF CachedBlocks, CacheCoherent
<1> QED
  BY <1>2, <1>3, <1>4

\* A block with positions still to be computed has one reader and no cache entry, so
\* the model runner never writes where somebody else reads.
THEOREM WritesAreIsolated == BMSpec => []WriteIsolation
<1>1. PoolInv => WriteIsolation
  BY PoolInvIsolatesWrites
<1> QED
  BY <1>1, PoolInvariant, PTL

----------------------------------------------------------------------------
(***************************************************************************)
(* Readers keep their blocks.                                              *)
(***************************************************************************)

HeldBlocksReferenced ==
  \A r \in Requests : \A i \in DOMAIN block_table[r] : ref_count[block_table[r][i]] > 0

\* Tables change only by growing at the end, or by being released as a whole.
TablesGrow ==
  \A r \in Requests :
    \/ r \in live_sequences /\ r \notin live_sequences'
    \/ \A i \in DOMAIN block_table[r] :
         /\ i \in DOMAIN block_table'[r]
         /\ block_table'[r][i] = block_table[r][i]

\* Entries are dropped singly only when unread, or all together.
EntriesKept ==
  \A k \in PrefixKeys : IsCached(k) =>
    \/ prefix_cache'[k] = prefix_cache[k]
    \/ prefix_cache'[k] = NoBlock /\
         \/ Holders(prefix_cache[k]) = {}
         \/ \A key \in PrefixKeys : prefix_cache'[key] = NoBlock

\* Appending blocks to one table keeps every position of every table.
LEMMA AppendingKeepsTables ==
  ASSUME TypeOK, NEW r \in Requests, NEW blocks \in Seq(Blocks),
         block_table' = [block_table EXCEPT ![r] = @ \o blocks]
  PROVE  TablesGrow
<1> SUFFICES ASSUME NEW q \in Requests, NEW i \in DOMAIN block_table[q]
             PROVE  /\ i \in DOMAIN block_table'[q]
                    /\ block_table'[q][i] = block_table[q][i]
  BY DEF TablesGrow
<1>1. CASE q # r
  BY <1>1 DEF TypeOK
<1>2. CASE q = r
  <2>1. block_table'[r] = block_table[r] \o blocks
    BY DEF TypeOK
  <2>2. /\ block_table[r] \in Seq(Blocks) /\ i \in 1 .. Len(block_table[r])
        /\ Len(block_table[r]) \in Nat /\ Len(blocks) \in Nat
    BY <1>2, TableFacts, LenProperties
  <2>3. i \in 1 .. Len(block_table[r]) + Len(blocks) /\ i <= Len(block_table[r])
    BY <2>2
  <2>4. /\ (block_table[r] \o blocks)[i] = block_table[r][i]
        /\ DOMAIN (block_table[r] \o blocks) = 1 .. Len(block_table[r]) + Len(blocks)
    BY <2>2, <2>3, ConcatProperties, LenProperties
  <2> QED
    BY <1>2, <2>1, <2>3, <2>4
<1> QED
  BY <1>1, <1>2

\* A lookup appends cached blocks, all of them blocks of the pool.
LEMMA ApplyKeepsReaders ==
  ASSUME PoolInv, NEW r \in Requests, ApplyPrefixCache(r)
  PROVE  TablesGrow /\ EntriesKept
<1>1. TypeOK /\ CacheableBlocks(r) \in Nat
  BY PrefixKeyFacts DEF PoolInv
<1>2. PICK hits \in 0 .. CacheableBlocks(r) :
        /\ PrefixHits(r, hits)
        /\ block_table' = [block_table EXCEPT ![r] =
             @ \o [i \in 1 .. hits |-> prefix_cache[PrefixKey(r, i)]]]
        /\ UNCHANGED prefix_cache
  BY DEF ApplyPrefixCache
<1>3. \A i \in 1 .. hits : /\ i \in 1 .. CacheableBlocks(r)
                           /\ IsCached(PrefixKey(r, i))
  BY <1>1, <1>2 DEF PrefixHits
<1>4. \A i \in 1 .. hits : prefix_cache[PrefixKey(r, i)] \in Blocks
  BY <1>1, <1>3, PrefixKeyFacts DEF TypeOK, IsCached
<1>5. [i \in 1 .. hits |-> prefix_cache[PrefixKey(r, i)]] \in [1 .. hits -> Blocks]
  BY <1>4
<1>6. [i \in 1 .. hits |-> prefix_cache[PrefixKey(r, i)]] \in Seq(Blocks)
  BY <1>1, <1>5, SeqDef
<1>7. TablesGrow
  BY <1>1, <1>2, <1>6, AppendingKeepsTables
<1> QED
  BY <1>2, <1>7 DEF EntriesKept

\* A reservation appends blocks and evicts only entries that nobody reads.
LEMMA ReservationKeepsReaders ==
  ASSUME PoolInv, NEW r \in Requests, NEW tokens \in Nat,
         EnsureCapacitySucceeds(r, tokens) \/ EnsureCapacityFails(r, tokens)
  PROVE  TablesGrow /\ EntriesKept /\ live_sequences \subseteq live_sequences'
<1>1. TypeOK /\ RefCountsOwners
  BY DEF PoolInv
<1>2. PICK n \in Nat : \E victims \in [1 .. n -> Evictable] :
        \E taken \in 0 .. Len(free_block_ids) + n : EvictAndAllocate(r, victims, n, taken)
  BY <1>1, EnsureCapacityIsEvictAndAllocate
<1>3. PICK victims \in [1 .. n -> Evictable] :
        \E taken \in 0 .. Len(free_block_ids) + n : EvictAndAllocate(r, victims, n, taken)
  BY <1>2
<1>4. PICK taken \in 0 .. Len(free_block_ids) + n : EvictAndAllocate(r, victims, n, taken)
  BY <1>3
<1> DEFINE evicted == EvictedBlocks(victims, n)
           pool == free_block_ids \o evicted
           allocated == SubSeq(pool, 1, taken)
<1>5. /\ prefix_cache' = [k \in PrefixKeys |->
           IF k \in Range(victims) THEN NoBlock ELSE prefix_cache[k]]
      /\ block_table' = [block_table EXCEPT ![r] = @ \o allocated]
  BY <1>4 DEF EvictAndAllocate
<1>6. \A k \in Range(victims) : Holders(prefix_cache[k]) = {}
  BY <1>1, EvictableFacts DEF Range
<1>7. evicted \in [1 .. n -> Blocks]
  BY <1>1, EvictableFacts DEF EvictedBlocks
<1>8. evicted \in Seq(Blocks) /\ Len(evicted) = n
  BY <1>7, SeqDef, LenProperties
<1> HIDE DEF evicted
<1>9. pool \in Seq(Blocks) /\ Len(pool) = Len(free_block_ids) + n /\ Len(free_block_ids) \in Nat
  <2>1. free_block_ids \in Seq(Blocks)
    BY <1>1 DEF TypeOK
  <2> QED
    BY <1>8, <2>1, AppendBlocks, LenProperties
<1> HIDE DEF pool
<1>10. \A i \in 1 .. taken : pool[i] \in Blocks
  BY <1>9, ElementOfSeq
<1>11. allocated \in Seq(Blocks)
  BY <1>9, <1>10, SubSeqProperties
<1>12. TablesGrow
  BY <1>1, <1>5, <1>11, AppendingKeepsTables
<1>13. live_sequences \subseteq live_sequences'
  BY <1>4 DEF EvictAndAllocate, BecomesLive
<1> QED
  BY <1>5, <1>6, <1>12, <1>13 DEF EntriesKept

\* A table that grew and is no longer than it was is the table it was.
LEMMA SameLengthSameTable ==
  ASSUME TypeOK, TypeOK', TablesGrow, live_sequences \subseteq live_sequences',
         NEW r \in Requests, Len(block_table'[r]) = Len(block_table[r])
  PROVE  block_table'[r] = block_table[r]
<1>1. block_table[r] \in Seq(Blocks) /\ block_table'[r] \in Seq(Blocks)
  BY DEF TypeOK
<1>2. \A i \in 1 .. Len(block_table[r]) : block_table'[r][i] = block_table[r][i]
  BY <1>1, LenProperties DEF TablesGrow
<1> QED
  BY <1>1, <1>2, SeqEqual

\* A computed block is registered only where the cache had no entry.
LEMMA ComputeKeepsReaders ==
  ASSUME NEW r \in Requests, NEW count, Compute(r, count)
  PROVE  TablesGrow /\ EntriesKept
<1> DEFINE full == ComputedPrefixBlocks(r, num_computed_tokens[r] + count)
           fresh == {i \in full : ~ IsCached(PrefixKey(r, i))}
<1>1. /\ UNCHANGED block_table
      /\ prefix_cache' = [k \in PrefixKeys |->
           IF \E i \in fresh : k = PrefixKey(r, i)
           THEN block_table[r][CHOOSE i \in fresh : k = PrefixKey(r, i)]
           ELSE prefix_cache[k]]
  BY DEF Compute, ComputeTokens, CacheComputedPrefixBlocks
<1> HIDE DEF full
<1>2. \A k \in PrefixKeys : IsCached(k) => prefix_cache'[k] = prefix_cache[k]
  BY <1>1
<1> QED
  BY <1>1, <1>2 DEF TablesGrow, EntriesKept

\* No step of any client takes a block from a reader.
LEMMA StepsKeepReaders ==
  ASSUME PoolInv, BMNext
  PROVE  TablesGrow /\ EntriesKept
<1>1. TypeOK /\ \A r \in Requests : num_tokens[r] \in Nat
  BY DEF PoolInv, TypeOK
<1>2. ASSUME NEW r \in Requests, TryApplyPrefixCache(r)
      PROVE  TablesGrow /\ EntriesKept
  BY <1>2, ApplyKeepsReaders DEF TryApplyPrefixCache
<1>3. ASSUME NEW r \in Requests, NEW tokens \in 1 .. num_tokens[r], Reserve(r, tokens)
      PROVE  TablesGrow /\ EntriesKept
  BY <1>1, <1>3, ReservationKeepsReaders DEF Reserve
<1>4. ASSUME NEW r \in Requests, NEW count \in 1 .. PendingTokens(r), Compute(r, count)
      PROVE  TablesGrow /\ EntriesKept
  BY <1>4, ComputeKeepsReaders
<1>5. ASSUME NEW r \in Requests, NEW eos \in BOOLEAN, Generate(r, eos)
      PROVE  TablesGrow /\ EntriesKept
  BY <1>5 DEF Generate, Sample, pool_vars, TablesGrow, EntriesKept
<1>6. ASSUME NEW r \in Requests, Retire(r)
      PROVE  TablesGrow /\ EntriesKept
  BY <1>1, <1>6 DEF Retire, Release, TypeOK, TablesGrow, EntriesKept
<1>7. CASE ClearPrefixCache
  BY <1>7 DEF ClearPrefixCache, sequence_vars, TablesGrow, EntriesKept
<1> QED
  BY <1>2, <1>3, <1>4, <1>5, <1>6, <1>7 DEF BMNext

\* A sequence keeps every block it reads, in place, until its own release; the cache
\* gives up an entry only while nobody reads it, or all entries at once.
THEOREM ReadersAreNotRobbed == BMSpec => ReadersKeepBlocks
<1>1. PoolInv => HeldBlocksReferenced
  <2> SUFFICES ASSUME PoolInv, NEW r \in Requests, NEW i \in DOMAIN block_table[r]
               PROVE  ref_count[block_table[r][i]] > 0
    BY DEF HeldBlocksReferenced
  <2>1. TypeOK /\ RefCountsOwners
    BY DEF PoolInv
  <2>2. block_table[r][i] \in Blocks /\ r \in Holders(block_table[r][i])
    BY <2>1, TableFacts
  <2> QED
    BY <2>1, <2>2, OwnersFacts
<1>2. PoolInv /\ HeldBlocksReferenced' /\ [BMNext]_bm_vars => [KeepBlocksStep]_bm_vars
  <2> SUFFICES ASSUME PoolInv, HeldBlocksReferenced', BMNext
               PROVE  KeepBlocksStep
    OBVIOUS
  <2>1. TablesGrow /\ EntriesKept
    BY StepsKeepReaders
  <2>2. \A r \in Requests : \A i \in DOMAIN block_table'[r] : ref_count'[block_table'[r][i]] > 0
    BY DEF HeldBlocksReferenced
  <2>3. ASSUME NEW r \in Requests, ~ (r \in live_sequences /\ r \notin live_sequences'),
               NEW i \in DOMAIN block_table[r]
        PROVE  /\ i \in DOMAIN block_table'[r]
               /\ block_table'[r][i] = block_table[r][i]
               /\ ref_count'[block_table[r][i]] > 0
    <3>1. i \in DOMAIN block_table'[r] /\ block_table'[r][i] = block_table[r][i]
      BY <2>1, <2>3 DEF TablesGrow
    <3>2. ref_count'[block_table'[r][i]] > 0
      BY <2>2, <3>1
    <3> QED
      BY <3>1, <3>2
  <2> QED
    BY <2>1, <2>3 DEF KeepBlocksStep, EntriesKept
<1> QED
  BY <1>1, <1>2, PoolInvariant, PTL DEF BMSpec, ReadersKeepBlocks

----------------------------------------------------------------------------
(***************************************************************************)
(* Positions, pages and slots.                                             *)
(***************************************************************************)

\* A position has one page and one slot, and tables of n pages hold n * BlockSize.
LEMMA PositionFacts ==
  ASSUME NEW p \in Nat
  PROVE  /\ p \div BlockSize \in Nat
         /\ SlotForToken(p) \in Slots
         /\ p = (p \div BlockSize) * BlockSize + SlotForToken(p)
         /\ \A n \in Nat : p < n * BlockSize <=> p \div BlockSize < n
<1>1. /\ p \div BlockSize \in Nat
      /\ p % BlockSize \in 0 .. BlockSize - 1
      /\ p = (p \div BlockSize) * BlockSize + (p % BlockSize)
  BY BlockManagerAssumption, SMT
<1>2. ASSUME NEW n \in Nat
      PROVE  p < n * BlockSize <=> p \div BlockSize < n
  <2>1. n <= p \div BlockSize <=> n * BlockSize <= p
    BY BlocksFit
  <2>2. n * BlockSize \in Nat
    BY BlockManagerAssumption
  <2> QED
    BY <1>1, <2>1, <2>2
<1> QED
  BY <1>1, <1>2 DEF SlotForToken, Slots

LEMMA PositionsDiffer ==
  ASSUME NEW p \in Nat, NEW q \in Nat, p # q
  PROVE  p \div BlockSize # q \div BlockSize \/ SlotForToken(p) # SlotForToken(q)
<1>1. /\ p = (p \div BlockSize) * BlockSize + SlotForToken(p)
      /\ q = (q \div BlockSize) * BlockSize + SlotForToken(q)
  BY PositionFacts
<1> QED
  BY <1>1

\* The positions of n blocks, and more of them for more blocks.
LEMMA BlocksHoldPositions ==
  ASSUME NEW n \in Nat
  PROVE  n * BlockSize \in Nat
  BY BlockManagerAssumption, SMT

LEMMA MoreBlocksMoreRoom ==
  ASSUME NEW m \in Nat, NEW n \in Nat, m <= n
  PROVE  m * BlockSize <= n * BlockSize
  BY BlockManagerAssumption, SMT

\* A position within a table's pages has one of them.
LEMMA PositionHasPage ==
  ASSUME NEW S, NEW table \in Seq(S), NEW p \in Nat, p < Len(table) * BlockSize
  PROVE  /\ p \div BlockSize + 1 \in DOMAIN table
         /\ p \div BlockSize + 1 \in Nat
         /\ PageOf(table, p) = table[p \div BlockSize + 1]
         /\ PageOf(table, p) \in S
<1>1. Len(table) \in Nat /\ DOMAIN table = 1 .. Len(table)
  BY LenProperties
<1>2. p \div BlockSize \in Nat /\ p \div BlockSize < Len(table)
  BY <1>1, PositionFacts
<1>3. p \div BlockSize + 1 \in 1 .. Len(table)
  BY <1>1, <1>2
<1>4. table[p \div BlockSize + 1] \in S
  BY <1>3, ElementOfSeq
<1> QED
  BY <1>1, <1>3, <1>4 DEF PageOf

\* Two positions of a table without repetition never share a slot.
LEMMA PositionsApart ==
  ASSUME NEW S, NEW table \in Seq(S), IsInjective(table),
         NEW p \in Nat, NEW q \in Nat,
         p < Len(table) * BlockSize, q < Len(table) * BlockSize,
         PageOf(table, p) = PageOf(table, q), SlotForToken(p) = SlotForToken(q)
  PROVE  p = q
<1>1. p \div BlockSize + 1 = q \div BlockSize + 1
  BY PositionHasPage DEF IsInjective
<1>2. p \div BlockSize = q \div BlockSize
  BY <1>1, PositionFacts
<1> QED
  BY <1>2, PositionsDiffer

\* Within a table's pages a position has a block.
LEMMA PageFacts ==
  ASSUME TypeOK, NEW r \in Requests, NEW p \in Nat,
         p < Len(block_table[r]) * BlockSize
  PROVE  /\ p \div BlockSize + 1 \in DOMAIN block_table[r]
         /\ p \div BlockSize + 1 \in Nat
         /\ PageOf(block_table[r], p) = block_table[r][p \div BlockSize + 1]
         /\ PageOf(block_table[r], p) \in Blocks
         /\ r \in Holders(PageOf(block_table[r], p))
<1>1. p \div BlockSize \in Nat /\ p \div BlockSize < Len(block_table[r])
  BY PositionFacts, TableFacts
<1>2. p \div BlockSize + 1 \in 1 .. Len(block_table[r])
  BY <1>1, TableFacts
<1> QED
  BY <1>1, <1>2, TableFacts DEF PageOf

\* A table that keeps its pages in place keeps the history they hold.
LEMMA HistoryKept ==
  ASSUME NEW cache, NEW r \in Requests, NEW table \in Seq(Blocks), NEW longer,
         \A i \in DOMAIN table : longer[i] = table[i],
         NEW n \in Nat, n <= Len(table) * BlockSize,
         HoldsHistory(cache, table, r, n)
  PROVE  HoldsHistory(cache, longer, r, n)
<1> SUFFICES ASSUME NEW p \in 0 .. n - 1
             PROVE  Lookup(cache, longer, p) = KVOf(Prompt[r], p)
  BY DEF HoldsHistory
<1>1. Len(table) \in Nat /\ DOMAIN table = 1 .. Len(table)
  BY LenProperties
<1>2. p \in Nat /\ p < Len(table) * BlockSize
  BY <1>1, BlockManagerAssumption
<1>3. p \div BlockSize \in Nat /\ p \div BlockSize < Len(table)
  BY <1>1, <1>2, PositionFacts
<1>4. p \div BlockSize + 1 \in DOMAIN table
  BY <1>1, <1>3
<1>5. Lookup(cache, longer, p) = Lookup(cache, table, p)
  BY <1>4 DEF Lookup, PageOf
<1> QED
  BY <1>5 DEF HoldsHistory

=============================================================================
