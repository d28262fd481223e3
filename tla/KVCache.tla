------------------------------ MODULE KVCache ------------------------------
(***************************************************************************)
(* What a slot of the paged KV cache holds (src/paged_kv_cache.hpp, and    *)
(* the device caches of cuda/gpt2_cuda_model_runner.cu).  A slot holds     *)
(* what was computed there from the slots that were read, so a value is    *)
(* either the K/V of one position of one history, or Garbage.              *)
(***************************************************************************)
EXTENDS BlockManager

Slots == 0 .. BlockSize - 1

\* What a slot should hold for position p (counted from 0) of r: the state after
\* exactly these tokens.  Decoding is greedy, so the generated tokens are a
\* function of the prompt and their number says it all.
KVOf(tokens, p) ==
  <<IF p < Len(tokens) THEN SubSeq(tokens, 1, p + 1) ELSE tokens, p>>
Garbage == << >>

EmptyKVCache(pages) == [b \in pages |-> [s \in Slots |-> Garbage]]

\* The page of a block table, and the slot in it, that position p maps to.
PageOf(table, p) == table[(p \div BlockSize) + 1]
SlotForToken(p) == p % BlockSize

\* The slot of the given cache that the given table says holds position p.
Lookup(cache, table, p) == cache[PageOf(table, p)][SlotForToken(p)]

\* The first n positions of r, and no one else's, are where the table says they are.
HoldsHistory(cache, table, r, n) ==
  \A p \in 0 .. n - 1 : Lookup(cache, table, p) = KVOf(Prompt[r], p)

\* The cache after value has been written to the slot of position p.
Write(cache, table, p, value) ==
  [cache EXCEPT ![PageOf(table, p)][SlotForToken(p)] = value]

=============================================================================
