------------------------------ MODULE Sequence ------------------------------
(***************************************************************************)
(* The request object of mini-vLLM (src/mini_vllm/sequence.hpp).           *)
(*                                                                         *)
(* A Sequence owns its tokens, how many of them have been run through the  *)
(* model, and the table that maps its logical KV blocks to physical ones.  *)
(* Only the identity of PROMPT tokens matters to the rest of the system    *)
(* (they are the prefix-cache keys), so generated tokens are counted and   *)
(* not stored.                                                             *)
(***************************************************************************)
EXTENDS Integers, Sequences, FiniteSets

CONSTANTS
  Requests,       \* the request ids that may ever be submitted
  Prompt,         \* Prompt[r]: the prompt tokens of r
  MaxNewTokens,   \* MaxNewTokens[r]: SamplingParams::max_new_tokens
  HonorsEos       \* the requests with ignore_eos = false and eos_token_id >= 0

\* Sequence's constructor rejects an empty prompt and a zero max_new_tokens.
ASSUME SequenceAssumption ==
  /\ IsFiniteSet(Requests)
  /\ Prompt \in [Requests -> Seq(Nat)]
  /\ \A r \in Requests : Prompt[r] # << >>
  /\ MaxNewTokens \in [Requests -> Nat \ {0}]
  /\ HonorsEos \subseteq Requests

VARIABLES
  status,              \* status_
  num_tokens,          \* token_ids_.size()
  num_computed_tokens, \* num_computed_tokens_
  block_table          \* block_table_

SequenceStatus == {"Waiting", "Running", "Finished"}

PromptLen(r) == Len(Prompt[r])

PendingTokens(r) == num_tokens[r] - num_computed_tokens[r]

IsPrefill(r) == num_computed_tokens[r] < PromptLen(r)

\* A faulty variant of the next definition, see BlockManager; nothing uses it.
ShouldFinishAfter_OneMore(r, tokens, eos) ==
  \/ eos /\ r \in HonorsEos
  \/ tokens - PromptLen(r) > MaxNewTokens[r]

\* The finish test on a sequence of the given length whose last token was
\* (or was not) its end-of-sequence token.
ShouldFinishAfter(r, tokens, eos) ==
  \/ eos /\ r \in HonorsEos
  \/ tokens - PromptLen(r) >= MaxNewTokens[r]

SequenceInit ==
  /\ status = [r \in Requests |-> "Waiting"]
  /\ num_tokens = [r \in Requests |-> PromptLen(r)]
  /\ num_computed_tokens = [r \in Requests |-> 0]
  /\ block_table = [r \in Requests |-> << >>]

SetStatus(r, s) == status' = [status EXCEPT ![r] = s]

\* The guard is the exception mark_computed throws.
MarkComputed(r, count) ==
  /\ count <= PendingTokens(r)
  /\ num_computed_tokens' = [num_computed_tokens EXCEPT ![r] = @ + count]

\* The guard is the exception append_token throws.
AppendToken(r) ==
  /\ num_computed_tokens[r] = num_tokens[r]
  /\ num_tokens' = [num_tokens EXCEPT ![r] = @ + 1]

=============================================================================
