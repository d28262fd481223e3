------------------------------ MODULE PDEngine ------------------------------
(***************************************************************************)
(* The prefill/decode engine (src/mini_vllm/cuda/gpt2_pd_engine.hpp): one  *)
(* GPU runs prompts, a second one everything after the first generated     *)
(* token, and a request moves from one to the other by copying its pages   *)
(* (copy_kv_to in cuda/gpt2_cuda_model_runner.cu).                         *)
(*                                                                         *)
(* The decode side D is the state of module Scheduler: d_blocks_,          *)
(* d_scheduler_ and the Sequence objects that try_handoff makes.  Before   *)
(* the handoff of r, D's view of r is that of a fresh Sequence.  The       *)
(* prefill side P has a pool of its own, instance P of BlockManager.       *)
(***************************************************************************)
EXTENDS Scheduler, KVCache

CONSTANTS
  PrefillBlocks,      \* prefill_blocks; NumBlocks is decode_blocks
  PrefillTokenBudget, \* prefill_token_budget
  MaxContextLength    \* max_context_length

\* An empty prefilling_ or pending_: a null pointer, which is no request.
NoRequest == "none"

\* The constructor enables no prefix cache on either side and gives the decode
\* scheduler max_decode_sequences as both its limits.
ASSUME PDAssumption ==
  /\ PrefillBlocks \in Nat \ {0}
  /\ PrefillTokenBudget \in Nat \ {0}
  /\ MaxContextLength \in Nat \ {0}
  /\ PrefixCacheEnabled = FALSE
  /\ MaxNumBatchedTokens = MaxNumSequences
  /\ NoRequest \notin Requests

VARIABLES
  requests,   \* the keys of requests_
  pd_waiting, \* waiting_: no page yet
  prefilling, \* prefilling_
  pending,    \* pending_: prefill complete, handoff outstanding
  stage,      \* PDRequest::stage
  \* The Sequence objects made by add_request, and p_blocks_.
  p_status, p_num_tokens, p_num_computed_tokens, p_block_table,
  p_free_block_ids, p_ref_count, p_live_sequences,
  p_kv_cache, \* the device caches of the two runners
  d_kv_cache,
  p_run,      \* what has become of this step's p_runner_.run
  d_run,      \* ... and d_runner_.run
  pd_pc       \* where inside step() the engine is

queue_and_output == <<queue_vars, output_vars>>
pd_queue_vars == <<requests, pd_waiting, prefilling, pending, stage>>
p_vars == <<p_status, p_num_tokens, p_num_computed_tokens, p_block_table,
            p_free_block_ids, p_ref_count, p_live_sequences>>
cache_vars == <<p_kv_cache, d_kv_cache>>
run_vars == <<p_run, d_run>>
pd_vars == <<vars, requests, pd_waiting, prefilling, pending, stage,
             p_status, p_num_tokens, p_num_computed_tokens, p_block_table,
             p_free_block_ids, p_ref_count, p_live_sequences,
             p_kv_cache, d_kv_cache, p_run, d_run, pd_pc>>

\* Without a prefix cache there is nothing in it.
P == INSTANCE BlockManager WITH
  NumBlocks <- PrefillBlocks,
  status <- p_status,
  num_tokens <- p_num_tokens,
  num_computed_tokens <- p_num_computed_tokens,
  block_table <- p_block_table,
  free_block_ids <- p_free_block_ids,
  ref_count <- p_ref_count,
  live_sequences <- p_live_sequences,
  prefix_cache <- [k \in PrefixKeys |-> NoBlock],
  last_used <- [k \in PrefixKeys |-> 0],
  cache_clock <- 0

\* Inside step(), pd_pc is at "handoff" (try_handoff: may it start?), "copy" (D's pages
\* are reserved, copy_kv_to is next), "prefill" (admission of a request to P),
\* "schedule" (d_scheduler_.schedule()), "run" (the two runs), "commit_decode"
\* (d_scheduler_.commit()), "commit_prefill" (P's part of the commit: mark_computed),
\* "sample_prefill" (the first generated token) and "release_prefill" (that token
\* finished the request).

\* A run of this step is "off", and once launched it "returns" or "throws" in the end;
\* then it has "returned" or has thrown ("threw").
Launched == {"returns", "throws"}

PDInit ==
  /\ Init
  /\ P!BMInit
  /\ requests = {}
  /\ pd_waiting = << >>
  /\ prefilling = NoRequest
  /\ pending = NoRequest
  /\ stage = [r \in Requests |-> "WaitingPrefill"]
  /\ p_kv_cache = EmptyKVCache(P!Blocks)
  /\ d_kv_cache = EmptyKVCache(Blocks)
  /\ p_run = "off"
  /\ d_run = "off"
  /\ pd_pc = "idle"

\* Operators named X_Y are faulty variants of X that the properties must notice.
PDIsFinished_PendingIgnored ==
  pd_waiting = << >> /\ prefilling = NoRequest /\ IsFinished

PDIsFinished ==
  pd_waiting = << >> /\ prefilling = NoRequest /\ pending = NoRequest /\ IsFinished

----------------------------------------------------------------------------
(***************************************************************************)
(* Between steps.                                                          *)
(***************************************************************************)

\* What add_request accepts: both pools can hold the request when it is alone.  A
\* request of one token never reaches D.
FitsEngine(r) ==
  /\ PromptLen(r) <= MaxContextLength
  /\ MaxNewTokens[r] - 1 <= MaxContextLength - PromptLen(r)
  /\ BlocksNeeded(PromptLen(r)) <= PrefillBlocks
  /\ MaxNewTokens[r] > 1 =>
       BlocksNeeded(PromptLen(r) + MaxNewTokens[r] - 1) <= NumBlocks

PDAddRequest(r) ==
  /\ pd_pc = "idle"
  /\ r \notin requests
  /\ FitsEngine(r)
  /\ requests' = requests \cup {r}
  /\ pd_waiting' = Append(pd_waiting, r)
  /\ UNCHANGED <<vars, prefilling, pending, stage, p_vars, cache_vars, run_vars, pd_pc>>

StepBegins ==
  /\ pd_pc = "idle"
  /\ ~ PDIsFinished
  /\ pd_pc' = "handoff"
  /\ UNCHANGED <<vars, pd_queue_vars, p_vars, cache_vars, run_vars>>

----------------------------------------------------------------------------
(***************************************************************************)
(* try_handoff()                                                           *)
(***************************************************************************)
HandoffBlocked ==
  pending = NoRequest \/ Len(waiting) + Len(running) >= MaxNumSequences

ReserveTokens_PromptOnly(r) == PromptLen(r)

\* D reserves room for everything the request may still be fed.
ReserveTokens(r) == PromptLen(r) + MaxNewTokens[r] - 1

HandoffSkipped ==
  /\ pd_pc = "handoff"
  /\ HandoffBlocked
  /\ pd_pc' = "prefill"
  /\ UNCHANGED <<vars, pd_queue_vars, p_vars, cache_vars, run_vars>>

HandoffWaitsForPages ==
  /\ pd_pc = "handoff"
  /\ ~ HandoffBlocked
  /\ EnsureCapacityFails(pending, ReserveTokens(pending))
  /\ pd_pc' = "prefill"
  /\ UNCHANGED <<status, queue_and_output, pc, cursor,
                 pd_queue_vars, p_vars, cache_vars, run_vars>>

HandoffReserves ==
  /\ pd_pc = "handoff"
  /\ ~ HandoffBlocked
  /\ EnsureCapacitySucceeds(pending, ReserveTokens(pending))
  /\ pd_pc' = "copy"
  /\ UNCHANGED <<status, queue_and_output, pc, cursor,
                 pd_queue_vars, p_vars, cache_vars, run_vars>>

PagesToCopy_FullOnly(r) == p_num_computed_tokens[r] \div BlockSize

PagesToCopy(r) == BlocksNeeded(p_num_computed_tokens[r])

\* D's cache after the given logical pages of r have been overwritten, page i by
\* content[i]: physical page numbers differ from P's.
PagesReplaced(r, pages, content) ==
  [b \in Blocks |->
     IF \E i \in pages : block_table[r][i] = b
     THEN content[CHOOSE i \in pages : block_table[r][i] = b]
     ELSE d_kv_cache[b]]

HandedTokens_PromptOnly(r) == PromptLen(r)

\* The length of the sequence that D goes on with: the first generated token, which
\* has no K/V yet, is appended.
HandedTokens(r) == PromptLen(r) + 1

\* copy_kv_to returns: D takes over, P's pages are freed.
HandoffCopies ==
  /\ pd_pc = "copy"
  /\ LET r == pending
         pages == 1 .. PagesToCopy(r)
     IN  /\ d_kv_cache' = PagesReplaced(r, pages,
              [i \in pages |-> p_kv_cache[p_block_table[r][i]]])
         /\ num_computed_tokens' = [num_computed_tokens EXCEPT ![r] = p_num_computed_tokens[r]]
         /\ num_tokens' = [num_tokens EXCEPT ![r] = HandedTokens(r)]
         /\ known_request_ids' = known_request_ids \cup {r}
         /\ waiting' = Append(waiting, r)
         /\ P!Release(r)
         /\ stage' = [stage EXCEPT ![r] = "Decoding"]
  /\ pending' = NoRequest
  /\ pd_pc' = "prefill"
  /\ UNCHANGED <<status, block_table, pool_vars, running, output_vars, pc, cursor,
                 requests, pd_waiting, prefilling, p_kv_cache, run_vars>>

HandoffFails_PagesKept ==
  /\ pd_pc = "copy"
  /\ pd_pc' = "idle"
  /\ UNCHANGED <<vars, pd_queue_vars, p_vars, cache_vars, run_vars>>

\* copy_kv_to throws with some pages overwritten: D's pages are given back and the
\* exception leaves step(), with the request still pending.
HandoffFails ==
  /\ pd_pc = "copy"
  /\ \E torn \in SUBSET (1 .. PagesToCopy(pending)) :
       d_kv_cache' = PagesReplaced(pending, torn, [i \in torn |-> [s \in Slots |-> Garbage]])
  /\ Release(pending)
  /\ pd_pc' = "idle"
  /\ UNCHANGED <<queue_and_output, pc, cursor, pd_queue_vars, p_vars, p_kv_cache, run_vars>>

----------------------------------------------------------------------------
\* A pending handoff keeps the next request out of P.
MayPrefill == prefilling = NoRequest /\ pending = NoRequest /\ pd_waiting # << >>

PrefillAdmits ==
  /\ pd_pc = "prefill"
  /\ MayPrefill
  /\ LET r == Head(pd_waiting)
     IN  /\ P!EnsureCapacitySucceeds(r, PromptLen(r))
         /\ P!SetStatus(r, "Running")
         /\ prefilling' = r
         /\ stage' = [stage EXCEPT ![r] = "Prefilling"]
  /\ pd_waiting' = Tail(pd_waiting)
  /\ pd_pc' = "schedule"
  /\ pc' = "running"
  /\ UNCHANGED <<bm_vars, queue_and_output, cursor, requests, pending, cache_vars, run_vars>>

\* Nobody may or can be admitted.  D's schedule is called all the same.
PrefillSkipped ==
  /\ pd_pc = "prefill"
  /\ \/ ~ MayPrefill /\ UNCHANGED p_vars
     \/ /\ MayPrefill
        /\ P!EnsureCapacityFails(Head(pd_waiting), PromptLen(Head(pd_waiting)))
        /\ UNCHANGED p_status
  /\ pd_pc' = "schedule"
  /\ pc' = "running"
  /\ UNCHANGED <<bm_vars, queue_and_output, cursor, pd_queue_vars, cache_vars, run_vars>>

DecodeSchedules ==
  /\ pd_pc = "schedule"
  /\ ScheduleRunning \/ EndRunning \/ AdmitFromCache \/ Admit \/ EndAdmit
  /\ UNCHANGED <<pd_queue_vars, p_vars, cache_vars, run_vars, pd_pc>>

----------------------------------------------------------------------------
(***************************************************************************)
(* The two runs, in two threads when both sides have work.  step() waits   *)
(* for both, also when one throws (the future of std::async does).         *)
(***************************************************************************)
PrefillCount ==
  IF P!PendingTokens(prefilling) <= PrefillTokenBudget
  THEN P!PendingTokens(prefilling)
  ELSE PrefillTokenBudget

\* What each run computes: pairs of a request and a position.
PrefillRows ==
  {prefilling} \X (p_num_computed_tokens[prefilling] ..
                   p_num_computed_tokens[prefilling] + PrefillCount - 1)
DecodeRows ==
  UNION {LET first == num_computed_tokens[items[i].sequence]
         IN  {items[i].sequence} \X (first .. first + items[i].num_scheduled_tokens - 1) :
         i \in DOMAIN items}

\* The cache after the rows have been written.  A row is right if the K/V of its
\* request's first computed[r] positions were, and nothing else wrote its slot.
RowsWritten(cache, table, computed, rows) ==
  [b \in DOMAIN cache |-> [s \in Slots |->
     LET here == {row \in rows : /\ PageOf(table[row[1]], row[2]) = b
                                 /\ SlotForToken(row[2]) = s}
         row == CHOOSE x \in here : TRUE
         r == row[1]
     IN  IF here = {} THEN cache[b][s]
         ELSE IF here = {row} /\ HoldsHistory(cache, table[r], r, computed[r])
         THEN KVOf(Prompt[r], row[2])
         ELSE Garbage]]

\* A run that throws has written nothing, or something in all its slots.
RowsTorn(cache, table, rows) ==
  [b \in DOMAIN cache |-> [s \in Slots |->
     IF \E row \in rows : PageOf(table[row[1]], row[2]) = b /\ SlotForToken(row[2]) = s
     THEN Garbage
     ELSE cache[b][s]]]

\* "PD made no progress" is thrown, or each side with work starts its run.  That a
\* run will throw is decided here, before it is under way.
LaunchRuns ==
  /\ pd_pc = "schedule"
  /\ pc = "model"
  /\ IF items = << >> /\ prefilling = NoRequest
     THEN /\ EndStep
          /\ pd_pc' = "idle"
          /\ UNCHANGED run_vars
     ELSE /\ IF prefilling = NoRequest THEN p_run' = "off" ELSE p_run' \in Launched
          /\ IF items = << >> THEN d_run' = "off" ELSE d_run' \in Launched
          /\ pd_pc' = "run"
          /\ UNCHANGED <<output_vars, pc, cursor>>
  /\ UNCHANGED <<bm_vars, queue_vars, pd_queue_vars, p_vars, cache_vars>>

PrefillRuns ==
  /\ pd_pc = "run"
  /\ p_run \in Launched
  /\ \/ /\ p_run = "returns"
        /\ p_run' = "returned"
        /\ p_kv_cache' =
             RowsWritten(p_kv_cache, p_block_table, p_num_computed_tokens, PrefillRows)
     \/ /\ p_run = "throws"
        /\ p_run' = "threw"
        /\ p_kv_cache' \in {p_kv_cache, RowsTorn(p_kv_cache, p_block_table, PrefillRows)}
  /\ UNCHANGED <<vars, pd_queue_vars, p_vars, d_kv_cache, d_run, pd_pc>>

DecodeRuns ==
  /\ pd_pc = "run"
  /\ d_run \in Launched
  /\ \/ /\ d_run = "returns"
        /\ d_run' = "returned"
        /\ d_kv_cache' =
             RowsWritten(d_kv_cache, block_table, num_computed_tokens, DecodeRows)
     \/ /\ d_run = "throws"
        /\ d_run' = "threw"
        /\ d_kv_cache' \in {d_kv_cache, RowsTorn(d_kv_cache, block_table, DecodeRows)}
  /\ UNCHANGED <<vars, pd_queue_vars, p_vars, p_kv_cache, p_run, pd_pc>>

\* Both sides, if they ran, returned.
RunsReturn ==
  /\ pd_pc = "run"
  /\ {p_run, d_run} \subseteq {"off", "returned"}

CommitStarts ==
  /\ RunsReturn
  /\ IF items = << >>
     THEN EndStep /\ pd_pc' = "commit_prefill"
     ELSE pc' = "commit" /\ cursor' = 1 /\ UNCHANGED output_vars /\ pd_pc' = "commit_decode"
  /\ p_run' = "off"
  /\ d_run' = "off"
  /\ UNCHANGED <<bm_vars, queue_vars, pd_queue_vars, p_vars, cache_vars>>

\* The exception leaves step() and neither side's work is committed.
RunsThrow ==
  /\ pd_pc = "run"
  /\ {p_run, d_run} \cap Launched = {}
  /\ ~ RunsReturn
  /\ EndStep
  /\ p_run' = "off"
  /\ d_run' = "off"
  /\ pd_pc' = "idle"
  /\ UNCHANGED <<bm_vars, queue_vars, pd_queue_vars, p_vars, cache_vars>>

----------------------------------------------------------------------------
(***************************************************************************)
(* The commit of both sides.                                               *)
(***************************************************************************)
DecodeCommits ==
  /\ pd_pc = "commit_decode"
  /\ CommitItem \/ CommitSample \/ CommitRelease
  /\ UNCHANGED <<pd_queue_vars, p_vars, cache_vars, run_vars, pd_pc>>

DecodeCommitted ==
  /\ pd_pc = "commit_decode"
  /\ EndCommit
  /\ stage' = [r \in Requests |-> IF r \in FinishedItems THEN "Finished" ELSE stage[r]]
  /\ pd_pc' = IF prefilling = NoRequest THEN "idle" ELSE "commit_prefill"
  /\ UNCHANGED <<requests, pd_waiting, prefilling, pending, p_vars, cache_vars, run_vars>>

PrefillCommits ==
  /\ pd_pc = "commit_prefill"
  /\ P!MarkComputed(prefilling, PrefillCount)
  /\ pd_pc' = IF PrefillCount < P!PendingTokens(prefilling) THEN "idle" ELSE "sample_prefill"
  /\ UNCHANGED <<vars, pd_queue_vars, p_status, p_num_tokens, p_block_table,
                 p_free_block_ids, p_ref_count, p_live_sequences, cache_vars, run_vars>>

\* The first generated token finishes the request, or makes it wait for D.
PrefillSamples ==
  /\ pd_pc = "sample_prefill"
  /\ \E eos \in BOOLEAN :
       /\ P!Sample(prefilling, eos)
       /\ IF P!ShouldFinishAfter(prefilling, p_num_tokens[prefilling] + 1, eos)
          THEN /\ stage' = [stage EXCEPT ![prefilling] = "Finished"]
               /\ pd_pc' = "release_prefill"
               /\ UNCHANGED <<pending, prefilling>>
          ELSE /\ stage' = [stage EXCEPT ![prefilling] = "TransferPending"]
               /\ pending' = prefilling
               /\ prefilling' = NoRequest
               /\ pd_pc' = "idle"
  /\ UNCHANGED <<vars, requests, pd_waiting, cache_vars, run_vars>>

PrefillReleases ==
  /\ pd_pc = "release_prefill"
  /\ P!Release(prefilling)
  /\ prefilling' = NoRequest
  /\ pd_pc' = "idle"
  /\ UNCHANGED <<vars, requests, pd_waiting, pending, stage, cache_vars, run_vars>>

----------------------------------------------------------------------------
PDDone ==
  /\ pd_pc = "idle"
  /\ PDIsFinished
  /\ requests = {r \in Requests : FitsEngine(r)}
  /\ UNCHANGED pd_vars

PDStep ==
  \/ StepBegins
  \/ HandoffSkipped
  \/ HandoffWaitsForPages
  \/ HandoffReserves
  \/ HandoffCopies
  \/ HandoffFails
  \/ PrefillAdmits
  \/ PrefillSkipped
  \/ DecodeSchedules
  \/ LaunchRuns
  \/ PrefillRuns
  \/ DecodeRuns
  \/ CommitStarts
  \/ RunsThrow
  \/ DecodeCommits
  \/ DecodeCommitted
  \/ PrefillCommits
  \/ PrefillSamples
  \/ PrefillReleases

PDNext ==
  \/ \E r \in Requests : PDAddRequest(r)
  \/ PDStep
  \/ PDDone

PDSpec == PDInit /\ [][PDNext]_pd_vars

LaunchRunsThatReturn ==
  LaunchRuns /\ {p_run', d_run'} \subseteq {"off", "returns"}

(***************************************************************************)
(* Fairness.  The caller keeps stepping an engine that has work, and goes  *)
(* on after an exception.  Copies and runs may throw any number of times,  *)
(* but a copy succeeds, and both runs of one step do, infinitely often if  *)
(* they are tried infinitely often.                                        *)
(***************************************************************************)
PDFairSpec ==
  /\ PDSpec
  /\ WF_pd_vars(PDStep)
  /\ SF_pd_vars(HandoffCopies)
  /\ SF_pd_vars(LaunchRunsThatReturn)

----------------------------------------------------------------------------
(***************************************************************************)
(* What the engine promises.                                               *)
(***************************************************************************)

\* The requests D's scheduler has, but for those commit() has released already.
OnDecodeSide ==
  {r \in Range(waiting) \cup Range(running) :
     status[r] # "Finished" \/ (pc = "release" /\ r = items[cursor].sequence)}

\* No page is lost or held twice on either side, whatever threw.  A request has
\* pages on P from its admission to the end of its handoff, exactly for its prompt;
\* on D, besides, from the reservation on, and exactly for everything it may be fed.
PagesAccounted ==
  /\ RefCountsOwners /\ FreeListExact
  /\ P!RefCountsOwners /\ P!FreeListExact
  /\ \A r \in Requests :
       /\ Len(p_block_table[r]) =
            IF r \in {prefilling, pending} THEN BlocksNeeded(PromptLen(r)) ELSE 0
       /\ Len(block_table[r]) =
            IF r \in OnDecodeSide \/ (r = pending /\ pd_pc = "copy")
            THEN BlocksNeeded(PromptLen(r) + MaxNewTokens[r] - 1)
            ELSE 0

\* Every position either side counts as computed holds the K/V of its own request's
\* history: through chunked prefill, the copy to other physical pages, pages used
\* again, torn copies and runs of either side.
PDKVCoherent ==
  \A r \in Requests :
    /\ r \in {prefilling, pending} =>
         HoldsHistory(p_kv_cache, p_block_table[r], r, p_num_computed_tokens[r])
    /\ r \in OnDecodeSide =>
         HoldsHistory(d_kv_cache, block_table[r], r, num_computed_tokens[r])

\* The sequence the handle of r points to, seen through its status.
HandleStatus(r) == IF r \in known_request_ids THEN status[r] ELSE p_status[r]

\* Every step decodes one token of every request on D: none waits for a page
\* another one holds, or for a place in the batch.
EveryDecodeAdvances ==
  pd_pc = "schedule" /\ pc = "model" =>
    /\ waiting = << >>
    /\ Range(running) = {items[i].sequence : i \in DOMAIN items}
    /\ \A i \in DOMAIN items : items[i].num_scheduled_tokens = 1

PDServed == INSTANCE Serving WITH
  phase <- [r \in Requests |->
              IF r \notin requests THEN "unknown"
              ELSE IF HandleStatus(r) = "Finished" THEN "finished" ELSE "accepted"],
  generated <- [r \in Requests |->
                  (IF r \in known_request_ids THEN num_tokens[r] ELSE p_num_tokens[r])
                  - PromptLen(r)]

\* Seen through its handles the engine serves like any other: the first token,
\* generated on P, is neither lost nor repeated when the handle changes from P's
\* sequence to D's.
PDImplementsServing == PDServed!Spec

\* Every accepted request is finished.
EveryPDRequestFinishes ==
  \A r \in Requests : r \in requests ~> stage[r] = "Finished"

=============================================================================
