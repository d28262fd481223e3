# mini-vLLM: TLA+ models, model checking and proofs

The repository holds two programs. mini-vLLM (`src/mini_vllm/`) serves GPT-2 with continuous
batching over a paged KV cache; the models follow its control plane: which request runs when,
which physical block holds which token's K/V, what is shared and evicted, and what happens when
a run fails. Around it is a training code base (`train_gpt2.py`, `train_llama3.py`,
`train_gpt2.cu`, `dev/`, `llmc/`); the models follow a corpus, a model's weights and a prompt
through it: tokenized shards, distributed training, checkpoints, import and export, generation
and evaluation. Paths below are relative to the repository's source tree.

## 1. Inventory

### Serving

| part | state | operations | interacts with |
|---|---|---|---|
| Sequence (`mini_vllm/sequence.hpp`) | tokens, computed count, status, block table | constructor, `mark_computed`, `append_token`, `set_status`, predicates | changed by BlockManager (table, computed count) and Scheduler |
| BlockManager (`mini_vllm/block_manager.hpp`) | FIFO free list, a ref count per block, live set, prefix cache with LRU clock | `apply_prefix_cache`, `ensure_capacity` (evicts), `cache_computed_prefix_blocks`, `clear_prefix_cache`, `release`, `can_ensure_capacity`, `validate` | called by Scheduler; read by the runners |
| Scheduler (`mini_vllm/scheduler.hpp`) | `waiting_` (FCFS), `running_`, known ids | `add`, `schedule` (advance running, admit waiting), `commit` | BlockManager, engine |
| CPU engine (`mini_vllm/gpt2_engine.hpp`) | owns the three above | `add_request`, `step` = schedule, run, commit | runner |
| CPU runner (`mini_vllm/gpt2_model_runner.hpp`, `model_input.hpp`, `paged_kv_cache.hpp`, forward pass in `train_gpt2.cpp`) | KV pool | `run`: micro step k feeds the k-th scheduled token of every item | reads block tables, writes K/V |
| CUDA engine (`mini_vllm/cuda/gpt2_cuda_engine.hpp`) | as the CPU engine | the same loop, plus `clear_prefix_cache` | CUDA runner |
| CUDA runner (`mini_vllm/cuda/gpt2_cuda_model_runner.cu`, packed builder in `model_input.hpp`, `paged_attention.cu`) | KV pool and metadata arrays on the device, a stream, the CUDA-graph cache | packed `run`, sample-row pruning, graph capture and replay, `copy_kv_to` | block tables, second runner |
| P/D engine (`mini_vllm/cuda/gpt2_pd_engine.hpp`) | two pools, decode scheduler, waiting queue, one prefilling and one pending request | `add_request`, `step`, `try_handoff` | two CUDA runners, one of them in a second thread |

This program is single-threaded except for OpenMP/GPU parallelism inside one forward pass
and the P/D engine's two concurrent `run` calls. What makes it hard is not threads but
sharing: four kinds of operation move the same reference counts, blocks are shared between
requests and a cache, `schedule()` changes state before it knows whether the step will be
committed, `run()` may throw in between, and nothing is preempted.

### Training, generation and evaluation

| part | state | operations | interacts with |
|---|---|---|---|
| Tokenizing scripts (`dev/data/fineweb.py`, `tinystories.py`, `tinyshakespeare.py`, `data_common.py`) | token buffer, shards on disk | tokenize a document, cut and write a shard, stop with an exception or be killed | loaders read the shards |
| Data loaders (`DistributedDataLoader` and its Llama copy) | shard, position | header checks, `reset`, `advance`, `next_batch` | one per rank and split |
| Training loops (`train_gpt2.py`, `train_llama3.py`) | per rank: loaders, parameters, gradients, DDP flags | reference pass, DDP, validation, sampling, accumulation, optimizer with or without ZeRO stage 1 | collective operations of all ranks; torchrun |
| Weights (`from_pretrained` of both programs, `write_model`, `dev/eval/export_hf.py`) | state dicts, `.bin` files | import, permute, transpose, pad, write, convert | the C programs read the `.bin` files |
| Checkpoints of `train_gpt2.cu` (with `llmc/utils.h`) | model, state and DONE files by step | `write_checkpoint`, `delete_checkpoint`, `find_max_step`, `load_state` | all ranks, across crashes |
| Generation (`LLaMA.generate`, `GPT.generate`, `sample_top_p`, `Tokenizer.encode`) | a K/V cache that outlives the call | prefill and decode of a padded batch, sampling, cutting the result | validation shares the cache |
| Multiple-choice evaluation (`dev/data/hellaswag.py`, `mmlu.py`, `write_evalfile`, `EvalLoader` of `llmc/dataloader.h`) | batch buffers that persist | render, score, write the file; reset, next batch, count | all processes of `train_gpt2.cu` |
| demos, benchmarks, kernels and their tests, log tools, lessons, the rest of `llmc/` | - | numeric work, measurement | see section 5 |

Here the difficulties are the ordinary ones of distributed programs: ranks that run different
code between collective operations, files left half written by a kill or a crash, several
processes writing and deleting one set of files, and buffers that keep what an earlier call
left in them. `PROJECT.json` lists each hazard at its line, with the properties that would
catch it.

### What makes each part correct

- BlockManager: every reference is accounted for; a block is shared only between requests with
  the same history up to its end, and only when it is full and computed; eviction and clearing
  never take a block from a reader.
- Scheduler: a request is in exactly the queue its status says; everything in a batch stays
  backed by blocks until it is committed; with a pool of the documented size no step stalls and
  every request finishes.
- Engine and runners: a slot that counts as computed holds the K/V of exactly the request's
  history; batching, chunking, sharing, graphs and failed runs change no output token.
- P/D engine: no page is lost on either side whatever throws; the first token, made on one GPU,
  is neither lost nor repeated when the request moves; decode never waits for pages.
- Training: every token of the corpus is on disk once, or it is known which are lost; ranks train on disjoint tokens, every
  update is made of the whole batch, replicas agree, no rank waits for ever.
- Weights and checkpoints: a file is the model it claims to be; the newest checkpoint is
  complete; resuming after any crash changes nothing in the result.
- Generation and evaluation: each row is a text of its own, sampled after exactly that text; the
  C score is the Python score.

## 2. Modules

| module | models | notes |
|---|---|---|
| `Sequence` | `sequence.hpp` | constants `Requests`, `Prompt`, `MaxNewTokens`, `HonorsEos`; operators used by all serving modules |
| `BlockManager` | `block_manager.hpp` | every operation as an operator over its variables, and `BMSpec`, the most general client that keeps the calling discipline |
| `Scheduler` | `scheduler.hpp` and the step loop of the engines | extends `BlockManager`; the pool's operators are its steps |
| `KVCache` | `paged_kv_cache.hpp` and the device caches | what a slot holds, where a position's slot is, and when a history is intact |
| `Engine` | `gpt2_engine.hpp`, `gpt2_model_runner.hpp`, `prepare_model_input` | extends `Scheduler` and `KVCache` |
| `PDEngine` | `cuda/gpt2_pd_engine.hpp`, `copy_kv_to` | extends `Scheduler` (the decode side) and `KVCache`; the prefill side's pool is an INSTANCE of `BlockManager` |
| `CudaRunner` | `Impl::run` and `forward` of `cuda/gpt2_cuda_model_runner.cu`, the packed builder, the indexing of `paged_attention.cu` | the engine is reduced to "any batch that fits" |
| `Serving` | - | abstract specification of every engine: accepted once, one token at a time, finished for good. `Scheduler` and `PDEngine` implement it |
| `TokenShards` | the three tokenizing scripts, `write_datafile` | a token is a document and a place in it |
| `DataLoader` | both data loaders | operators over the shards |
| `TrainLoop` | both Python training loops | extends `TokenShards` and `DataLoader`: trains on whatever the scripts left |
| `Weights` | import, `write_model`, export | operators over named tensors |
| `Checkpoint` | Python's `.bin` files, then `train_gpt2.cu` with crashes | extends `Weights` |
| `Sampling` | `sample_top_p`, top-k, how results are cut | operators over weights |
| `Autoregress` | - | abstract specification of generation: one text per row, drawn after exactly that text |
| `Evaluation` | scoring, `write_evalfile`, `EvalLoader`, the evaluation loop of `train_gpt2.cu` | operators; extends `Sampling` |
| `LlamaGenerate` | `LLaMA.generate`, `GPT.generate`, validation, `Tokenizer.encode` | extends `Evaluation`; implements `Autoregress` |
| `BlockManagerProofs`, `SchedulerProofs`, `EngineProofs`, `PDEngineProofs`, `CudaRunnerProofs`, `TrainLoopProofs` | - | theorems about `BMSpec`, `Scheduler`, `Engine`, `PDEngine`, `CudaRunner`, `TrainLoop` |
| `ModelProofs` | - | theorems about `Checkpoint` (and `Weights`) and `LlamaGenerate` (and `Sampling`) |
| `SequenceLemmas` | - | induction over numbers in set form, and what `FlattenSeq` computes |
| `MCBlockManager`, `MCScheduler`, `MCEngine`, `MCPDEngine`, `MCCudaRunner`, `MCTrainLoop`, `MCCheckpoint`, `MCLlamaGenerate` | - | instances for TLC |

Variables carry the members' names without the trailing underscore. Positions in code are
counted from 0, blocks of a table in TLA+ from 1. Operators named `X_Y` are faulty variants of
`X` (a dropped guard, an off-by-one, a lost update). Nothing uses them; replacing `X` by one of
them makes a property fail, which shows that the property can. `PROJECT.json` pairs each
property with one.

### Serving

**Sequence.** Prompt tokens are values because they are the cache keys. Generated tokens
are counted: decoding is greedy and nothing depends on their identity except the
end-of-sequence test, which is an arbitrary choice (`eos`) for requests in `HonorsEos`.

**BlockManager.** `prefix_cache` is total over the keys the requests can form, with `NoBlock`
for a missing entry. The loop of evictions in `ensure_capacity` is one step: `victims` is the
order in which it evicts, `EvictionOrder` says it is LRU among entries with reference count
one and stops as soon as the free list is long enough. `EnsureCapacitySucceeds` and
`EnsureCapacityFails` are the two results; a failure keeps the evictions already made, as the
code does. `release` frees in reverse table order, which `Ascending` and the index
`Len(last) + 1 - i` express. `clear_prefix_cache` walks a `std::map` in key order; the order
in which it frees is left open (any permutation), which includes the code's. Duplicate
`live_sequences_` inserts and the `logic_error`s are not guards: the invariants say they cannot
be reached. `prefix_cache_hit_blocks_` is left out.

**Scheduler.** One `step()` is the path idle, running, admit, admit_capacity, model, commit,
sample, release, idle of `pc`; each loop iteration is a step, so that invariants are checked
between any two of them. `try_schedule` on a waiting head is two steps (`AdmitFromCache`,
`Admit`), because its first half is not undone when its second half fails. Between `schedule`
and `commit` the runner may throw (`RunFails`): the output is dropped, reservations stay.
`NoProgress` is the engine's "scheduler made no progress"; the caller may step again. A null
or duplicate request is rejected without any state change and so is only a guard of `Add`.

**KVCache and Engine.** `kv_cache[page][slot]` holds what was computed there: `KVOf(tokens, p)`, the K/V of
position p after exactly those tokens, or `Garbage`. A row (`ForwardRow`) computes the right
value only if every slot it attends to holds the right value; otherwise it writes `Garbage`
and a sample taken from it is `"wrong"`. Freed pages keep their contents, as in the code. Rows
of one micro batch run in any order (OpenMP); the layers of one row are one step. The CPU
engine never clears the cache; `ClearCache` is kept because the CUDA engine shares the loop.
The vocabulary check is left out (token ids carry no meaning here).

**PDEngine.** The decode side is the state of `Scheduler`, unprefixed, with the actions of
`Scheduler` as its steps; the prefill side is the `p_` variables, with the operators of
`P == INSTANCE BlockManager`. `pd_pc` says where inside `step()` the engine is, and `pc` where
inside D's `schedule()` or `commit()`. Neither side has a prefix cache (the constructor enables
none). `try_handoff` makes a new `Sequence` for D; before it, D's view of a request is that
fresh sequence, so the target needs no extra state, and `known_request_ids` tells which of the
two the handle points to. Reservation and copy are two steps: in between D's pages are held by
a request that is in none of D's queues. A copy that throws leaves any of its pages torn
(`Garbage`), gives D's pages back and leaves `step()`. The two runs are separate steps in
either order; each may throw, leaving its slots untouched or torn; `step()` joins both before
it commits or throws (an exception waits for the future's thread as well). That a run will
throw is decided when it is launched, which makes "both runs return" one action that fairness
can name. The engine's documentation promises nothing about a runner after a CUDA error
(`doc/task_11_pd_disaggregation_zh.md`, section 7); as its code lets the caller go on stepping, the
model follows that path, for errors after which the runner still works. A row in `PDEngine` is
a request and a position; a packed batch runs in one step, because the kernel writes all its
K/V of a layer before any row reads them.

**CudaRunner.** One runner and its device memory over many runs. `dev` holds the metadata arrays,
which are overwritten at their front only and keep the rest of an earlier, larger batch; a
captured graph remembers nothing but its shape (rows, logits) and reads whatever the arrays hold
when it is replayed. `<<r, p>>` is the token, and the K/V, of request r at position p; a row
whose page table or context length gives it any other context makes `Garbage`. Each CUDA call
may throw: a copy leaves some arrays new and the others old, an eager pass leaves its slots
torn, and a failure inside a capture may leave the stream capturing, in which case copies are
recorded and not made and every later synchronization throws (`stream`). The arrays have the sizes the constructor gives
them (`Capacity`). Page tables are fixed here, name no page twice and share none; how they come about,
and that a row writes no page another request reads, is `Scheduler`'s and `Engine`'s.

### Training, weights, generation

**TokenShards and TrainLoop.** A script tokenizes one of a few corpora (sequences of document
lengths), writes files of tokens and may be killed in a write, which leaves a file whose header
promises more than it holds, or stop with one of its own exceptions: `fineweb.py` with AttributeError
before it writes (`"stopped"`), or with ValueError between the file it has written and the buffer it
cannot fill (`"overflowed"`), which then still holds what was counted before. The ranks start when the
script has ended and take whatever is there. `files` holds, for each split, the files in
the order in which the loaders sort them. A gradient is the set of the contributions summed
in it (rank, micro-step, window, version of the parameters) and the parameters are the sequence
of updates, so that a missing, repeated or stale contribution is visible. A collective operation
is one step of all ranks, possible when all have come to it (`Together`); DDP's broadcast of
the buffers in a forward pass is one of them, since GPT-2 registers its causal masks as buffers.
The Llama script trained with several ranks, ZeRO, inference-only and overfitting one batch are
command lines in `RunArgs`.

**Weights and Checkpoint.** A tensor says which parameter it holds, how many steps it was trained
for, its precision, its shape and whether it is transposed, and Llama's projections also which rows.
Import, `write_model` and export move these descriptions through the same renaming, splitting,
permutation, padding and casts as the code. `Checkpoint` then lets two ranks of `train_gpt2.cu`
train from Python's file: model file (rank 0), state files, barrier, DONE file and the deletions are
steps of their own, a file that is being written is on disk but not whole, and a crash of the
job is possible between any two of them. Restarts use `-y 1`. `train_data` says how many batches each
training shard has and in which orders the ranks go through the shards; a state file keeps the number of
shards and the samples of the one that was loaded, and `load_state` refuses it when they differ from those
of the shard that the loader has just loaded, the first one of the rank (`LoaderMatches`). What is in a
batch is left out: the batches of a rank are numbered as it reads them.

**Sampling, LlamaGenerate and Autoregress.** The distribution after a text is a constant function
`Probs`; sampling is the set of the tokens it can return, with ties sorted in either order. The
K/V cache holds, per row and position, the tokens its entry was computed after. `Autoregress` has
no cache, no batch and no padding; `GenerateImplementsAutoregress` maps each row to the text
generated so far.

**Evaluation.** An example is a context, endings and a label. The Python side gives the reference
score, `WriteEvalFile` the stream of 16-bit words, and `Evaluate` what one process of
`train_gpt2.cu` counts: the seek to its part, batches filled example by example into buffers of which
only the mask is cleared, and the averages under the mask. `EvaluationsAgree` compares two
evaluations in a row, summed over the processes, with the reference. The pure algorithms
(`NucleusIsSmallest`, `PiecesReassemble`, `EvaluationsAgree`) are checked over all bounded
inputs in the initial state of `LlamaGenerate`, and proved.

## 3. Runs

| run | instance | distinct states | what it shows |
|---|---|---|---|
| `bm` | 3 requests, 3 blocks of 2 tokens | 26 k | the pool's promises under any legal client, plus the agreement of `can_ensure_capacity` and `ensure_capacity` |
| `sched_tight` | 4 requests, 4 blocks, 2 sequences, 4 tokens a step | 122 k | scheduling when memory is short: evictions, failed allocations, heads that keep cache hits, no-progress steps, failing runs; `Scheduler` implements `BMSpec` and `Serving` |
| `sched_ample` | 3 requests, 8 blocks, 2 sequences, 3 tokens a step | 20 k | no stall and every submitted request finishes, under `FairSpec` |
| `sched_pinned` | as `sched_tight` with 3 requests | - | expected violation, see below |
| `engine` | 4 requests (one rejected), 4 blocks, 2 sequences, 3 tokens a step, context 6 | 40 k | cache contents, samples, bounds of the runner; `Engine` implements `Scheduler` |
| `pd` | 4 requests (one rejected), pools of 3 and 4 pages, 2 decode sequences, 2 prefill tokens a step | 151 k | the handoff with its waits, failures and retries: pages, K/V and tokens of both sides, and every accepted request finishes, under `PDFairSpec` |
| `cuda` | 2 requests on interleaved pages of 3 tokens, 3 rows and 2 items a run, 4 modes, one throw | 227 k | rows of a packed batch, samples to their own items with and without pruning and graphs, and service unless a failed capture has left the stream capturing |
| `train` | 6 corpora, 3 scripts, 6 command lines, 1 or 2 ranks, batches of one row of 2 tokens | 31 k | from the corpus to the last optimizer step |
| `train_llama_ddp` | `train_llama3.py` on 2 ranks with sampling | - | expected violation, see below |
| `checkpoint` | 2 layers, 2 ranks, 4 steps, 4 command lines, shards of equal or different sizes, 2 crashes, 3 published forms | 32 k | import, export, checkpoints, resumption and what refuses it |
| `checkpoint_keep_one` | the same with one checkpoint kept | - | expected violation, see below |
| `generate` | 5 tokens, blocks of 5, cache of 2 rows, 7 calls of which 2 in a row; 4 examples in data sets of up to 4, 3 batch sizes, 1 to 4 processes | 5 k | generation on a used cache implements plain sampling; nucleus, tokenizer cuts and evaluation over all bounded inputs |

### Why these bounds are enough to see the interesting cases

*Serving.* Blocks of two tokens give full, partial and boundary blocks with prompts of three to
five tokens. The prompts share two blocks, one block and none; one request's first block has the
tokens of another's second block, which separates a prefix key from a block key; one prompt ends
at a block boundary. `MaxNewTokens` 1 finishes straight after prefill; 2 and 3 decode. Token
budgets 3 and 4 split prompts into chunks and are spent in the middle of a sequence. Four blocks
hold one large request and a small one, so that allocation fails and LRU evicts; eight hold
`max_num_sequences` requests of the largest size (ceil(7/2) = 4 blocks each), the sizing
`NeverStalls` needs. All counters are bounded by the requests themselves, and `cache_clock` by
the number of cache hits and registrations. In the P/D instance the decode pool holds any one of
the three requests and two of them in one combination only, so that handoffs wait for pages and
for slots, two requests are decoded in one batch and finish in it, a prompt is computed in chunks
while the other GPU decodes, and one request may end with its first token. In `cuda` three rows
and two items allow batches of the same shape with different contents, of the same number of
rows with different numbers of samples (the two halves of a graph's key), smaller batches after
larger ones, and prefill and decode in one batch. One throw (`MaxFailures`) at each call; a second
one only adds throws that the stuck stream makes anyway, which are not counted.

*Training.* Shards of ten tokens and batches of two: a last shard that is just long enough for two
ranks and one a token too short, a document longer than a shard, one whose leftover is just a shard
and one that leaves a token more, and a shard filled to the brim. Two ranks are enough to disagree and to wait for each other; three steps with two
micro-steps cross a shard boundary between the ranks. In `checkpoint` two query heads and one key
head of four rows tell a permutation per head from one of all rows; five tokens padded to eight
tell padding; four steps with two kept checkpoints delete two of them, or spare every third; two
crashes (`MaxCrashes`) allow a crash after a resumption. A step takes one batch of each rank. Of the
training data, two equal shards are read over two epochs in opposite orders; in the other set the second of
three shards has a batch more than the rest, so that a resumption is accepted after steps 1 and 4 and
refused after 2 and 3. In `generate` two calls with prompts of different
lengths leave a longer and a shorter history in the cache; both loops end by stop tokens and by
length; data sets of one to four examples give processes a full, a partial and an empty last batch,
and the endings separate an average from a sum and a tie from a strict minimum.

`CHECK_DEADLOCK` stays on where the programs have one proper end (`Done`, `EngineDone`, `PDDone`); it
is off in `train`, `checkpoint` and `generate`, whose programs end in several ways.
`clear_prefix_cache` and failing runs can repeat without bound but change nothing that counts.

### Fairness

- `FairSpec` of `Scheduler`: the caller keeps stepping an engine that has work and a step, on one
  thread with bounded loops, runs to its end: weak fairness of `EngineStep`. A run may fail any
  number of times but not for ever: strong fairness of `RunSucceeds`, the one assumption that
  comes from the environment (`doc/task_01_gpt2_model_runner_zh.md` gives no retry guarantee
  after a failure; the loop itself allows the retry). Nothing is assumed of arrivals or cache
  clearing.
- `PDFairSpec`: the same two assumptions of the P/D engine, weak fairness of its step and strong
  fairness of the copy that succeeds and of the step whose runs both return. Failing copies and
  runs may alternate in any pattern that is not for ever.
- `CudaRunner`: weak fairness of `Progress` (the caller keeps calling, a CUDA call returns or
  throws).
- `TrainLoop`: weak fairness of the whole next-state relation; no behaviour repeats, so it is
  enough that the machine does not stop.
- `Checkpoint`: weak fairness of starting, resuming, the training step and each rank's own steps:
  somebody restarts the job after a crash (`-y 1`), and its processes run.

### The violations

- `sched_pinned`. `doc/task_08_prefix_cache_zh.md:684` explains that a cached page with two or
  more references is being read by an active sequence. The head of `waiting_` is a
  counterexample: `try_schedule` takes its cache hits before it asks for capacity and does not
  give them back when that fails, so pages stay pinned for a request that is still waiting.
  What does hold with a pool of the documented size is `NeverStalls`.
- `train_llama_ddp`. `train_llama3.py:1168-1173` samples through `model`, which under DDP is the
  wrapper and has neither `generate` nor `tokenizer`; the first sampling on rank 0 ends the run.
  `train_gpt2.py` uses `raw_model`.
- `checkpoint_keep_one`. With `-nk 1`, a rank other than 0 deletes its state file of the previous
  step as soon as it has passed the barrier, before rank 0 has written the new DONE file: for that
  moment the newest DONE file belongs to an incomplete checkpoint. With two or more checkpoints
  kept `NewestIsComplete` holds (`checkpoint`).

Three remarks without a run. `train_gpt2.cu:1358` gives as the goal "that we can resume optimization from
any checkpoint, bit-perfect", and `llmc/dataloader.h:176` allows shards of different sizes. But
`load_state` compares the samples of the shard that was loaded at the checkpoint with those of the
shard that is loaded at the start (`train_gpt2.cu:1303`), before `dataloader_resume` loads the right one
(`:1310`). With the shuffled loader and shards of different sizes, such as the short last one of
`fineweb.py`, a whole checkpoint can be refused, and every restart refuses it again.
`TrainingEnds` allows for this end and no other, and by `OnlyUnequalShardsRefuse` there is none with
shards of one size, or a single one as of `tinyshakespeare.py`. `LLaMA.generate` with `echo=True` returns an empty row for a prompt that
starts with `<|begin_of_text|>`, because that is one of the stop tokens it cuts at
(`train_llama3.py:543-552`). `EvalLoader` asserts only that there are at least as many examples as
processes, while ceil(N/P) * (P-1) can exceed N, in which case the seek of the last processes runs
into the end of the file (`llmc/dataloader.h:303-334`); `EvaluationsAgree` is about the configurations
that start and whose examples are shorter than a row, which `EvalLoader` asserts of each one it reads
(`ExamplesFit`, `llmc/dataloader.h:415` and `:429`; the sum it checks when it opens the file is weaker).

## 4. Proofs

The theorems on the serving engines hold for every set of requests, prompts and limits, every block size and
every pool, from the assumptions named in the modules: `SequenceAssumption` (finitely many requests,
non-empty prompts, at least one new token), `BlockManagerAssumption`, `SchedulerAssumption` and
`EngineAssumption` (positive sizes), and `PDAssumption` (what the P/D engine's constructor sets: no
prefix cache, one limit for tokens and sequences of a decode batch; and a null request that is none
of the requests). Those on the CUDA runner hold for every capacity, number of requests and of failed
runs, from `CudaAssumption` (positive sizes; page tables that are long enough and disjoint). Those on training
hold for every corpus, shard and batch size, number of ranks, steps and micro-steps and every set of
command lines, from `TokenShardsAssumption`, `DataLoaderAssumption` and `TrainLoopAssumption` (positive
sizes and counts, documents of at least their end-of-text token); those on checkpoints for every
number of ranks, steps and crashes, all shards and orders of reading them and every set of command lines,
from `CheckpointAssumption` (positive sizes; the permutations of enough epochs for the steps); those on
import and export for every size of a model, from `WeightsAssumption` (positive sizes; an even head
dimension and query heads in whole groups per key head, as the importer's reshapes need; a vocabulary that is
padded, to a size that is no other first dimension, because the exporter recognises the embedding by its
number of rows). Those on
generation hold for every finite vocabulary, model (`Probs`), block and cache size and every set of calls, from
`SamplingAssumption` and `GenerateAssumption`: prompts are not empty and do not contain the padding token,
those of one call of `GPT.generate` have one length (they are a tensor), and a top-p threshold is below the
mass of every distribution, which is 1 in the code; the pieces of a prompt need `EncodeAssumption` (positive limits). The modules they are about declare no RECURSIVE operator.

| module | theorem | states |
|---|---|---|
| `BlockManagerProofs` | `PoolInvariant` | `BMSpec => []PoolInv` |
| | `TypeCorrectness` | `[]TypeOK`; no reference count goes below zero |
| | `ReferencesAreAccounted` | `[]` of `RefCountsOwners`, `FreeListExact`, `NoAliasing`, `LiveIffHolding` |
| | `SharingIsSound` | `[]` of `SharedBlocksAgree`, `CacheCoherent` |
| | `WritesAreIsolated` | `[]WriteIsolation` |
| | `ReadersAreNotRobbed` | `ReadersKeepBlocks`, an action property |
| `SchedulerProofs` | `SchedulerInvariant` | `Spec => []SchedulerInv` |
| | `KeepsCallingDiscipline` | `Scheduler` implements `BMSpec` |
| | `EngineLoopSharesSafely` | so the pool's promises hold of the step loop |
| | `BatchStaysBacked` | `[]ItemsBacked` |
| | `NoExceptions` | `[]NoLogicError` |
| | `RequestsAreQueuedOnce` | `[]QueuesPartitionRequests` |
| | `ImplementsServing` | `Scheduler` implements `Serving` |
| | `NeverStallsWithRoom` | `[]NeverStalls`, if the pool has room for `max_num_sequences` requests |
| `EngineProofs` | `EngineIsScheduler` | `Engine` implements `Scheduler` |
| | `KVIsAlwaysCoherent` | `[]KVCoherent` |
| | `SamplesAreAlwaysGreedy` | `[]SamplesAreGreedy` |
| | `RunnerStaysInBounds` | `[]RunnerInBounds` |
| `PDEngineProofs` | `PagesStayAccounted` | `[]PagesAccounted`, on both GPUs |
| | `DecodeNeverWaits` | `[]EveryDecodeAdvances` |
| | `CachesStayCoherent` | `[]PDKVCoherent`: both K/V caches, and every token sampled |
| | `PDServesLikeAnyEngine` | `PDEngine` implements `Serving` |
| `CudaRunnerProofs` | `PackedLikeMicroSteps` | `[]PackedSpansItems` |
| | `SamplesStayOwn` | `[]SamplesBelongToItems`, with and without pruning and graphs |
| `TrainLoopProofs` | `FilesCarryTheCorpus` | `[]ShardsCarryTheCorpus` |
| | `EveryBatchIsThere` | `[]NextBatchInBounds` |
| | `DisjointTokens` | `[]RanksTrainOnDisjointTokens` |
| | `UpdatesAreWhole` | `[]StepUsesWholeBatch` |
| | `ReplicasStayEqual` | `[]ReplicasAgree` |
| `ModelProofs` | `ResumeNeverDiverges` | `[]ResumeIsBitPerfect` |
| | `NewestStaysComplete` | `[]NewestIsComplete`, if no command line keeps exactly one checkpoint |
| | `OnlyUnequalShardsRefuse` | with the same condition: a job fails to resume only by `Refused`, the loader's assertions on shards of different sizes |
| | `GenerationIsAutoregressive` | `LlamaGenerate` implements `Autoregress` |
| | `CacheStaysOwn` | `[]CacheHoldsOwnText` |
| | `TopPDrawsANucleus` | nucleus sampling by sorting, for all weights and thresholds |
| | `NucleusStaysSmallest` | `[]NucleusIsSmallest` |
| | `EncodeCutsIntoPieces` | how a prompt is cut, for all texts and limits |
| | `PiecesAlwaysReassemble` | `[]PiecesReassemble` |
| | `UnpermuteUndoes` | the un-permutation of query and key rows, for all heads and dimensions |
| | `ImportsAreComplete` | `[]ImportIsComplete` |
| | `ExportsAreTheModel` | `[]ExportIsTheModel` |
| | `EvaluationsAlwaysAgree` | `[]EvaluationsAgree` |

**The pool.** `PoolInv` is a conjunction of seven invariants; none is inductive alone. Types need
the accounting (a decrement stays in `Nat` only if a reference exists); the accounting needs that no
table names a block twice (`release` gives back one reference per entry) and no block is under two
keys (eviction gives back one). A block taken from the free list or evicted has count 0 or is held
by the cache alone, so by the accounting no table holds it: a fresh block is unshared and uncached. A
cache hit gives a block whose other readers, by `CacheCoherent`, read it under the same key, hence
at the same position with the same tokens and fully computed. Registration puts a block in the cache
only when it is full, computed and its key absent; that it was not cached under another key follows
from `CacheCoherent` for its own reader. There is one preservation lemma per operation and one step
per conjunct it can disturb; `WriteIsolation` and `ReadersKeepBlocks` are consequences.

**The scheduler.** The pool keeps its promises only to a client that keeps the calling discipline,
and the scheduler keeps it only while the pool keeps its promises, so the two are proved together:
`SchedulerInv` is `PoolInv` with the scheduler's own types and queues, what is known of each request
(`RequestsInv`) and of a running one (`RunningInv`: it has a token to compute), what `schedule()`
made sure of for an item and nothing spoils until its commit (`BatchInv`), and what each place
in the loop knows (`StageInv`). Every action is shown to be a step of the pool's client or to leave
the pool alone, which gives its conjunct from the first module, and then to keep the rest. The
refinement of `Serving` needs `StageInv` for the one step that appends a token.

**No stalls.** `NeverStallsWithRoom` assumes what the documented pool size gives: a `quota` of blocks
that is enough for every request and fits `max_num_sequences` times. `QuotaInv` says who may hold blocks:
the sequences of `running_` and, while there is a place left for it, the head of `waiting_` (cache hits of a failed
admission), so at most `max_num_sequences` requests, none more than its quota; a finished one holds
blocks only until its `release`, which is why leaving `running_` frees the whole share. Cached blocks
are outside these shares, but one that nobody reads is evictable. So the blocks are the free ones, the
evictable ones, the request's own and those of at most `max_num_sequences - 1` others, and counting them
(`OthersBound`, `ReservationFits`) shows that no reservation of the step loop can fail. `StartInv` carries that
to the end of `schedule()`: as long as nothing is scheduled, somebody is left, and his turn comes with the
whole budget. The instance of `sched_ample` meets the assumption exactly (2 times 4 blocks, 8 in the
pool), and TLC also checked `QuotaInv` and `StartInv` on it before they were proved.

**The engine.** `KVCoherent` is not inductive: a lookup hands a waiting request cached blocks nobody
may be reading, so `KVInv` also says that a cached block holds the K/V of its key
(`CachedKVCoherent`), and a run writes ahead of what sequences count as computed, so `RunInv` says
how far each item has been written (`Written`, `ItemHolds`) up to its commit. `RoomInv` bounds the
block tables from both sides and `ContextInv` remembers the check of `add_request`. A row writes
one slot of a block that, by `WriteIsolation`, no other table names and no key caches at that position,
so nothing else that must be right is disturbed. `SchedulerInv` comes for free because
`EngineIsScheduler` is proved first.

**The P/D engine.** The lemmas about the pool are used twice: the decode side is the state they are
stated for, and `PP == INSTANCE BlockManagerProofs` gives them for the prefill side (with lemmas that
`P` and `PP` are the same pool). `PDInv` joins `SchedulerInv` of the decode side, which must survive what
`try_handoff` does from outside it (a reservation for a request in none of its queues, a request that
arrives already started), with `DecodeInv` and `PrefillInv`, how many pages each side holds for a
request; `Places`, which says where every request is and how far P has come with it; and `Control`, which
ties `pd_pc` to D's `pc`. The size of a table on D is constant from reservation to release because D
reserves at once what `ReserveIsEnough` shows is all the request can need, so `ensure_capacity` never
changes it again. `DecodeNeverWaits` adds `AdvanceInv`: a request on D has one token to compute and the
batch so far is the first requests of `running_`, one token each; with at most `max_decode_sequences`
requests on D neither loop of `schedule()` stops early. That bound needs `PlaceReserved`, what
`try_handoff` has checked before the reservation and still holds after the copy.

On top of `PDInv`, `CacheInv` says what both K/V caches hold. A row writes one slot of a page that, by
the accounting, no other request has on that side; so a run extends the histories of its own items
(`RowsExtendHistory`) and leaves every other alone, and a torn run spoils only slots that do not count as
computed. A copy brings the pages of a whole computed prompt to pages the request has just reserved, so D
starts from the same history. The two runs are separate steps, and what each has stored must be known until
the other has returned and both are committed: that is `RunControl` with the conjuncts about `p_run` and
`d_run`. The refinement of `Serving` takes the tokens of a request from P's sequence before the handoff and
from D's after it; `HandleInv` says that a sequence P has finished is never handed over, which keeps
the first token from being counted twice.

**The CUDA runner.** `RunnerInv` has to say what survives from one run to the next. Of the device
arrays, nothing does: `DeviceInv` says that from the copy to the read-back they begin with this run's rows,
whatever a larger batch has left behind them, unless the stream is stuck capturing, when no run returns.
Of the graphs, that each has the shape its key stands for (`GraphsInv`), so that a replay does what an
eager pass would do with the rows copied last. Of the cache, that every computed position is at its
slot (`CacheInv`); a torn pass spoils slots of positions not computed, and the slots of distinct positions
differ (`SlotsDiffer`). Where the rows of a packed batch are follows from `FlattenPlaces`; a pruned sample
is found because the index of an item's sample counts the completed items up to it.

**Training.** `TrainLoopProofs` follows the program. `ShardsInv` says that the scripts' files and buffer
carry the documents taken so far, in whatever pieces (`CorpusCarried`), or after a ValueError a beginning of
them, all but the end of the last document (`OverflowLeaves`), and that a fineweb shard written
before the last is full; it is about concatenation, which is where `FlattenSeq` and induction come in.
`DataInv` adds the loaders: a position is on the grid of its rank (`OnGrid`), the window behind it is in
the file, and what is in a gradient was computed at such positions. Positions of different ranks differ by
whole batches, so their inputs are disjoint even in different rounds and shards. `ReplicaInv` adds
the parameters. `GradInv` says which contributions a gradient has at each place of the loop, `UpdateInv` that every
update is made of whole batches (`WholeBatch`), `LockstepInv` that ranks which have not failed have been
through the same number of averagings, and `AgreeInv`, which makes it inductive, that what a slower rank is
about to apply is what the faster ones have applied. A rank that fails keeps its parameters, so the
theorems speak of dead ranks as well.

**Induction.** The library's induction theorems take the predicate as an operator parameter, which no
installed prover can instantiate. `SetInduction` takes it as a set: a set of numbers that holds 0 and the
successors of its members holds them all, because a non-empty set of numbers has a least one. With it
`SequenceLemmas` proves of the recursive function in `FlattenSeq`, for all sequences of sequences, what it
does with one more sequence (`FlattenAppend`) and where it puts each element (`FlattenPlaces`).

**Checkpoints.** Ranks start, fail and crash together and train in one step, so all running ranks
are at the same step n. `LockStepInv` says so, and that every file on disk, whole or not, holds what
an uninterrupted run has at its step; then whatever a restart loads is right, and one more step
appends one more update (`UninterruptedStep`). `NewestIsComplete` is harder, because the other ranks
delete files of an old checkpoint before rank 0 has written the DONE file of the new one. `DiskInv`
therefore also says of the newest step that every checkpoint due in the period before it has its DONE
file, and `RunningInv` the same of step n, and that n has none while a rank has still to write its part.
A checkpoint that is deleted is, with two or more kept, more than one period older than n
(`DeletesOld`), and one is due in between (`DueBefore`), so what is deleted is never the newest. With
one kept this step of the argument fails, and the run `checkpoint_keep_one` shows that the property does.
`LoaderInv` says that a state file has the loader's number of shards and, with shards of one size, their
number of samples, because a rank reads the shard of a step within `ShardsRead` (`ReadsItsShards`); since the
newest checkpoint is whole, nothing else can keep it from being loaded (`ResumeIsRefused`).

**Generation.** `GenInv` says of `LLaMA.generate` (`LlamaLoop`) that each row carries its prompt and, up to
`cur_pos`, what it has generated; that up to `prev_pos` its part of the cache is its own prefixes, each
computed after the one before (`WrittenHolds`); and that a row counted as stopped has a stop token
after its prompt. Nothing is said of the cache beyond `prev_pos`, where earlier calls have left theirs: the
first pass of a call starts at 0 and overwrites what it reads. Of `GPT.generate` (`GPTLoop`) it says that
all rows have `cur_pos` tokens. The refinement maps each row to `Text(i)`. A step of the loop appends one token
to the texts that `cur_pos` has reached and leaves longer prompts alone (`GenerateTokenExtends`), and the token
is one that plain sampling allows (`AllowedAreDraws`), which rests on `TopPDrawsANucleus`. The result is cut
from the padded rows, and `CutOfText` shows that this is what cutting the text gives: a row that
is not full has a stop token before its padding.

**Nucleus sampling.** `Mass` of a set is the cardinality of its tokens' units, one per unit of weight,
so that the theorems on finite sets give its additivity. The code keeps a token if the mass sorted before it does
not exceed the threshold. The tokens strictly heavier than it are always before it; hence a token can be drawn
exactly if their mass does not exceed the threshold (`DrawsAreHeavy`). From such a token a smallest sufficient set is
made out of any other by exchanging a token (`NucleusSwap`), and conversely a token with more than the
threshold before it can be left out of any sufficient set.

**Tokenizing a prompt.** `SplitInv` is the loop invariant of `_split_whitespaces_or_nonwhitespaces`: the
pieces so far and the text before `start` are the same, and in the current piece the run that ends at the
current character is as long as `len` says or begins with the piece. A new character then ends no run of more than
`MaxConsecutive` characters (`RunsStayShort`). `Split` is a recursive function; that it is defined for
every text (`SplitsExist`) and has the invariant follows by `SetInduction`.

**Import and export.** These are not about steps but about what becomes of a state dict.
`GPT2Places` and `LlamaPlaces` say at which place of the file each parameter of each layer is written:
the order lies in three stretches, the middle one by kind and then by layer, so a place determines kind and
layer by a division (`KeyPlaces`). The Llama importers rename, join query, key and value rows, and the Hugging Face one
un-permutes them first; `UnpermuteUndoes` is an argument about indices, head by head: a row x of a head's
first or second half goes to 2x or 2x + 1 - d and back. For the exporter, `ReadBack` says that splitting the file by
the header's sizes gives the tensors that were written, `PaddedVocabulary` that one more multiple of the padding is
the number of rows the exporter cuts, and `ExportsTheModel` follows the key, the transposition and the two casts of each
tensor. Of the state only `WrittenInv` is needed: how many tensors of a Python file are there.

`EvaluationsAlwaysAgree` holds for all sizes of the data set, the batch, the row and the number of processes, from
`EvaluationAssumption` (contexts and endings are not empty, each example has `NumCompletions` endings and a label among them,
sizes are positive). First the file: `PlacesInStream` says where each example lies in the stream, `ReadsTheExample` that reading there gives
it back, `SkipIs` that the seek ends at it or past the last one. Then a row: under `RowHolds`, tokens and mask of one ending, its average
is what Python computes of its padded row (`RowScores`, `RenderedScores`), whatever the rest of the row still holds. The
invariant of a batch (`FilledTo`) has the examples taken so far in its first places and a clear mask in the others; reading an example into a
place leaves the other places as they are (`OtherPlaces`, by `RowsApart`). So a batch counts the examples it took that are right
(`BatchCounts`), an evaluation those of its process (`EvaluationCounts`, from any loader of the right shape, hence also the second time), and the
parts of the processes are the data set (`RanksAdd`). The words of the stream are unbounded here; `write_evalfile` asserts that each fits in
16 bits, so every file it writes is covered.

**Only model-checked.** Liveness (the `...Finishes` and `...Ends` properties and `ServesUnlessStuck`) and
`CapacityOracle` (its statement uses ENABLED) are out of the prover's reach.

## 5. Not modelled

- Floating-point work: kernels, the arithmetic of the forward and backward passes, losses, gradient
  clipping, mixed precision, and the tests that compare them (`train_gpt2.c`, `train_gpt2_fp32.cu`,
  `test_gpt2*`, `dev/cuda`).
- Memory allocation and its failure; `int` overflow checks of sizes; statistics and timing.
- Downloads and byte-pair encoding; the merging of tokens inside a piece.
- The training step of `train_gpt2.cu` inside (one step of all ranks in `Checkpoint`), its outlier
  detector, `-a 1` (one batch again and again, without shuffling), the rest of `llmc/` (which tokens a
  batch of the shuffling `DataLoader` holds, the tokenizer table, NCCL plumbing).
- Demos, serving benchmarks, log tools, launch scripts and lessons: sequential scripts that keep no
  state of the system. The lesson's dense attention is the reference `CudaRunner` compares the paged
  one with.
- In the CUDA runner: cuBLAS, weight initialisation, the precision of the KV cache.

## 6. Plan

Done: the serving stack with its proofs up to both engines and the CUDA runner, the training path with
its proofs from the corpus to the parameters, import, export and checkpoints with their proofs, and
generation and evaluation with their proofs. Every safety invariant of the runs but `CapacityOracle` is
a theorem; what is left is outside the prover's reach (see above) or not modelled.
