---------------------------- MODULE MCTrainLoop ----------------------------
(***************************************************************************)
(* Instances of TrainLoop: batches of one row of two tokens, shards of ten *)
(* tokens, at most two processes.                                          *)
(***************************************************************************)
EXTENDS TrainLoop

\* A last shard that is just long enough for two processes, and one that is a token too
\* short for them; a first document longer than a shard; a document whose leftover
\* is just a shard, and one that leaves a token more; a shard that a leftover and the next
\* document fill to the brim.
MCCorpora == {<<6, 9, 10>>, <<6, 9, 9>>, <<12>>, <<5, 15>>, <<5, 16>>, <<5, 14, 3>>}

Plain ==
  [program |-> "gpt2", world |-> 2, overfit_single_batch |-> FALSE, inference_only |-> FALSE,
   write_tensors |-> TRUE, val_loss_every |-> 2, val_max_steps |-> 2, sample_every |-> 1,
   grad_accum_steps |-> 2, warmup_iters |-> 1, num_iterations |-> 3, zero_stage |-> 0]

\* GPT-2 on two processes (with gradient accumulation; with the ZeRO optimizer, on one
\* batch; without training) and on one; Llama on two without sampling, and on one with it.
MCRunArgs ==
  {Plain,
   [Plain EXCEPT !.zero_stage = 1, !.overfit_single_batch = TRUE, !.grad_accum_steps = 1],
   [Plain EXCEPT !.inference_only = TRUE, !.num_iterations = 1],
   [Plain EXCEPT !.world = 1, !.warmup_iters = 0],
   [Plain EXCEPT !.program = "llama3", !.sample_every = 0, !.val_loss_every = 1],
   [Plain EXCEPT !.program = "llama3", !.world = 1]}

\* Llama on two processes that samples.
MCSamplingArgs == {[Plain EXCEPT !.program = "llama3", !.num_iterations = 1]}
=============================================================================
