----------------------------- MODULE TrainLoop ------------------------------
(***************************************************************************)
(* The training programs train_gpt2.py and train_llama3.py, from the token *)
(* files to the last step: args.world processes (ranks) started by         *)
(* torchrun, or one without it, each with its loaders, its copy of the     *)
(* model and its gradients.                                                *)
(*                                                                         *)
(* Values are abstract.  A gradient is the set of the contributions summed *)
(* in it, one per backward pass; the parameters are the sequence of the    *)
(* updates made to them.  A collective operation is one step of all ranks, *)
(* possible when all of them have come to it.                              *)
(***************************************************************************)
EXTENDS TokenShards, DataLoader

CONSTANT RunArgs  \* the command lines the programs may be run with

ASSUME TrainLoopAssumption ==
  \A a \in RunArgs :
    /\ a.program \in {"gpt2", "llama3"} /\ a.world \in Nat \ {0}
    /\ {a.overfit_single_batch, a.inference_only, a.write_tensors} \subseteq BOOLEAN
    /\ {a.val_loss_every, a.val_max_steps, a.sample_every, a.warmup_iters} \subseteq Nat
    /\ {a.grad_accum_steps, a.num_iterations} \subseteq Nat \ {0}
    /\ a.zero_stage \in 0..3

VARIABLES
  args,          \* the command line
  pc,            \* where each rank is; "done", "dead" or "killed" in the end
  died,          \* what a dead rank died of
  step,          \* the loop variable
  micro_step,    \* the inner one, of the training and of the validation loop
  train_loader,
  val_loader,
  batch,         \* the window fetched last: its shard and position
  grads,         \* the gradients of each rank
  params,        \* the parameters of each rank
  param_sync     \* DDP: whether the next forward pass broadcasts the buffers

trainVars == <<args, pc, died, step, micro_step, train_loader, val_loader, batch,
               grads, params, param_sync>>
loopVars == <<step, micro_step>>
dataVars == <<train_loader, val_loader, batch>>
modelVars == <<grads, params, param_sync>>

Ranks == 0..(args.world - 1)
ddp == args.world > 1
InDDP(r) == ddp
Master(r) == r = 0
Shards(split) == files[split]

TrainInit ==
  /\ args \in RunArgs
  /\ pc = [r \in Ranks |-> "load"] /\ died = [r \in Ranks |-> "no"]
  /\ step = [r \in Ranks |-> 0] /\ micro_step = [r \in Ranks |-> 0]
  /\ train_loader = [r \in Ranks |-> NoShard] /\ val_loader = [r \in Ranks |-> NoShard]
  /\ batch = [r \in Ranks |-> <<0, 0>>]
  /\ grads = [r \in Ranks |-> {}] /\ params = [r \in Ranks |-> <<>>]
  /\ param_sync = [r \in Ranks |-> TRUE]

Goto(r, place) == pc' = [pc EXCEPT ![r] = place] /\ UNCHANGED died
Dies(r, why) == pc' = [pc EXCEPT ![r] = "dead"] /\ died' = [died EXCEPT ![r] = why]

\* The ranks that take a step together: every rank if it is a collective operation of r,
\* and all of them have come to it; r alone if it is local.
Together(r, place, Collective(_)) ==
  IF ~Collective(r) THEN IF pc[r] = place THEN {r} ELSE {}
  ELSE IF \A q \in Ranks : pc[q] = place /\ Collective(q) THEN Ranks ELSE {}
GotoAll(group, place) ==
  /\ pc' = [q \in Ranks |-> IF q \in group THEN place ELSE pc[q]]
  /\ UNCHANGED died

-----------------------------------------------------------------------------
(***************************************************************************)
(* Before the loop.                                                        *)
(***************************************************************************)
\* Both loaders are made once the scripts have run; the first shard of each is loaded.
Sound(split) ==
  /\ Validates(Shards(split), args.program, args.world)
  /\ Loadable(Shards(split)[1])

MakeLoaders(r) ==
  /\ pc[r] = "load" /\ script_pc # "running"
  /\ IF Sound("train") /\ Sound("val")
     THEN /\ train_loader' = [train_loader EXCEPT ![r] = ResetLoader(NoShard, r)]
          /\ val_loader' = [val_loader EXCEPT ![r] = ResetLoader(NoShard, r)]
          /\ Goto(r, "reference")
     ELSE Dies(r, "data") /\ UNCHANGED <<train_loader, val_loader>>
  /\ UNCHANGED <<batch, loopVars, modelVars, args>>

\* next_batch of a training loader, after which rank r goes on to place; it dies if the
\* loader moves to a shard that is not whole.
FetchBatch(r, place) ==
  LET loader == train_loader[r]
      moved == AfterBatch(loader, Shards("train"), r, args.world)
  IN /\ batch' = [batch EXCEPT ![r] = <<loader.loaded, loader.current_position>>]
     /\ train_loader' = [train_loader EXCEPT ![r] = moved]
     /\ IF Loadable(Shards("train")[moved.loaded]) THEN Goto(r, place) ELSE Dies(r, "data")
     /\ UNCHANGED <<val_loader, loopVars, modelVars, args>>

\* The pass that writes a reference for the C programs: the master only, on the model
\* before DDP wraps it, so that the others wait for it in DDP's constructor.
WritesReference(r) == Master(r) /\ args.write_tensors /\ ~args.inference_only

Reference(r) ==
  /\ pc[r] = "reference"
  /\ IF WritesReference(r) THEN FetchBatch(r, "reference_pass")
     ELSE Goto(r, "wrap") /\ UNCHANGED <<dataVars, loopVars, modelVars, args>>

\* What rank r's backward pass adds to a gradient.
Contribution(r, micro) ==
  [version |-> Len(params[r]), rank |-> r, micro_step |-> micro,
   shard |-> batch[r][1], position |-> batch[r][2]]

ReferencePass(r) ==
  /\ pc[r] = "reference_pass"
  /\ grads' = [grads EXCEPT ![r] = {Contribution(r, -1)}]
  /\ train_loader' = [train_loader EXCEPT ![r] = ResetLoader(@, r)]
  /\ Goto(r, "wrap")
  /\ UNCHANGED <<val_loader, batch, loopVars, params, param_sync, args>>

\* DDP(model): a collective operation.
Wrap(r) ==
  LET group == Together(r, "wrap", InDDP)
  IN /\ r \in group
     /\ GotoAll(group, "top")
     /\ UNCHANGED <<dataVars, loopVars, modelVars, args>>

-----------------------------------------------------------------------------
(***************************************************************************)
(* The loop up to the training section.                                    *)
(***************************************************************************)
LastStep(r) == step[r] = args.num_iterations
Due(r, every) == every > 0 /\ (step[r] % every = 0 \/ LastStep(r))

ValidationDue_MasterOnly(r) == Master(r) /\ Due(r, args.val_loss_every)
ValidationDue(r) == Due(r, args.val_loss_every)

Top(r) ==
  /\ pc[r] = "top"
  /\ IF ValidationDue(r)
     THEN /\ val_loader' = [val_loader EXCEPT ![r] = ResetLoader(@, r)]
          /\ micro_step' = [micro_step EXCEPT ![r] = 0]
          /\ IF Loadable(Shards("val")[1]) THEN Goto(r, "validate") ELSE Dies(r, "data")
     ELSE Goto(r, "sample") /\ UNCHANGED <<val_loader, micro_step>>
  /\ UNCHANGED <<step, train_loader, batch, modelVars, args>>

Validate(r) ==
  /\ pc[r] = "validate"
  /\ IF micro_step[r] < args.val_max_steps
     THEN LET moved == AfterBatch(val_loader[r], Shards("val"), r, args.world)
          IN /\ val_loader' = [val_loader EXCEPT ![r] = moved]
             /\ IF Loadable(Shards("val")[moved.loaded])
                THEN Goto(r, "validate_forward") ELSE Dies(r, "data")
     ELSE Goto(r, "sample") /\ UNCHANGED val_loader
  /\ UNCHANGED <<train_loader, batch, loopVars, modelVars, args>>

\* DDP's forward broadcasts the buffers from rank 0 if there are any (the causal masks of
\* GPT-2; Llama registers none) and the forward before it was one that would sync.
Broadcasts(r) == ddp /\ args.program = "gpt2" /\ param_sync[r]

ValidateForward(r) ==
  LET group == Together(r, "validate_forward", Broadcasts)
  IN /\ r \in group
     /\ GotoAll(group, "validate")
     /\ micro_step' = [q \in Ranks |-> micro_step[q] + (IF q \in group THEN 1 ELSE 0)]
     /\ param_sync' = [q \in Ranks |-> param_sync[q] /\ q \notin group]
     /\ UNCHANGED <<step, dataVars, grads, params, args>>

\* Sampling on the master: train_gpt2.py generates with raw_model; train_llama3.py asks
\* model, which under DDP is the wrapper and has neither generate nor tokenizer.
SamplingDue(r) == Master(r) /\ Due(r, args.sample_every)

Sample(r) ==
  /\ pc[r] = "sample"
  /\ IF SamplingDue(r) /\ args.program = "llama3" /\ ddp
     THEN Dies(r, "sampling")
     ELSE Goto(r, IF LastStep(r) THEN "destroy" ELSE "train")
  /\ UNCHANGED <<dataVars, loopVars, modelVars, args>>

-----------------------------------------------------------------------------
(***************************************************************************)
(* The training section.                                                   *)
(***************************************************************************)
ZeroGrad_Forgotten(r) == grads' = grads
ZeroGrad(r) == grads' = [grads EXCEPT ![r] = {}]

BeginTraining(r) ==
  /\ pc[r] = "train"
  /\ ZeroGrad(r)
  /\ train_loader' = IF args.overfit_single_batch
                     THEN [train_loader EXCEPT ![r] = ResetLoader(@, r)] ELSE train_loader
  /\ micro_step' = [micro_step EXCEPT ![r] = 0]
  /\ IF Loadable(Shards("train")[train_loader'[r].loaded]) THEN Goto(r, "fetch")
                                                           ELSE Dies(r, "data")
  /\ UNCHANGED <<step, val_loader, batch, params, param_sync, args>>

Fetch(r) == pc[r] = "fetch" /\ FetchBatch(r, "forward")

\* model.require_backward_grad_sync
GradSync_FirstMicroStep(r) == ddp /\ micro_step[r] = 0
GradSync(r) == ddp /\ micro_step[r] = args.grad_accum_steps - 1

Forward(r) ==
  LET group == Together(r, "forward", Broadcasts)
  IN /\ r \in group
     /\ GotoAll(group, "backward")
     /\ param_sync' = [q \in Ranks |-> IF q \in group THEN GradSync(q) ELSE param_sync[q]]
     /\ UNCHANGED <<dataVars, loopVars, grads, params, args>>

ReducesGrads(r) == GradSync(r) /\ ~args.inference_only

\* The backward pass adds to the gradients; in a syncing one DDP then replaces them by
\* their average over the ranks, whatever has been accumulated in them.
Backward(r) ==
  LET group == Together(r, "backward", ReducesGrads)
      added == [q \in group |-> IF args.inference_only THEN grads[q]
                                ELSE grads[q] \cup {Contribution(q, micro_step[q])}]
  IN /\ r \in group
     /\ grads' = [q \in Ranks |-> IF q \notin group THEN grads[q]
                                  ELSE IF ReducesGrads(r) THEN UNION {added[p] : p \in group}
                                  ELSE added[q]]
     /\ micro_step' = [q \in Ranks |-> micro_step[q] + (IF q \in group THEN 1 ELSE 0)]
     /\ GotoAll(group, IF micro_step[r] + 1 < args.grad_accum_steps THEN "fetch" ELSE "loss")
     /\ UNCHANGED <<step, dataVars, params, param_sync, args>>

\* dist.all_reduce(lossf)
ReduceLoss(r) ==
  LET group == Together(r, "loss", InDDP)
  IN /\ r \in group
     /\ GotoAll(group, "optimize")
     /\ UNCHANGED <<dataVars, loopVars, modelVars, args>>

\* get_lr as a fraction of the learning rate: rising to it, or how far the cosine decay
\* from it has come.
get_lr(it) ==
  IF it < args.warmup_iters
  THEN [phase |-> "warmup", num |-> it + 1, den |-> args.warmup_iters]
  ELSE [phase |-> "decay", num |-> it - args.warmup_iters,
        den |-> args.num_iterations - args.warmup_iters]

\* optimizer.step: nothing to do without gradients.  The ZeRO optimizer updates a part of
\* the parameters on each rank, with that rank's gradients, and broadcasts it.
ShardsOptimizer(r) == ddp /\ args.zero_stage = 1

Optimize(r) ==
  LET group == Together(r, "optimize", ShardsOptimizer)
      source(q) == IF ShardsOptimizer(q) THEN grads ELSE [p \in Ranks |-> grads[q]]
  IN /\ r \in group
     /\ params' = [q \in Ranks |->
                     IF q \in group /\ grads[q] # {}
                     THEN Append(params[q], [lr |-> get_lr(step[q]), parts |-> source(q)])
                     ELSE params[q]]
     /\ step' = [q \in Ranks |-> step[q] + (IF q \in group THEN 1 ELSE 0)]
     /\ GotoAll(group, "top")
     /\ UNCHANGED <<micro_step, dataVars, grads, param_sync, args>>

\* destroy_process_group
Destroy(r) ==
  /\ pc[r] = "destroy"
  /\ Goto(r, "done")
  /\ UNCHANGED <<dataVars, loopVars, modelVars, args>>

\* torchrun stops the other processes when one has failed.
TorchrunStops(r) ==
  /\ \E q \in Ranks : pc[q] = "dead"
  /\ pc[r] \notin {"dead", "killed", "done"}
  /\ Goto(r, "killed")
  /\ UNCHANGED <<dataVars, loopVars, modelVars, args>>

RankNext(r) ==
  \/ MakeLoaders(r) \/ Reference(r) \/ ReferencePass(r) \/ Wrap(r)
  \/ Top(r) \/ Validate(r) \/ ValidateForward(r) \/ Sample(r)
  \/ BeginTraining(r) \/ Fetch(r) \/ Forward(r) \/ Backward(r)
  \/ ReduceLoss(r) \/ Optimize(r) \/ Destroy(r)
  \/ TorchrunStops(r)

Init == ShardsInit /\ TrainInit
Next ==
  \/ ScriptNext /\ UNCHANGED trainVars
  \/ (\E r \in Ranks : RankNext(r)) /\ UNCHANGED shardVars

trainingVars == <<shardVars, trainVars>>
Spec == Init /\ [][Next]_trainingVars
\* The scripts and the processes run until they end.
FairSpec == Spec /\ WF_trainingVars(Next)

-----------------------------------------------------------------------------
Training(r) == pc[r] \notin {"load", "done", "dead", "killed"}

(***************************************************************************)
(* A rank that is still running always has a next batch: B * T + 1 tokens  *)
(* of the shard it believes to be in, for training and for validation,     *)
(* whatever shards the scripts left.                                       *)
(***************************************************************************)
NextBatchInBounds ==
  \A r \in Ranks : Training(r) =>
    \A split \in {"train", "val"} :
      LET loader == IF split = "train" THEN train_loader[r] ELSE val_loader[r]
      IN /\ loader.loaded = loader.current_shard
         /\ Len(NextWindow(loader, Shards(split))) = B * T + 1

(***************************************************************************)
(* Two ranks never train on the same input tokens in the same step, also   *)
(* when they have come to the end of a shard in different rounds.          *)
(***************************************************************************)
Inputs(c) == {<<c.shard, k>> : k \in c.position..(c.position + B * T - 1)}
RanksTrainOnDisjointTokens ==
  \A r \in Ranks : \A c, d \in grads[r] :
    c.rank # d.rank => Inputs(c) \cap Inputs(d) = {}

(***************************************************************************)
(* Every update is made of the whole batch and nothing else: one           *)
(* contribution of every rank and micro-step, computed with the parameters *)
(* it is applied to, at a positive learning rate.                          *)
(***************************************************************************)
StepUsesWholeBatch ==
  \A r \in Ranks : \A i \in DOMAIN params[r] : \A p \in Ranks :
    LET update == params[r][i]
        part == update.parts[p]
    IN /\ {<<c.rank, c.micro_step>> : c \in part} = Ranks \X (0..(args.grad_accum_steps - 1))
       /\ Cardinality(part) = args.world * args.grad_accum_steps
       /\ \A c \in part : c.version = i - 1
       /\ update.lr.phase = "warmup" => 0 < update.lr.num /\ update.lr.num <= update.lr.den
       /\ update.lr.phase = "decay" => 0 <= update.lr.num /\ update.lr.num < update.lr.den

(***************************************************************************)
(* The copies of the model agree: after the same number of steps all ranks *)
(* hold the same parameters.                                               *)
(***************************************************************************)
ReplicasAgree ==
  \A r, q \in Ranks : IsPrefix(params[r], params[q]) \/ IsPrefix(params[q], params[r])

(***************************************************************************)
(* "once in a while perform model inference on the master process": the    *)
(* program survives it.                                                    *)
(***************************************************************************)
SamplingSurvives == \A r \in Ranks : died[r] # "sampling"

(***************************************************************************)
(* Every process ends, and all of them in the same way: whatever the ranks *)
(* do differently (the reference pass, sampling, the shard they are in),   *)
(* none waits for ever in a collective operation.                          *)
(***************************************************************************)
EveryRankEnds ==
  <>(\/ \A r \in Ranks : pc[r] = "done"
     \/ \A r \in Ranks : pc[r] \in {"dead", "killed"})
=============================================================================
