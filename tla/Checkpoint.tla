----------------------------- MODULE Checkpoint -----------------------------
(***************************************************************************)
(* From a published checkpoint to a trained one: train_gpt2.py or          *)
(* train_llama3.py imports the weights and writes them as .bin files,      *)
(* train_gpt2.cu trains GPT-2 from there on several GPUs, writing          *)
(* checkpoints of a model file, a state file per rank and a DONE file, and *)
(* resumes from the newest one after a crash; export_hf.py converts any    *)
(* model file.                                                             *)
(*                                                                         *)
(* Trained weights are the sequence of the updates made to them, an update *)
(* being the batch each rank took.  A crash stops all ranks at any point   *)
(* and leaves a file that is being written short.                          *)
(***************************************************************************)
EXTENDS Weights

CONSTANTS
  Sources,      \* which published checkpoints may be imported
  TrainerArgs,  \* the command lines of train_gpt2.cu
  TrainData,    \* training shards, and the orders in which the ranks go through them
  World,        \* number of ranks
  NumBatches,   \* train_num_batches
  MaxCrashes    \* bound on the crashes

(***************************************************************************)
(* samples: the batches in each shard.  shuffles: the permutations that    *)
(* the generator of each rank, seeded by its number, makes of the shards,  *)
(* one for every epoch.  A loader gives out all samples of a shard (they   *)
(* are shuffled too) before it loads the next.                             *)
(***************************************************************************)
Visits(d, r) == FlattenSeq(d.shuffles[r])
ShardsRead(d, r) ==
  FlattenSeq([k \in DOMAIN Visits(d, r) |->
                [i \in 1..d.samples[Visits(d, r)[k]] |-> Visits(d, r)[k]]])

ASSUME CheckpointAssumption ==
  /\ Sources \subseteq {"gpt2", "llama3_meta", "llama3_hf"}
  /\ {World, NumBatches} \subseteq Nat \ {0} /\ MaxCrashes \in Nat
  /\ \A a \in TrainerArgs :
       /\ a.checkpoint_every \in Nat \ {0}
       /\ {a.checkpoints_keep, a.major_checkpoint_every} \subseteq Nat
       /\ a.use_master_weights \in BOOLEAN /\ a.precision \in {"float32", "bfloat16"}
  /\ \A d \in TrainData :
       /\ d.samples \in Seq(Nat \ {0}) /\ d.samples # <<>>
       /\ \A r \in 0..(World - 1) :
            /\ d.shuffles[r] \in Seq(Seq(DOMAIN d.samples)) /\ d.shuffles[r] # <<>>
            /\ \A e \in DOMAIN d.shuffles[r] : d.shuffles[r][e] \in Bijection(DOMAIN d.samples, DOMAIN d.samples)
            /\ Len(ShardsRead(d, r)) >= NumBatches

VARIABLES
  source,     \* the published checkpoint
  compiled,   \* --compile: torch.compile prefixes every parameter name
  written,    \* how many tensors of each .bin file are on disk; -1 without the file
  args,       \* the command line of the trainer
  train_data, \* its training shards, the same at every start
  pc,         \* where each rank is
  step,       \* its loop variable
  resuming,   \* whether it has just resumed
  weights,    \* the updates in its weights
  moments,    \* the updates in its part of AdamW's state and master weights
  position,   \* the batches its loader has given out
  models,     \* the model files by step
  states,     \* the state files by step and rank
  done,       \* the steps with a DONE file
  crashes

importVars == <<source, compiled, args, train_data>>
memVars == <<step, resuming, weights, moments, position>>
diskVars == <<models, states, done>>
ckptVars == <<importVars, written, pc, memVars, diskVars, crashes>>

Ranks == 0..(World - 1)
DTypes == {"float32", "bfloat16"}

Init ==
  /\ source \in Sources /\ compiled \in BOOLEAN /\ args \in TrainerArgs
  /\ train_data \in TrainData
  /\ written = [dtype \in DTypes |-> -1]
  /\ pc = [r \in Ranks |-> "off"] /\ step = [r \in Ranks |-> 0]
  /\ resuming = [r \in Ranks |-> FALSE]
  /\ weights = [r \in Ranks |-> <<>>] /\ moments = [r \in Ranks |-> <<>>]
  /\ position = [r \in Ranks |-> 0]
  /\ models = <<>> /\ states = <<>> /\ done = {} /\ crashes = 0

-----------------------------------------------------------------------------
(***************************************************************************)
(* The Python program writes its .bin files, GPT-2 one per precision.  It  *)
(* can be killed after any tensor, here the first or the last but one.  A  *)
(* compiled model's parameters are not found by their names: GPT-2 fails   *)
(* before the file is opened, Llama with the header written.               *)
(***************************************************************************)
WritesFormats == IF source = "gpt2" THEN DTypes ELSE {"bfloat16"}
Trainable == source = "gpt2" /\ written[args.precision] = TensorCount(source)

PythonWrites(dtype) ==
  /\ \A r \in Ranks : pc[r] = "off"
  /\ dtype \in WritesFormats /\ written[dtype] < TensorCount(source)
  /\ dtype = "bfloat16" /\ source = "gpt2" => written["float32"] = TensorCount(source)
  /\ ~(compiled /\ source = "gpt2")
  /\ \E n \in IF compiled THEN {0} ELSE {1, TensorCount(source) - 1, TensorCount(source)} :
       written' = [written EXCEPT ![dtype] = n]
  /\ UNCHANGED <<importVars, pc, memVars, diskVars, crashes>>

-----------------------------------------------------------------------------
(***************************************************************************)
(* The start of train_gpt2.cu, with -y 1.                                  *)
(***************************************************************************)
find_max_step == IF done = {} THEN -1 ELSE CHOOSE n \in done : \A m \in done : m <= n

\* gpt2_build_from_checkpoint of the model file; with master weights, it gives only its header.
ModelFile(n) == n \in DOMAIN models /\ (models[n].whole \/ args.use_master_weights)
StateFile(n, r) == <<n, r>> \in DOMAIN states /\ states[<<n, r>>].whole

\* The loader's number of shards, and shard_num_samples: the batches in the shard it has
\* loaded after giving out p batches, before the first batch the first shard it will read.
NumShards == Len(train_data.samples)
ShardNumSamples(r, p) == train_data.samples[ShardsRead(train_data, r)[IF p = 0 THEN 1 ELSE p]]

\* The assertions of load_state on the shuffled training loader, which has just been
\* initialised and so has its first shard loaded, not yet the one that it is to resume in.
LoaderMatches(n, r) ==
  /\ states[<<n, r>>].num_shards = NumShards
  /\ states[<<n, r>>].shard_num_samples = ShardNumSamples(r, 0)
Loads(n) == ModelFile(n) /\ \A r \in Ranks : StateFile(n, r) /\ LoaderMatches(n, r)

StartAfresh ==
  /\ \A r \in Ranks : pc[r] = "off"
  /\ Trainable /\ find_max_step = -1
  /\ step' = [r \in Ranks |-> 0] /\ position' = [r \in Ranks |-> 0]
  /\ weights' = [r \in Ranks |-> <<>>] /\ moments' = [r \in Ranks |-> <<>>]
  /\ resuming' = [r \in Ranks |-> FALSE]
  /\ pc' = [r \in Ranks |-> "loop"]
  /\ UNCHANGED <<importVars, written, diskVars, crashes>>

\* What load_state finds in the state file of rank r.
Resumed(r) == states[<<find_max_step, r>>]

Resume ==
  /\ \A r \in Ranks : pc[r] = "off"
  /\ find_max_step # -1
  /\ IF Loads(find_max_step)
     THEN /\ step' = [r \in Ranks |-> Resumed(r).step]
          /\ position' = [r \in Ranks |-> Resumed(r).position]
          /\ moments' = [r \in Ranks |-> Resumed(r).moments]
          /\ weights' = [r \in Ranks |-> IF args.use_master_weights THEN Resumed(r).moments
                                         ELSE models[find_max_step].weights]
          /\ resuming' = [r \in Ranks |-> TRUE]
          /\ pc' = [r \in Ranks |-> "loop"]
     ELSE /\ pc' = [r \in Ranks |-> "failed"]
          /\ UNCHANGED memVars
  /\ UNCHANGED <<importVars, written, diskVars, crashes>>

-----------------------------------------------------------------------------
(***************************************************************************)
(* The loop.                                                               *)
(***************************************************************************)
LastStep(r) == step[r] = NumBatches
CheckpointDue(r) ==
  ~resuming[r] /\ ((step[r] > 0 /\ step[r] % args.checkpoint_every = 0) \/ LastStep(r))

Goto(r, place) == pc' = [pc EXCEPT ![r] = place]
AfterCheckpoint(r) == IF LastStep(r) THEN "finished" ELSE "train"

Loop(r) ==
  /\ pc[r] = "loop"
  /\ resuming' = [resuming EXCEPT ![r] = FALSE]
  /\ Goto(r, IF ~CheckpointDue(r) THEN AfterCheckpoint(r)
             ELSE IF r = 0 THEN "open_model" ELSE "open_state")
  /\ UNCHANGED <<importVars, written, step, weights, moments, position, diskVars, crashes>>

\* Adding a file, or replacing it.
Put(dir, name, content) == [n \in DOMAIN dir \cup {name} |-> IF n = name THEN content ELSE dir[n]]
Unlink(dir, name) == [n \in DOMAIN dir \ {name} |-> dir[n]]

\* Only rank 0 writes the model file, in two steps that a crash may come between.
WriteModelFile(r) ==
  /\ pc[r] \in {"open_model", "write_model"}
  /\ models' = Put(models, step[r], [weights |-> weights[r], whole |-> pc[r] = "write_model"])
  /\ Goto(r, IF pc[r] = "open_model" THEN "write_model" ELSE "open_state")
  /\ UNCHANGED <<importVars, written, memVars, states, done, crashes>>

Saved_NoPosition(r) ==
  [step |-> step[r], moments |-> moments[r], position |-> 0,
   num_shards |-> NumShards, shard_num_samples |-> ShardNumSamples(r, position[r]),
   whole |-> pc[r] = "write_state"]
Saved(r) ==
  [step |-> step[r], moments |-> moments[r], position |-> position[r],
   num_shards |-> NumShards, shard_num_samples |-> ShardNumSamples(r, position[r]),
   whole |-> pc[r] = "write_state"]
SaveState(r) ==
  /\ pc[r] \in {"open_state", "write_state"}
  /\ states' = Put(states, <<step[r], r>>, Saved(r))
  /\ Goto(r, IF pc[r] = "open_state" THEN "write_state" ELSE "barrier")
  /\ UNCHANGED <<importVars, written, memVars, models, done, crashes>>

\* multi_gpu_barrier
Arrived_Alone(r) == pc[r] = "barrier"
Arrived(r) == \A q \in Ranks : pc[q] = "barrier"
PassedTo(r) == IF r = 0 THEN "write_done" ELSE "delete_state"
Barrier(r) ==
  /\ Arrived(r)
  /\ pc' = [q \in Ranks |-> IF pc[q] = "barrier" THEN PassedTo(q) ELSE pc[q]]
  /\ UNCHANGED <<importVars, written, memVars, diskVars, crashes>>

WriteDone(r) ==
  /\ pc[r] = "write_done"
  /\ done' = done \cup {step[r]}
  /\ Goto(r, "delete_model")
  /\ UNCHANGED <<importVars, written, memVars, models, states, crashes>>

\* delete_checkpoint: the model file, the state file, and last the DONE file.
StepDelete_Newest(r) == step[r]
StepDelete(r) == step[r] - args.checkpoints_keep * args.checkpoint_every
DeleteDue(r) ==
  /\ args.checkpoints_keep > 0 /\ StepDelete(r) > 0
  /\ args.major_checkpoint_every = 0 \/ StepDelete(r) % args.major_checkpoint_every # 0

DeleteModel(r) ==
  /\ pc[r] = "delete_model"
  /\ models' = IF DeleteDue(r) THEN Unlink(models, StepDelete(r)) ELSE models
  /\ Goto(r, "delete_state")
  /\ UNCHANGED <<importVars, written, memVars, states, done, crashes>>

DeleteState(r) ==
  /\ pc[r] = "delete_state"
  /\ states' = IF DeleteDue(r) THEN Unlink(states, <<StepDelete(r), r>>) ELSE states
  /\ Goto(r, IF r = 0 THEN "delete_done" ELSE AfterCheckpoint(r))
  /\ UNCHANGED <<importVars, written, memVars, models, done, crashes>>

DeleteDone(r) ==
  /\ pc[r] = "delete_done"
  /\ done' = IF DeleteDue(r) THEN done \ {StepDelete(r)} ELSE done
  /\ Goto(r, AfterCheckpoint(r))
  /\ UNCHANGED <<importVars, written, memVars, models, states, crashes>>

\* A training step of all ranks: every rank takes its next batch, the gradients are
\* reduced, and all make the same update.
TrainStep ==
  /\ \A r \in Ranks : pc[r] = "train"
  /\ weights' = [r \in Ranks |-> Append(weights[r], position)]
  /\ moments' = [r \in Ranks |-> Append(moments[r], position)]
  /\ position' = [r \in Ranks |-> position[r] + 1]
  /\ step' = [r \in Ranks |-> step[r] + 1]
  /\ pc' = [r \in Ranks |-> "loop"]
  /\ UNCHANGED <<importVars, written, resuming, diskVars, crashes>>

\* The job crashes, and all its processes with it.
Crash ==
  /\ crashes < MaxCrashes
  /\ \E r \in Ranks : pc[r] \notin {"off", "failed", "finished"}
  /\ pc' = [r \in Ranks |-> "off"]
  /\ crashes' = crashes + 1
  /\ UNCHANGED <<importVars, written, memVars, diskVars>>

RankNext(r) ==
  \/ Loop(r) \/ WriteModelFile(r) \/ SaveState(r) \/ Barrier(r) \/ WriteDone(r)
  \/ DeleteModel(r) \/ DeleteState(r) \/ DeleteDone(r)

Next ==
  \/ \E dtype \in DTypes : PythonWrites(dtype)
  \/ StartAfresh \/ Resume
  \/ \E r \in Ranks : RankNext(r)
  \/ TrainStep
  \/ Crash

Spec == Init /\ [][Next]_ckptVars

\* The job is started again after a crash, and its processes run.
Fairness ==
  /\ WF_ckptVars(StartAfresh) /\ WF_ckptVars(Resume) /\ WF_ckptVars(TrainStep)
  /\ \A r \in Ranks : WF_ckptVars(RankNext(r))
FairSpec == Spec /\ Fairness

-----------------------------------------------------------------------------
(***************************************************************************)
(* Every import is complete: GPT-2's weights all have the layout the       *)
(* programs compute with, the square one too, where no shape would tell;   *)
(* and both published forms of Llama give the same model, with the query,  *)
(* key and value rows in Meta's order and none left random.                *)
(***************************************************************************)
LlamaReference(name) ==
  IF name[1] = "attn.c_attn.weight"
  THEN Rows("wq", name[2], NEmbd) \o Rows("wk", name[2], KVHeads * HeadDim)
       \o Rows("wv", name[2], KVHeads * HeadDim)
  ELSE MetaCheckpoint[<<CHOOSE k \in DOMAIN MetaMap : MetaMap[k] = name[1], name[2]>>]
ImportIsComplete ==
  (\A dtype \in DTypes : written[dtype] = -1) =>
  \A name \in Names(source) :
    IF source = "gpt2"
    THEN ShapesAgree(Imported(source)) /\ Imported(source)[name] = Linear(name, 0)
    ELSE Imported(source)[name].of = LlamaReference(name)

(***************************************************************************)
(* Every model file of GPT-2 that is on disk when no job runs, whole or    *)
(* not, written by Python or by training: the exporter takes it if and     *)
(* only if it is whole, and then gives the published form of the weights   *)
(* in it, each parameter in place, without the padding, and rounded only   *)
(* where the file or the exported model is bfloat16.                       *)
(***************************************************************************)
TrainedTo(n) == [name \in Names("gpt2") |-> [Imported("gpt2")[name] EXCEPT !.step = n]]
FilesOnDisk ==
  {[n |-> 0, dtype |-> dtype, tensors |-> written[dtype]] : dtype \in {d \in DTypes : written[d] # -1}}
  \cup {[n |-> Len(models[k].weights), dtype |-> args.precision,
         tensors |-> TensorCount("gpt2") - (IF models[k].whole THEN 0 ELSE 1)] : k \in DOMAIN models}
ExportIsTheModel ==
  source = "gpt2" /\ (\A r \in Ranks : pc[r] \in {"off", "finished"}) =>
    \A f \in FilesOnDisk :
      LET file == WriteModel("gpt2", TrainedTo(f.n), f.dtype, f.tensors)
      IN /\ ConvertAccepts(file) <=> f.tensors = TensorCount("gpt2")
         /\ ConvertAccepts(file) =>
              \A out_dtype \in DTypes :
                Convert(file, out_dtype) =
                  [name \in Names("gpt2") |-> Cast(Cast(Published(name, f.n), f.dtype), out_dtype)]

(***************************************************************************)
(* "DONE file is a signal that this checkpoint as a whole is complete":    *)
(* the checkpoint a restart would take is always there, with the model     *)
(* file and every rank's state file whole and of that step, whatever the   *)
(* ranks are writing and deleting at the moment.                           *)
(***************************************************************************)
NewestIsComplete ==
  find_max_step # -1 =>
    /\ find_max_step \in DOMAIN models /\ models[find_max_step].whole
    /\ \A r \in Ranks : StateFile(find_max_step, r) /\ Resumed(r).step = find_max_step

(***************************************************************************)
(* "the goal is that we can resume optimization from any checkpoint,       *)
(* bit-perfect": after any crashes, the weights and the optimizer's state  *)
(* of every rank hold the updates of an uninterrupted run, no batch twice  *)
(* and none left out.                                                      *)
(***************************************************************************)
Uninterrupted(n) == [i \in 1..n |-> [r \in Ranks |-> i - 1]]
ResumeIsBitPerfect ==
  \A r \in Ranks : pc[r] \notin {"off", "failed"} =>
    /\ weights[r] = Uninterrupted(step[r]) /\ moments[r] = weights[r]
    /\ position[r] = step[r]

(***************************************************************************)
(* Once Python has left a whole .bin file of its precision, training ends  *)
(* on all ranks, although it may crash on the way; unless a resumption is  *)
(* refused, and every one after it.  Only the loader's assertions refuse   *)
(* one, and only of shards with different numbers of samples: the newest   *)
(* checkpoint was then written with another shard loaded than a rank's     *)
(* first.                                                                  *)
(***************************************************************************)
EqualShards == \A i, j \in DOMAIN train_data.samples : train_data.samples[i] = train_data.samples[j]
Refused ==
  /\ \A r \in Ranks : pc[r] = "failed" /\ StateFile(find_max_step, r)
  /\ \E r \in Ranks : Resumed(r).shard_num_samples # ShardNumSamples(r, 0)
  /\ ~EqualShards
TrainingEnds == [](Trainable => <>((\A r \in Ranks : pc[r] = "finished") \/ Refused))
=============================================================================
