---------------------------- MODULE ModelProofs ----------------------------
(***************************************************************************)
(* Proofs about what the training programs do with a model outside the     *)
(* Python training loop: that training resumes from a checkpoint as if it  *)
(* had never been stopped, that the checkpoint a restart takes is complete *)
(* and that import, .bin files and export keep the model (Checkpoint),     *)
(* that generation is autoregressive sampling of one text per row, that a  *)
(* prompt is cut into pieces without loss (LlamaGenerate), and that the C  *)
(* program and Python give an evaluation the same score (Evaluation).      *)
(*                                                                         *)
(* None of it is inductive.  What a rank resumes with is what some rank    *)
(* wrote before a crash, so the first invariant follows the ranks, which   *)
(* are always at the same step, and every file on disk.  The second has to *)
(* know which step is newest while the ranks write the next checkpoint and *)
(* delete an old one in any order, and that the step before is there as    *)
(* long as the new one is not.  Import and export are about what a state   *)
(* dict becomes, tensor by tensor.  The invariant of generation says what  *)
(* the cache of each row holds and where the rows are filled.  Evaluation  *)
(* has no state: its proof follows the loader through the file.            *)
(***************************************************************************)
EXTENDS Checkpoint, LlamaGenerate, SequenceLemmas, FiniteSetTheorems
USE DEF Ranks

\* The places of a rank that runs.
UpPlaces ==
  {"loop", "open_model", "write_model", "open_state", "write_state", "barrier",
   "write_done", "delete_model", "delete_state", "delete_done", "train", "finished"}

\* The ranks run, fail and crash together, and run at the step of rank 0.
Up == pc[0] \in UpPlaces
StepNow == step[0]

\* Every rank has made the updates of an uninterrupted run of n steps.
InLockStep(n) ==
  /\ n \in Nat
  /\ step = [r \in Ranks |-> n] /\ position = [r \in Ranks |-> n]
  /\ weights = [r \in Ranks |-> Uninterrupted(n)]
  /\ moments = [r \in Ranks |-> Uninterrupted(n)]

FilesRight ==
  /\ \A n \in DOMAIN models : n \in Nat /\ models[n].weights = Uninterrupted(n)
  /\ \A p \in DOMAIN states :
       /\ p \in Nat \X Ranks
       /\ states[p].step = p[1] /\ states[p].position = p[1]
       /\ states[p].moments = Uninterrupted(p[1])

LockStepInv ==
  /\ pc \in [Ranks -> UpPlaces \cup {"off", "failed"}]
  /\ \/ \A r \in Ranks : pc[r] = "off"
     \/ \A r \in Ranks : pc[r] = "failed"
     \/ (\A r \in Ranks : pc[r] \in UpPlaces) /\ InLockStep(StepNow)
  /\ FilesRight

-----------------------------------------------------------------------------
\* One more training step makes one more update.
LEMMA UninterruptedStep ==
  ASSUME NEW n \in Nat
  PROVE  Append(Uninterrupted(n), [r \in Ranks |-> n]) = Uninterrupted(n + 1)
<1> DEFINE S == [Ranks -> Int]
           b == [r \in Ranks |-> n]
           u(m) == [i \in 1..m |-> [r \in Ranks |-> i - 1]]
<1>1. ASSUME NEW m \in Nat PROVE u(m) \in Seq(S) /\ Len(u(m)) = m
  <2>1. u(m) \in [1..m -> S] OBVIOUS
  <2>2. u(m) \in Seq(S) BY <2>1, SeqDef
  <2>3. QED BY <2>1, <2>2, LenProperties
<1>2. n + 1 \in Nat /\ b \in S OBVIOUS
<1>3. u(n) \in Seq(S) /\ Len(u(n)) = n /\ u(n + 1) \in Seq(S) /\ Len(u(n + 1)) = n + 1
  BY <1>1, <1>2
<1>4. \A i \in 1..n : u(n)[i] = u(n + 1)[i]
  OBVIOUS
<1>5. u(n + 1)[n + 1] = b
  OBVIOUS
<1> HIDE DEF S, b, u
<1>6. /\ Append(u(n), b) \in Seq(S) /\ Len(Append(u(n), b)) = n + 1
      /\ \A i \in 1..n : Append(u(n), b)[i] = u(n)[i]
      /\ Append(u(n), b)[n + 1] = b
  BY <1>2, <1>3, AppendProperties
<1>7. Append(u(n), b) = u(n + 1)
  BY <1>3, <1>4, <1>5, <1>6, SeqEqual
<1>. QED BY <1>7 DEF u, b, Uninterrupted

-----------------------------------------------------------------------------
LEMMA WorldPositive == World \in Nat /\ 0 \in Ranks
BY CheckpointAssumption

\* No file is on disk, and no rank runs.
LEMMA LockStepInit == Init => LockStepInv
BY DEF Init, LockStepInv, FilesRight

\* Writing a right file and deleting a file leave the other files right.
LEMMA PutModelRight ==
  ASSUME FilesRight, NEW n \in Nat, NEW whole,
         models' = Put(models, n, [weights |-> Uninterrupted(n), whole |-> whole]),
         UNCHANGED states
  PROVE  FilesRight'
BY DEF FilesRight, Put, Uninterrupted

LEMMA PutStateRight ==
  ASSUME FilesRight, NEW n \in Nat, NEW r \in Ranks, NEW file,
         file.step = n, file.position = n, file.moments = Uninterrupted(n),
         states' = Put(states, <<n, r>>, file),
         UNCHANGED models
  PROVE  FilesRight'
<1> DEFINE Right(dir, p) ==
      /\ p \in Nat \X Ranks
      /\ dir[p].step = p[1] /\ dir[p].position = p[1] /\ dir[p].moments = Uninterrupted(p[1])
<1>1. ASSUME NEW p \in DOMAIN states' PROVE Right(states', p)
  <2>1. CASE p = <<n, r>>
    BY <2>1 DEF Put, Uninterrupted
  <2>2. CASE p # <<n, r>>
    BY <2>2 DEF Put, FilesRight
  <2>. QED BY <2>1, <2>2
<1>. QED BY <1>1 DEF FilesRight, Uninterrupted

LEMMA UnlinkRight ==
  ASSUME FilesRight, NEW n, NEW p,
         models' \in {models, Unlink(models, n)}, states' \in {states, Unlink(states, p)}
  PROVE  FilesRight'
BY DEF FilesRight, Unlink, Uninterrupted

\* A rank that moves on while all are at step n.
LEMMA RankMoves ==
  ASSUME LockStepInv, NEW r \in Ranks, pc[r] \in UpPlaces,
         NEW place \in UpPlaces, Goto(r, place),
         UNCHANGED <<step, weights, moments, position>>, FilesRight'
  PROVE  LockStepInv'
BY DEF LockStepInv, InLockStep, StepNow, UpPlaces, Goto, Uninterrupted

\* All ranks at the head of the loop, at step m.
LEMMA AllAtLoop ==
  ASSUME NEW m \in Nat, pc' = [r \in Ranks |-> "loop"],
         step' = [r \in Ranks |-> m], position' = [r \in Ranks |-> m],
         weights' = [r \in Ranks |-> Uninterrupted(m)],
         moments' = [r \in Ranks |-> Uninterrupted(m)],
         FilesRight'
  PROVE  LockStepInv'
BY WorldPositive DEF LockStepInv, InLockStep, StepNow, UpPlaces, Uninterrupted

LEMMA LockStepNext == LockStepInv /\ [Next]_ckptVars => LockStepInv'
<1> SUFFICES ASSUME LockStepInv, [Next]_ckptVars PROVE LockStepInv'
  OBVIOUS
<1> USE WorldPositive
<1> DEFINE n == StepNow
<1>0. ASSUME NEW r \in Ranks, pc[r] \in UpPlaces
      PROVE  /\ n \in Nat /\ step[r] = n /\ position[r] = n
             /\ weights[r] = Uninterrupted(n) /\ moments[r] = Uninterrupted(n)
             /\ AfterCheckpoint(r) \in UpPlaces
  BY <1>0 DEF LockStepInv, InLockStep, StepNow, UpPlaces, AfterCheckpoint
<1>1. CASE UNCHANGED ckptVars
  BY <1>1 DEF LockStepInv, InLockStep, StepNow, FilesRight, Uninterrupted, ckptVars, importVars,
              memVars, diskVars
<1>2. CASE \E dtype \in DTypes : PythonWrites(dtype)
  BY <1>2 DEF PythonWrites, LockStepInv, InLockStep, StepNow, FilesRight, Uninterrupted, importVars,
              memVars, diskVars
<1>3. CASE StartAfresh
  <2>1. Uninterrupted(0) = <<>>
    BY DEF Uninterrupted
  <2>2. FilesRight'
    BY <1>3 DEF StartAfresh, diskVars, LockStepInv, FilesRight, Uninterrupted
  <2>. QED BY <1>3, <2>1, <2>2, AllAtLoop DEF StartAfresh
<1>4. CASE Resume
  <2>1. FilesRight'
    BY <1>4 DEF Resume, diskVars, LockStepInv, FilesRight, Uninterrupted
  <2>2. CASE ~Loads(find_max_step)
    BY <1>4, <2>1, <2>2 DEF Resume, LockStepInv
  <2>3. CASE Loads(find_max_step)
    <3>1. PICK m : m = find_max_step
      OBVIOUS
    <3>2. /\ m \in Nat /\ models[m].weights = Uninterrupted(m)
          /\ \A r \in Ranks : /\ Resumed(r).step = m /\ Resumed(r).position = m
                              /\ Resumed(r).moments = Uninterrupted(m)
      BY <2>3, <3>1 DEF Loads, ModelFile, StateFile, Resumed, LockStepInv, FilesRight
    <3>3. /\ step' = [r \in Ranks |-> m] /\ position' = [r \in Ranks |-> m]
          /\ weights' = [r \in Ranks |-> Uninterrupted(m)]
          /\ moments' = [r \in Ranks |-> Uninterrupted(m)]
          /\ pc' = [r \in Ranks |-> "loop"]
      <4>1. \A r \in Ranks : (IF args.use_master_weights THEN Resumed(r).moments
                               ELSE models[find_max_step].weights) = Uninterrupted(m)
        BY <3>1, <3>2
      <4>2. /\ step' = [r \in Ranks |-> Resumed(r).step]
            /\ position' = [r \in Ranks |-> Resumed(r).position]
            /\ moments' = [r \in Ranks |-> Resumed(r).moments]
            /\ weights' = [r \in Ranks |-> IF args.use_master_weights THEN Resumed(r).moments
                                           ELSE models[find_max_step].weights]
            /\ pc' = [r \in Ranks |-> "loop"]
        BY <1>4, <2>3 DEF Resume
      <4>. QED BY <3>2, <4>1, <4>2
    <3>. QED BY <2>1, <3>2, <3>3, AllAtLoop
  <2>. QED BY <2>2, <2>3
<1>5. ASSUME NEW r \in Ranks, Loop(r) PROVE LockStepInv'
  <2>1. FilesRight'
    BY <1>5 DEF Loop, diskVars, LockStepInv, FilesRight, Uninterrupted
  <2>. QED BY <1>0, <1>5, <2>1, RankMoves DEF Loop, UpPlaces
<1>6. ASSUME NEW r \in Ranks, WriteModelFile(r) PROVE LockStepInv'
  <2>1. pc[r] \in UpPlaces
    BY <1>6 DEF WriteModelFile, UpPlaces
  <2>2. FilesRight'
    BY <1>0, <1>6, <2>1, PutModelRight DEF WriteModelFile, LockStepInv
  <2>. QED BY <1>6, <2>1, <2>2, RankMoves DEF WriteModelFile, memVars, UpPlaces
<1>7. ASSUME NEW r \in Ranks, SaveState(r) PROVE LockStepInv'
  <2>1. pc[r] \in UpPlaces
    BY <1>7 DEF SaveState, UpPlaces
  <2>2. FilesRight'
    <3>1. /\ Saved(r).step = n /\ Saved(r).position = n /\ Saved(r).moments = Uninterrupted(n)
          /\ n \in Nat /\ step[r] = n
      BY <1>0, <2>1 DEF Saved
    <3>2. states' = Put(states, <<n, r>>, Saved(r)) /\ UNCHANGED models
      BY <1>7, <3>1 DEF SaveState
    <3> QED BY <3>1, <3>2, PutStateRight DEF LockStepInv
  <2>. QED BY <1>7, <2>1, <2>2, RankMoves DEF SaveState, memVars, UpPlaces
<1>8. ASSUME NEW r \in Ranks, Barrier(r) PROVE LockStepInv'
  <2>1. FilesRight'
    BY <1>8 DEF Barrier, diskVars, LockStepInv, FilesRight, Uninterrupted
  <2>. QED BY <1>8, <2>1 DEF Barrier, Arrived, PassedTo, memVars, LockStepInv, InLockStep, StepNow,
                             UpPlaces, Uninterrupted
<1>9. ASSUME NEW r \in Ranks, WriteDone(r) PROVE LockStepInv'
  <2>1. FilesRight'
    BY <1>9 DEF WriteDone, LockStepInv, FilesRight, Uninterrupted
  <2>. QED BY <1>9, <2>1, RankMoves DEF WriteDone, memVars, UpPlaces
<1>10. ASSUME NEW r \in Ranks, DeleteModel(r) PROVE LockStepInv'
  <2>1. FilesRight'
    BY <1>10, UnlinkRight DEF DeleteModel, LockStepInv
  <2>. QED BY <1>10, <2>1, RankMoves DEF DeleteModel, memVars, UpPlaces
<1>11. ASSUME NEW r \in Ranks, DeleteState(r) PROVE LockStepInv'
  <2>1. FilesRight'
    BY <1>11, UnlinkRight DEF DeleteState, LockStepInv
  <2>. QED BY <1>0, <1>11, <2>1, RankMoves DEF DeleteState, memVars, UpPlaces
<1>12. ASSUME NEW r \in Ranks, DeleteDone(r) PROVE LockStepInv'
  <2>1. FilesRight'
    BY <1>12 DEF DeleteDone, LockStepInv, FilesRight, Uninterrupted
  <2>. QED BY <1>0, <1>12, <2>1, RankMoves DEF DeleteDone, memVars, UpPlaces
<1>13. CASE TrainStep
  <2>1. PICK k : k = n
    OBVIOUS
  <2>2. k \in Nat /\ position = [r \in Ranks |-> k]
        /\ \A r \in Ranks : /\ step[r] = k /\ position[r] = k
                            /\ weights[r] = Uninterrupted(k) /\ moments[r] = Uninterrupted(k)
    BY <1>13, <2>1 DEF TrainStep, LockStepInv, InLockStep, UpPlaces
  <2>3. Append(Uninterrupted(k), position) = Uninterrupted(k + 1)
    BY <2>2, UninterruptedStep
  <2>4. /\ step' = [r \in Ranks |-> k + 1] /\ position' = [r \in Ranks |-> k + 1]
        /\ weights' = [r \in Ranks |-> Uninterrupted(k + 1)]
        /\ moments' = [r \in Ranks |-> Uninterrupted(k + 1)]
        /\ pc' = [r \in Ranks |-> "loop"]
    BY <1>13, <2>2, <2>3 DEF TrainStep
  <2>5. FilesRight'
    BY <1>13 DEF TrainStep, diskVars, LockStepInv, FilesRight, Uninterrupted
  <2>. QED BY <2>2, <2>4, <2>5, AllAtLoop
<1>14. CASE Crash
  <2>1. FilesRight'
    BY <1>14 DEF Crash, diskVars, LockStepInv, FilesRight, Uninterrupted
  <2>. QED BY <1>14, <2>1 DEF Crash, LockStepInv
<1>. QED
  BY <1>1, <1>2, <1>3, <1>4, <1>5, <1>6, <1>7, <1>8, <1>9, <1>10, <1>11, <1>12, <1>13, <1>14
     DEF Next, RankNext

(***************************************************************************)
(* "The goal is that we can resume optimization from any checkpoint,       *)
(* bit-perfect" (train_gpt2.cu), for every number of ranks, of steps and   *)
(* of crashes and every command line: in any run, the weights, the moments *)
(* and the loader of every running rank are those of a run never stopped.  *)
(***************************************************************************)
THEOREM ResumeNeverDiverges == Spec => []ResumeIsBitPerfect
<1>1. LockStepInv => ResumeIsBitPerfect
  BY DEF LockStepInv, ResumeIsBitPerfect, InLockStep
<1>. QED BY <1>1, LockStepInit, LockStepNext, PTL DEF Spec

-----------------------------------------------------------------------------
(***************************************************************************)
(* What is on disk: a restart takes the step that is newest.  It is whole, *)
(* and so is known of every checkpoint due in the period before it that it *)
(* has a DONE file.                                                        *)
(***************************************************************************)
KeepsTwo == \A a \in TrainerArgs : a.checkpoints_keep # 1

Newest(n) == n \in done /\ \A d \in done : d <= n
ModelWhole(n) == n \in DOMAIN models /\ models[n].whole
Whole(n) == ModelWhole(n) /\ \A r \in Ranks : StateFile(n, r)
Preceded(n) ==
  \A m \in 1..(n - 1) :
    m % args.checkpoint_every = 0 /\ m >= n - args.checkpoint_every => m \in done

DiskInv ==
  /\ done \subseteq Nat
  /\ done = {} \/ \E n \in done : Newest(n)
  /\ \A n \in done : Newest(n) => Whole(n) /\ Preceded(n)

(***************************************************************************)
(* How the running ranks stand to it: as long as a rank has yet to write   *)
(* its part of step n, n has no DONE file; rank 0 alone writes it, when    *)
(* every part is whole; and a rank that deletes does so after that.        *)
(***************************************************************************)
Pending(r) ==
  \/ pc[r] = "loop" /\ ~resuming[r]
  \/ pc[r] \in {"open_model", "write_model", "open_state", "write_state", "barrier"}

RunningInv(n) ==
  /\ \A d \in done : d <= n
  /\ Preceded(n)
  /\ \A r \in Ranks :
       /\ Pending(r) \/ pc[r] = "write_done" => n \notin done
       /\ pc[r] \in {"open_model", "write_model", "write_done", "delete_model", "delete_done"}
            => r = 0
       /\ pc[r] = "barrier" => StateFile(n, r)
       /\ resuming[r] => pc[r] = "loop" /\ n \in done
       /\ pc[0] = "write_done" => ~Pending(r)
  /\ pc[0] \in {"open_state", "write_state", "barrier"} => ModelWhole(n)
  /\ pc[0] = "write_done" => Whole(n)
  /\ pc[0] \in {"delete_model", "delete_state", "delete_done"} => n \in done
  /\ pc[0] = "train" /\ n > 0 /\ n % args.checkpoint_every = 0 => n \in done

NewestInv ==
  /\ LockStepInv
  /\ args \in TrainerArgs
  /\ resuming \in [Ranks -> BOOLEAN]
  /\ DiskInv
  /\ Up => RunningInv(StepNow)

-----------------------------------------------------------------------------
LEMMA Periods ==
  ASSUME args \in TrainerArgs
  PROVE  /\ args.checkpoint_every \in Nat \ {0} /\ args.checkpoints_keep \in Nat
         /\ args.major_checkpoint_every \in Nat
BY CheckpointAssumption

LEMMA Multiple ==
  ASSUME NEW q \in Nat, NEW every \in Nat \ {0}
  PROVE  (q * every) % every = 0
<1> DEFINE d == (q * every) \div every
           rest == (q * every) % every
<1>1. q * every \in Nat
  OBVIOUS
<1>2. d \in Nat /\ rest \in 0..(every - 1) /\ q * every = every * d + rest
  BY <1>1
<1>3. PICK k \in Int : k = q - d
  BY <1>2
<1>4. every * k = rest
  BY <1>2, <1>3
<1>5. k >= 1 => every * k >= every
  OBVIOUS
<1>6. k <= -1 => every * k <= -every
  OBVIOUS
<1>7. k = 0
  BY <1>2, <1>4, <1>5, <1>6
<1>. QED BY <1>4, <1>7

\* A checkpoint is due in the period before a step that comes after the first period.
LEMMA DueBefore ==
  ASSUME NEW n \in Nat, NEW every \in Nat \ {0}, n > every
  PROVE  \E m \in 1..(n - 1) : m % every = 0 /\ m >= n - every
<1> DEFINE q == (n - 1) \div every
           m == q * every
<1>1. q \in Nat /\ n - 1 = every * q + ((n - 1) % every) /\ (n - 1) % every \in 0..(every - 1)
  OBVIOUS
<1>2. m \in Nat /\ m <= n - 1 /\ m >= n - every
  BY <1>1
<1>3. m % every = 0
  BY <1>1, Multiple
<1>. QED BY <1>2, <1>3

\* find_max_step finds the newest checkpoint.
LEMMA FindsNewest ==
  ASSUME DiskInv
  PROVE  /\ find_max_step = -1 <=> done = {}
         /\ find_max_step # -1 => find_max_step \in done /\ Newest(find_max_step)
<1>1. CASE done = {}
  BY <1>1 DEF find_max_step
<1>2. CASE done # {}
  <2>1. \E n \in done : \A m \in done : m <= n
    BY <1>2 DEF DiskInv, Newest
  <2>2. find_max_step \in done /\ \A m \in done : m <= find_max_step
    BY <1>2, <2>1 DEF find_max_step
  <2>. QED BY <1>2, <2>2 DEF Newest, DiskInv
<1>. QED BY <1>1, <1>2

\* The checkpoint deleted is two periods old at least, and one after it stays.
LEMMA DeletesOld ==
  ASSUME KeepsTwo, args \in TrainerArgs, NEW r \in Ranks, step[r] \in Nat, DeleteDue(r)
  PROVE  /\ StepDelete(r) \in Int /\ StepDelete(r) < step[r] - args.checkpoint_every
         /\ step[r] > args.checkpoint_every
         /\ Preceded(step[r]) => \E m \in done : m > StepDelete(r)
<1> DEFINE every == args.checkpoint_every
           keep == args.checkpoints_keep
<1>1. every \in Nat \ {0} /\ keep \in Nat /\ keep >= 2
  BY Periods DEF KeepsTwo, DeleteDue
<1>2. keep * every \in Nat /\ keep * every >= 2 * every
  <2>1. PICK k \in Nat : keep = 2 + k
    BY <1>1
  <2>2. keep * every = 2 * every + k * every /\ k * every \in Nat
    BY <1>1, <2>1
  <2>. QED BY <1>1, <2>2
<1>3. StepDelete(r) = step[r] - keep * every
  BY DEF StepDelete
<1>4. StepDelete(r) \in Int /\ StepDelete(r) < step[r] - every /\ step[r] > every
  BY <1>1, <1>2, <1>3 DEF DeleteDue
<1>5. PICK m \in 1..(step[r] - 1) : m % every = 0 /\ m >= step[r] - every
  BY <1>1, <1>4, DueBefore
<1>. QED BY <1>1, <1>4, <1>5 DEF Preceded

-----------------------------------------------------------------------------
LEMMA NewestInit == Init => NewestInv
BY LockStepInit, WorldPositive
   DEF Init, NewestInv, DiskInv, Up, UpPlaces, Newest

\* A rank that runs, with the others at its step.
LEMMA RunningRank ==
  ASSUME NewestInv, NEW r \in Ranks, pc[r] \in UpPlaces
  PROVE  /\ StepNow \in Nat /\ step[r] = StepNow
         /\ \A q \in Ranks : pc[q] \in UpPlaces
         /\ DiskInv /\ RunningInv(StepNow)
BY WorldPositive DEF NewestInv, LockStepInv, InLockStep, StepNow, Up, UpPlaces

\* A step that leaves the newest checkpoint and every DONE file.
LEMMA DiskKept ==
  ASSUME DiskInv, UNCHANGED <<args, done>>,
         \A n \in done : Newest(n) /\ Whole(n) => Whole(n)'
  PROVE  DiskInv'
<1>1. ASSUME NEW n PROVE (Newest(n) <=> Newest(n)') /\ (Preceded(n) <=> Preceded(n)')
  BY DEF Newest, Preceded
<1>. QED BY <1>1 DEF DiskInv

LEMMA DiskUntouched ==
  ASSUME DiskInv, UNCHANGED <<args, diskVars>>
  PROVE  DiskInv'
<1>1. \A n \in done : Whole(n) => Whole(n)'
  BY DEF diskVars, Whole, ModelWhole, StateFile
<1>. QED BY <1>1, DiskKept DEF diskVars

LEMMA LoopKeeps ==
  ASSUME NewestInv, NEW r \in Ranks, Loop(r)
  PROVE  DiskInv' /\ RunningInv(StepNow)'
<1> USE WorldPositive
<1>1. DiskInv'
  BY DiskUntouched DEF Loop, importVars, NewestInv
<1>2. pc[r] = "loop" /\ pc[r] \in UpPlaces
  BY DEF Loop, UpPlaces
<1>3. PICK n \in Nat : /\ n = StepNow /\ n = StepNow' /\ step[r] = n
                       /\ RunningInv(n)
  BY <1>2, RunningRank DEF Loop, StepNow
<1>4. pc \in [Ranks -> UpPlaces \cup {"off", "failed"}] /\ resuming \in [Ranks -> BOOLEAN]
  BY DEF NewestInv, LockStepInv
<1>5. /\ resuming[r] => pc'[r] \in {"train", "finished"} /\ n \in done
      /\ ~resuming[r] /\ r = 0 =>
           \/ pc'[r] = "open_model"
           \/ pc'[r] = "finished"
           \/ pc'[r] = "train" /\ ~(n > 0 /\ n % args.checkpoint_every = 0)
      /\ ~resuming[r] /\ r # 0 => pc'[r] \in {"open_state", "train", "finished"}
      /\ pc'[r] \in {"open_model", "open_state", "train", "finished"}
  BY <1>2, <1>3, <1>4 DEF Loop, Goto, CheckpointDue, AfterCheckpoint, RunningInv
<1>6. /\ resuming'[r] = FALSE /\ \A q \in Ranks : q # r => resuming'[q] = resuming[q]
      /\ \A q \in Ranks : q # r => pc'[q] = pc[q]
      /\ UNCHANGED <<args, models, states, done, step>>
  BY <1>4 DEF Loop, Goto, diskVars, importVars
<1>7. RunningInv(n)'
  BY <1>2, <1>3, <1>5, <1>6
     DEF RunningInv, Pending, Preceded, Whole, ModelWhole, StateFile
<1>. QED BY <1>1, <1>3, <1>7

\* Files are written of the step that has no DONE file yet.
LEMMA WriteModelKeeps ==
  ASSUME NewestInv, NEW r \in Ranks, WriteModelFile(r)
  PROVE  DiskInv' /\ RunningInv(StepNow)'
<1> USE WorldPositive
<1>1. pc[r] \in {"open_model", "write_model"} /\ pc[r] \in UpPlaces
  BY DEF WriteModelFile, UpPlaces
<1>2. PICK n \in Nat : /\ n = StepNow /\ n = StepNow' /\ step[r] = n
                       /\ DiskInv /\ RunningInv(n)
  BY <1>1, RunningRank DEF WriteModelFile, memVars, StepNow
<1>3. r = 0 /\ n \notin done /\ pc \in [Ranks -> UpPlaces \cup {"off", "failed"}]
  BY <1>1, <1>2 DEF RunningInv, Pending, NewestInv, LockStepInv
<1>4. /\ models' = Put(models, n, [weights |-> weights[r], whole |-> pc[r] = "write_model"])
      /\ pc'[r] = IF pc[r] = "open_model" THEN "write_model" ELSE "open_state"
      /\ \A q \in Ranks : q # r => pc'[q] = pc[q]
      /\ UNCHANGED <<args, states, done, step, resuming>>
  BY <1>2, <1>3 DEF WriteModelFile, Goto, memVars, importVars
<1>5. \A m : m # n /\ ModelWhole(m) => ModelWhole(m)'
  BY <1>4 DEF ModelWhole, Put
<1>6. DiskInv'
  BY <1>2, <1>3, <1>4, <1>5, DiskKept DEF Whole, StateFile
<1>7. pc[r] = "write_model" => ModelWhole(n)'
  BY <1>4 DEF ModelWhole, Put
<1>8. RunningInv(n)'
  BY <1>1, <1>2, <1>3, <1>4, <1>7 DEF RunningInv, Pending, Preceded, StateFile
<1>. QED BY <1>2, <1>6, <1>8

LEMMA SaveStateKeeps ==
  ASSUME NewestInv, NEW r \in Ranks, SaveState(r)
  PROVE  DiskInv' /\ RunningInv(StepNow)'
<1> USE WorldPositive
<1>1. pc[r] \in {"open_state", "write_state"} /\ pc[r] \in UpPlaces
  BY DEF SaveState, UpPlaces
<1>2. PICK n \in Nat : /\ n = StepNow /\ n = StepNow' /\ step[r] = n
                       /\ DiskInv /\ RunningInv(n)
  BY <1>1, RunningRank DEF SaveState, memVars, StepNow
<1>3. n \notin done /\ pc \in [Ranks -> UpPlaces \cup {"off", "failed"}] /\ pc[0] # "write_done"
  BY <1>1, <1>2 DEF RunningInv, Pending, NewestInv, LockStepInv
<1>4. /\ states' = Put(states, <<n, r>>, Saved(r))
      /\ pc'[r] = IF pc[r] = "open_state" THEN "write_state" ELSE "barrier"
      /\ \A q \in Ranks : q # r => pc'[q] = pc[q]
      /\ UNCHANGED <<args, models, done, step, resuming>>
  BY <1>2, <1>3 DEF SaveState, Goto, memVars, importVars
<1>5. \A m, q : <<m, q>> # <<n, r>> /\ StateFile(m, q) => StateFile(m, q)'
  BY <1>4 DEF StateFile, Put
<1>6. DiskInv'
  BY <1>2, <1>3, <1>4, <1>5, DiskKept DEF Whole, ModelWhole
<1>7. pc[r] = "write_state" => StateFile(n, r)'
  BY <1>4 DEF StateFile, Put, Saved
<1>8. \A q \in Ranks : pc'[q] = "barrier" => StateFile(n, q)'
  BY <1>1, <1>2, <1>4, <1>5, <1>7 DEF RunningInv
<1>9. RunningInv(n)'
  BY <1>1, <1>2, <1>3, <1>4, <1>8 DEF RunningInv, Pending, Preceded, ModelWhole
<1>. QED BY <1>2, <1>6, <1>9

\* The ranks pass the barrier when every one has written its part.
LEMMA BarrierKeeps ==
  ASSUME NewestInv, NEW r \in Ranks, Barrier(r)
  PROVE  DiskInv' /\ RunningInv(StepNow)'
<1> USE WorldPositive
<1>1. DiskInv'
  BY DiskUntouched DEF Barrier, importVars, NewestInv
<1>2. \A q \in Ranks : pc[q] = "barrier"
  BY DEF Barrier, Arrived
<1>3. PICK n \in Nat : n = StepNow /\ n = StepNow' /\ RunningInv(n)
  BY <1>2, RunningRank DEF Barrier, memVars, StepNow, UpPlaces
<1>4. /\ \A q \in Ranks : pc'[q] = IF q = 0 THEN "write_done" ELSE "delete_state"
      /\ UNCHANGED <<args, models, states, done, step, resuming>>
  BY <1>2 DEF Barrier, PassedTo, memVars, importVars, diskVars
<1>5. Whole(n)' /\ n \notin done /\ \A q \in Ranks : ~resuming[q]
  BY <1>2, <1>3, <1>4 DEF RunningInv, Pending, Whole, ModelWhole, StateFile
<1>6. RunningInv(n)'
  BY <1>3, <1>4, <1>5 DEF RunningInv, Pending, Preceded, ModelWhole, StateFile
<1>. QED BY <1>1, <1>3, <1>6

\* The DONE file makes the step the newest, and every part of it is whole.
LEMMA WriteDoneKeeps ==
  ASSUME NewestInv, NEW r \in Ranks, WriteDone(r)
  PROVE  DiskInv' /\ RunningInv(StepNow)'
<1> USE WorldPositive
<1>1. pc[r] = "write_done" /\ pc[r] \in UpPlaces
  BY DEF WriteDone, UpPlaces
<1>2. PICK n \in Nat : /\ n = StepNow /\ n = StepNow' /\ step[r] = n
                       /\ DiskInv /\ RunningInv(n)
  BY <1>1, RunningRank DEF WriteDone, memVars, StepNow
<1>3. /\ r = 0 /\ Whole(n) /\ n \notin done /\ \A q \in Ranks : ~Pending(q)
      /\ pc \in [Ranks -> UpPlaces \cup {"off", "failed"}]
  BY <1>1, <1>2 DEF RunningInv, NewestInv, LockStepInv
<1>4. /\ done' = done \cup {n}
      /\ pc'[r] = "delete_model"
      /\ \A q \in Ranks : q # r => pc'[q] = pc[q]
      /\ UNCHANGED <<args, models, states, step, resuming>>
  BY <1>2, <1>3 DEF WriteDone, Goto, memVars, importVars
<1>5. done' \subseteq Nat /\ Newest(n)' /\ \A m \in done' : Newest(m)' => m = n
  BY <1>2, <1>4 DEF Newest, RunningInv, DiskInv
<1>6. Whole(n)' /\ Preceded(n)'
  BY <1>2, <1>3, <1>4 DEF RunningInv, Whole, ModelWhole, StateFile, Preceded
<1>7. DiskInv'
  BY <1>2, <1>4, <1>5, <1>6 DEF DiskInv
<1>8. RunningInv(n)'
  BY <1>1, <1>2, <1>3, <1>4, <1>6 DEF RunningInv, Pending, ModelWhole, StateFile
<1>. QED BY <1>2, <1>7, <1>8

\* A rank that deletes, the step being n: what it deletes is of an older step, and the
\* newest checkpoint is of a step after that.
LEMMA Deleting ==
  ASSUME KeepsTwo, NewestInv, NEW r \in Ranks, NEW n \in Nat, step[r] = n, RunningInv(n),
         DeleteDue(r)
  PROVE  /\ StepDelete(r) \in Int /\ StepDelete(r) < n - args.checkpoint_every
         /\ StepDelete(r) < n
         /\ \A m \in done : Newest(m) => m # StepDelete(r)
<1>1. args \in TrainerArgs /\ DiskInv /\ Preceded(n)
  BY DEF NewestInv, RunningInv
<1>2. /\ StepDelete(r) \in Int /\ StepDelete(r) < n - args.checkpoint_every
      /\ \E m \in done : m > StepDelete(r)
  BY <1>1, DeletesOld
<1>3. StepDelete(r) < n
  BY <1>1, <1>2, Periods
<1>. QED BY <1>1, <1>2, <1>3 DEF Newest, DiskInv

LEMMA DeleteModelKeeps ==
  ASSUME KeepsTwo, NewestInv, NEW r \in Ranks, DeleteModel(r)
  PROVE  DiskInv' /\ RunningInv(StepNow)'
<1> USE WorldPositive
<1>1. pc[r] = "delete_model" /\ pc[r] \in UpPlaces
  BY DEF DeleteModel, UpPlaces
<1>2. PICK n \in Nat : /\ n = StepNow /\ n = StepNow' /\ step[r] = n
                       /\ DiskInv /\ RunningInv(n)
  BY <1>1, RunningRank DEF DeleteModel, memVars, StepNow
<1>3. /\ models' \in {models, Unlink(models, StepDelete(r))}
      /\ models' # models => DeleteDue(r)
      /\ r = 0 /\ pc'[r] = "delete_state"
      /\ \A q \in Ranks : q # r => pc'[q] = pc[q]
      /\ UNCHANGED <<args, states, done, step, resuming>>
  BY <1>1, <1>2 DEF DeleteModel, Goto, memVars, importVars, NewestInv, LockStepInv, RunningInv
<1>4. \A m : ModelWhole(m) /\ (DeleteDue(r) => m # StepDelete(r)) => ModelWhole(m)'
  BY <1>3 DEF ModelWhole, Unlink
<1>5. DiskInv'
  BY <1>2, <1>3, <1>4, Deleting, DiskKept DEF Whole, StateFile
<1>6. RunningInv(n)'
  BY <1>1, <1>2, <1>3 DEF RunningInv, Pending, Preceded, StateFile
<1>. QED BY <1>2, <1>5, <1>6

\* The other ranks delete before rank 0 has written the DONE file.
LEMMA DeleteStateKeeps ==
  ASSUME KeepsTwo, NewestInv, NEW r \in Ranks, DeleteState(r)
  PROVE  DiskInv' /\ RunningInv(StepNow)'
<1> USE WorldPositive
<1>1. pc[r] = "delete_state" /\ pc[r] \in UpPlaces
  BY DEF DeleteState, UpPlaces
<1>2. PICK n \in Nat : /\ n = StepNow /\ n = StepNow' /\ step[r] = n
                       /\ DiskInv /\ RunningInv(n)
  BY <1>1, RunningRank DEF DeleteState, memVars, StepNow
<1>3. /\ states' \in {states, Unlink(states, <<StepDelete(r), r>>)}
      /\ states' # states => DeleteDue(r)
      /\ pc'[r] = IF r = 0 THEN "delete_done" ELSE AfterCheckpoint(r)
      /\ AfterCheckpoint(r) \in {"train", "finished"}
      /\ \A q \in Ranks : q # r => pc'[q] = pc[q]
      /\ UNCHANGED <<args, models, done, step, resuming>>
  BY <1>1, <1>2 DEF DeleteState, Goto, AfterCheckpoint, memVars, importVars, NewestInv, LockStepInv
<1>4. \A m, q : StateFile(m, q) /\ (DeleteDue(r) => m # StepDelete(r)) => StateFile(m, q)'
  BY <1>3 DEF StateFile, Unlink
<1>5. DiskInv'
  BY <1>2, <1>3, <1>4, Deleting, DiskKept DEF Whole, ModelWhole
<1>6. \A q \in Ranks : StateFile(n, q) => StateFile(n, q)'
  BY <1>2, <1>4, Deleting
<1>7. Whole(n) => Whole(n)'
  BY <1>3, <1>6 DEF Whole, ModelWhole
<1>8. RunningInv(n)'
  BY <1>1, <1>2, <1>3, <1>6, <1>7 DEF RunningInv, Pending, Preceded, ModelWhole
<1>. QED BY <1>2, <1>5, <1>8

LEMMA DeleteDoneKeeps ==
  ASSUME KeepsTwo, NewestInv, NEW r \in Ranks, DeleteDone(r)
  PROVE  DiskInv' /\ RunningInv(StepNow)'
<1> USE WorldPositive
<1>1. pc[r] = "delete_done" /\ pc[r] \in UpPlaces
  BY DEF DeleteDone, UpPlaces
<1>2. PICK n \in Nat : /\ n = StepNow /\ n = StepNow' /\ step[r] = n
                       /\ DiskInv /\ RunningInv(n)
  BY <1>1, RunningRank DEF DeleteDone, memVars, StepNow
<1>3. /\ done' \in {done, done \ {StepDelete(r)}}
      /\ done' # done => DeleteDue(r)
      /\ r = 0 /\ n \in done
      /\ pc'[r] \in {"train", "finished"}
      /\ \A q \in Ranks : q # r => pc'[q] = pc[q]
      /\ UNCHANGED <<args, models, states, step, resuming>>
  BY <1>1, <1>2 DEF DeleteDone, Goto, AfterCheckpoint, memVars, importVars, NewestInv, LockStepInv,
                    RunningInv
<1>4. n \in done' /\ done' \subseteq done
  BY <1>2, <1>3, Deleting
<1>5. /\ done' \subseteq Nat /\ Newest(n) /\ Newest(n)'
      /\ \A m \in done' : Newest(m)' => m = n
  BY <1>2, <1>4 DEF Newest, RunningInv, DiskInv
<1>6. Whole(n)'
  BY <1>2, <1>3, <1>5 DEF DiskInv, Whole, ModelWhole, StateFile
<1>7. Preceded(n)'
  <2> SUFFICES ASSUME NEW m \in 1..(n - 1), m % args.checkpoint_every = 0,
                      m >= n - args.checkpoint_every
               PROVE  m \in done'
    BY <1>3 DEF Preceded
  <2>1. m \in done
    BY <1>2 DEF RunningInv, Preceded
  <2>2. DeleteDue(r) => m # StepDelete(r)
    BY <1>2, Deleting, Periods DEF NewestInv
  <2>. QED BY <1>3, <2>1, <2>2
<1>8. DiskInv'
  BY <1>4, <1>5, <1>6, <1>7 DEF DiskInv
<1>9. RunningInv(n)'
  BY <1>1, <1>2, <1>3, <1>4, <1>7 DEF RunningInv, Pending, ModelWhole, StateFile
<1>. QED BY <1>2, <1>8, <1>9

\* All ranks train when none has anything left to write.
LEMMA TrainKeeps ==
  ASSUME NewestInv, TrainStep
  PROVE  DiskInv' /\ RunningInv(StepNow)'
<1> USE WorldPositive
<1>1. \A r \in Ranks : pc[r] = "train" /\ pc[r] \in UpPlaces
  BY DEF TrainStep, UpPlaces
<1>2. PICK n \in Nat : n = StepNow /\ DiskInv /\ RunningInv(n) /\ n + 1 = StepNow'
  BY <1>1, RunningRank DEF TrainStep, StepNow
<1>3. DiskInv'
  BY <1>2, DiskUntouched DEF TrainStep, importVars
<1>4. /\ \A r \in Ranks : pc'[r] = "loop"
      /\ UNCHANGED <<args, models, states, done, resuming>>
  BY DEF TrainStep, importVars, diskVars
<1>5. args.checkpoint_every \in Nat \ {0} /\ done \subseteq Nat
  BY <1>2, Periods DEF NewestInv, DiskInv
<1>6. Preceded(n + 1)'
  <2>1. ASSUME NEW m \in 1..n, m % args.checkpoint_every = 0, m >= n + 1 - args.checkpoint_every
        PROVE  m \in done
    <3>1. CASE m = n
      BY <1>1, <1>2, <2>1, <3>1 DEF RunningInv
    <3>2. CASE m # n
      BY <1>2, <1>5, <2>1, <3>2 DEF RunningInv, Preceded
    <3>. QED BY <3>1, <3>2
  <2>2. Preceded(n + 1)
    BY <1>5, <2>1 DEF Preceded
  <2>. QED BY <1>4, <2>2 DEF Preceded
<1>7. n + 1 \notin done /\ \A r \in Ranks : ~resuming[r]
  BY <1>1, <1>2, <1>5 DEF RunningInv
<1>8. RunningInv(n + 1)'
  BY <1>2, <1>4, <1>5, <1>6, <1>7 DEF RunningInv, Pending
<1>. QED BY <1>2, <1>3, <1>8

LEMMA AfreshKeeps ==
  ASSUME NewestInv, StartAfresh
  PROVE  DiskInv' /\ RunningInv(StepNow)'
<1> USE WorldPositive
<1>1. done = {}
  BY FindsNewest DEF StartAfresh, NewestInv
<1>2. DiskInv'
  BY DiskUntouched DEF StartAfresh, importVars, NewestInv
<1>3. /\ \A r \in Ranks : pc'[r] = "loop" /\ resuming'[r] = FALSE
      /\ done' = {} /\ StepNow' = 0
  BY <1>1 DEF StartAfresh, diskVars, StepNow
<1>. QED BY <1>2, <1>3 DEF RunningInv, Preceded, Pending

LEMMA ResumeKeeps ==
  ASSUME NewestInv, Resume
  PROVE  DiskInv' /\ (Up' => RunningInv(StepNow)')
<1> USE WorldPositive
<1>1. DiskInv'
  BY DiskUntouched DEF Resume, importVars, NewestInv
<1>2. PICK n \in Nat : n = find_max_step /\ n \in done /\ Newest(n)
  BY FindsNewest DEF Resume, NewestInv, DiskInv
<1>3. CASE ~Loads(n)
  BY <1>1, <1>2, <1>3 DEF Resume, Up, UpPlaces
<1>4. CASE Loads(n)
  <2>1. StepNow' = states[<<n, 0>>].step
    BY <1>2, <1>4 DEF Resume, Resumed, StepNow
  <2>2. states[<<n, 0>>].step = n
    BY <1>4 DEF Loads, StateFile, NewestInv, LockStepInv, FilesRight
  <2>3. /\ \A r \in Ranks : pc'[r] = "loop" /\ resuming'[r] = TRUE
        /\ UNCHANGED <<args, done>>
    BY <1>2, <1>4 DEF Resume, importVars, diskVars
  <2>4. Preceded(n)'
    BY <1>2, <2>3 DEF NewestInv, DiskInv, Preceded
  <2>5. RunningInv(n)'
    BY <1>2, <2>3, <2>4 DEF RunningInv, Pending, Newest
  <2>. QED BY <1>1, <2>1, <2>2, <2>5
<1>. QED BY <1>3, <1>4

LEMMA NewestNext == KeepsTwo /\ NewestInv /\ [Next]_ckptVars => NewestInv'
<1> SUFFICES ASSUME KeepsTwo, NewestInv, [Next]_ckptVars PROVE NewestInv'
  OBVIOUS
<1>1. LockStepInv'
  BY LockStepNext DEF NewestInv
<1>2. args' = args /\ resuming' \in [Ranks -> BOOLEAN]
  BY DEF NewestInv, Next, RankNext, PythonWrites, StartAfresh, Resume, Loop, WriteModelFile,
         SaveState, Barrier, WriteDone, DeleteModel, DeleteState, DeleteDone, TrainStep, Crash,
         ckptVars, importVars, memVars
<1>3. DiskInv' /\ (Up' => RunningInv(StepNow)')
  <2>1. CASE UNCHANGED ckptVars \/ \E dtype \in DTypes : PythonWrites(dtype)
    <3>1. UNCHANGED <<args, pc, memVars, diskVars>>
      BY <2>1 DEF PythonWrites, ckptVars, importVars
    <3>2. DiskInv'
      BY <3>1, DiskUntouched DEF NewestInv
    <3>3. Up' => RunningInv(StepNow)'
      BY <3>1 DEF memVars, diskVars, NewestInv, Up, StepNow, RunningInv, Preceded, Pending, Whole,
                  ModelWhole, StateFile
    <3>. QED BY <3>2, <3>3
  <2>2. CASE StartAfresh
    BY <2>2, AfreshKeeps
  <2>3. CASE Resume
    BY <2>3, ResumeKeeps
  <2>4. ASSUME NEW r \in Ranks, RankNext(r) PROVE DiskInv' /\ (Up' => RunningInv(StepNow)')
    BY <2>4, LoopKeeps, WriteModelKeeps, SaveStateKeeps, BarrierKeeps, WriteDoneKeeps,
       DeleteModelKeeps, DeleteStateKeeps, DeleteDoneKeeps DEF RankNext
  <2>5. CASE TrainStep
    BY <2>5, TrainKeeps
  <2>6. CASE Crash
    <3>1. DiskInv'
      BY <2>6, DiskUntouched DEF Crash, importVars, NewestInv
    <3>2. ~Up'
      BY <2>6, WorldPositive DEF Crash, Up, UpPlaces
    <3>. QED BY <3>1, <3>2
  <2>. QED BY <2>1, <2>2, <2>3, <2>4, <2>5, <2>6 DEF Next
<1>. QED BY <1>1, <1>2, <1>3 DEF NewestInv

(***************************************************************************)
(* "DONE file is a signal that this checkpoint as a whole is complete"     *)
(* (train_gpt2.cu), for every number of ranks, steps and crashes: unless a *)
(* single checkpoint is kept, the newest step with a DONE file has its     *)
(* model file and every rank's state file whole, whatever the ranks are    *)
(* writing and deleting.                                                   *)
(***************************************************************************)
THEOREM NewestStaysComplete ==
  ASSUME \A a \in TrainerArgs : a.checkpoints_keep # 1
  PROVE  Spec => []NewestIsComplete
<1>1. NewestInv => NewestIsComplete
  BY FindsNewest
     DEF NewestInv, DiskInv, LockStepInv, FilesRight, NewestIsComplete, Whole, ModelWhole,
         StateFile, Resumed
<1>2. KeepsTwo
  BY DEF KeepsTwo
<1>3. NewestInv /\ [Next]_ckptVars => NewestInv'
  BY <1>2, NewestNext
<1>. QED BY <1>1, <1>3, NewestInit, PTL DEF Spec

-----------------------------------------------------------------------------
(***************************************************************************)
(* The loader's assertions: a state file names the shards of the job and   *)
(* the samples of the shard that its rank had loaded, which is one of the  *)
(* first NumBatches that the rank reads.                                   *)
(***************************************************************************)
StatesOfShards ==
  \A p \in DOMAIN states :
    /\ p[1] <= NumBatches
    /\ states[p].num_shards = NumShards
    /\ EqualShards => states[p].shard_num_samples = train_data.samples[1]

LoaderInv ==
  /\ train_data \in TrainData
  /\ Up => StepNow <= NumBatches
  /\ \A r \in Ranks : pc[r] = "train" => StepNow # NumBatches
  /\ StatesOfShards
  /\ (\E r \in Ranks : pc[r] = "failed") => Refused

LEMMA ReadsItsShards ==
  ASSUME NEW d \in TrainData, NEW r \in Ranks
  PROVE  ShardsRead(d, r) \in Seq(DOMAIN d.samples) /\ Len(ShardsRead(d, r)) >= NumBatches
<1> DEFINE D == DOMAIN d.samples
           visits == Visits(d, r)
           reads == [k \in DOMAIN visits |-> [i \in 1..d.samples[visits[k]] |-> visits[k]]]
<1>1. /\ d.samples \in Seq(Nat \ {0}) /\ d.shuffles[r] \in Seq(Seq(D))
      /\ Len(ShardsRead(d, r)) >= NumBatches
  BY CheckpointAssumption DEF Ranks
<1>2. visits \in Seq(D)
  <2> HIDE DEF D
  <2> QED
    BY <1>1, FlattenType DEF Visits
<1>3. DOMAIN visits = 1..Len(visits) /\ Len(visits) \in Nat
  BY <1>2
<1>4. ASSUME NEW k \in DOMAIN visits
      PROVE  [i \in 1..d.samples[visits[k]] |-> visits[k]] \in Seq(D)
  <2>1. visits[k] \in D
    BY <1>2, <1>3
  <2>2. d.samples[visits[k]] \in Nat
    BY <1>1, <2>1
  <2>3. [i \in 1..d.samples[visits[k]] |-> visits[k]] \in [1..d.samples[visits[k]] -> D]
    BY <2>1
  <2> QED
    BY <2>2, <2>3, SeqDef
<1>5. reads \in [1..Len(visits) -> Seq(D)]
  BY <1>3, <1>4
<1>6. reads \in Seq(Seq(D))
  <2> DEFINE n == Len(visits)
             T == Seq(D)
  <2>1. n \in Nat /\ reads \in [1..n -> T]
    BY <1>3, <1>5
  <2> HIDE DEF n, T, reads
  <2>2. reads \in Seq(T)
    BY <2>1, SeqDef
  <2> QED
    BY <2>2 DEF T
<1>7. ShardsRead(d, r) = FlattenSeq(reads)
  BY DEF ShardsRead
<1> HIDE DEF D, reads
<1>8. FlattenSeq(reads) \in Seq(D)
  BY <1>6, FlattenType
<1> QED
  BY <1>1, <1>7, <1>8 DEF D

LEMMA EqualSamples ==
  ASSUME train_data \in TrainData, EqualShards, NEW r \in Ranks, NEW p \in 0..NumBatches
  PROVE  ShardNumSamples(r, p) = train_data.samples[1]
<1> DEFINE reads == ShardsRead(train_data, r)
           i == IF p = 0 THEN 1 ELSE p
<1>1. /\ reads \in Seq(DOMAIN train_data.samples) /\ Len(reads) >= NumBatches
      /\ NumBatches \in Nat \ {0}
      /\ train_data.samples \in Seq(Nat \ {0}) /\ train_data.samples # <<>>
  BY ReadsItsShards, CheckpointAssumption
<1>2. i \in 1..Len(reads) /\ 1 \in DOMAIN train_data.samples
  BY <1>1
<1>3. reads[i] \in DOMAIN train_data.samples
  <2> DEFINE D == DOMAIN train_data.samples
             n == i
  <2>1. reads \in Seq(D) /\ n \in 1..Len(reads)
    BY <1>1, <1>2
  <2> HIDE DEF reads, D, n
  <2>2. reads[n] \in D
    BY <2>1
  <2> QED
    BY <2>2 DEF D, n
<1> HIDE DEF reads
<1> QED
  BY <1>2, <1>3 DEF EqualShards, ShardNumSamples, reads

\* A step that touches neither the data nor, of the states, the ones it keeps.
LEMMA StatesKept ==
  ASSUME StatesOfShards, UNCHANGED train_data,
         \A p \in DOMAIN states' : p \in DOMAIN states /\ states'[p] = states[p]
  PROVE  StatesOfShards'
BY DEF StatesOfShards, NumShards, EqualShards

\* A rank saves its state at step n.
LEMMA StateSaved ==
  ASSUME NewestInv, LoaderInv, NEW r \in Ranks, SaveState(r)
  PROVE  StatesOfShards'
<1> USE WorldPositive
<1>1. pc[r] \in UpPlaces
  BY DEF SaveState, UpPlaces
<1>2. Up /\ StepNow \in Nat /\ step[r] = StepNow /\ position[r] = StepNow
  BY <1>1 DEF NewestInv, LockStepInv, InLockStep, UpPlaces, Up
<1>3. StepNow \in 0..NumBatches /\ NumBatches \in Nat
  BY <1>2, CheckpointAssumption DEF LoaderInv
<1>4. states' = Put(states, <<StepNow, r>>, Saved(r)) /\ train_data' = train_data
  BY <1>2 DEF SaveState, importVars
<1>5. Saved(r).num_shards = NumShards /\ Saved(r).shard_num_samples = ShardNumSamples(r, StepNow)
  BY <1>2 DEF Saved
<1>6. EqualShards => ShardNumSamples(r, StepNow) = train_data.samples[1]
  BY <1>3, EqualSamples DEF LoaderInv
<1>7. ASSUME NEW p \in DOMAIN states'
      PROVE  /\ p[1] <= NumBatches
             /\ states'[p].num_shards = NumShards
             /\ EqualShards => states'[p].shard_num_samples = train_data.samples[1]
  <2>1. CASE p = <<StepNow, r>>
    BY <1>3, <1>4, <1>5, <1>6, <2>1 DEF Put
  <2>2. CASE p # <<StepNow, r>>
    BY <1>4, <2>2 DEF Put, LoaderInv, StatesOfShards
  <2> QED
    BY <2>1, <2>2
<1> QED
  BY <1>4, <1>7 DEF StatesOfShards, NumShards, EqualShards

\* The newest checkpoint is whole; if it cannot be loaded, the assertions refuse it, and the
\* shards are not all of one size.
LEMMA ResumeIsRefused ==
  ASSUME NewestInv, LoaderInv, Resume, ~Loads(find_max_step)
  PROVE  Refused'
<1> USE WorldPositive
<1>1. PICK n \in Nat : n = find_max_step /\ n \in done /\ Newest(n)
  BY FindsNewest DEF Resume, NewestInv, DiskInv
<1>2. Whole(n)
  BY <1>1 DEF NewestInv, DiskInv
<1>3. PICK r \in Ranks : ~LoaderMatches(n, r)
  BY <1>1, <1>2 DEF Loads, Whole, ModelWhole, ModelFile
<1>4. <<n, r>> \in DOMAIN states
  BY <1>2 DEF Whole, StateFile
<1>5. /\ states[<<n, r>>].num_shards = NumShards
      /\ EqualShards => states[<<n, r>>].shard_num_samples = train_data.samples[1]
  BY <1>4 DEF LoaderInv, StatesOfShards
<1>6. states[<<n, r>>].shard_num_samples # ShardNumSamples(r, 0)
  BY <1>3, <1>5 DEF LoaderMatches
<1>7. EqualShards => ShardNumSamples(r, 0) = train_data.samples[1]
  <2>1. 0 \in 0..NumBatches
    BY CheckpointAssumption
  <2> QED
    BY <2>1, EqualSamples DEF LoaderInv
<1>8. ~EqualShards
  BY <1>5, <1>6, <1>7
<1>9. pc' = [q \in Ranks |-> "failed"] /\ UNCHANGED <<train_data, states, done>>
  BY DEF Resume, importVars, diskVars
<1>10. find_max_step' = n
  BY <1>1, <1>9 DEF find_max_step
<1>11. \A q \in Ranks : pc'[q] = "failed" /\ StateFile(n, q)'
  BY <1>2, <1>9 DEF Whole, StateFile
<1>12. states'[<<n, r>>].shard_num_samples # ShardNumSamples(r, 0)' /\ ~EqualShards'
  BY <1>6, <1>8, <1>9 DEF ShardNumSamples, ShardsRead, Visits, EqualShards
<1> QED
  BY <1>10, <1>11, <1>12 DEF Refused, Resumed, StateFile
LEMMA LoaderInit == Init => LoaderInv
BY WorldPositive, CheckpointAssumption
   DEF Init, LoaderInv, StatesOfShards, Up, UpPlaces, StepNow

LEMMA LoaderNext ==
  ASSUME KeepsTwo, NewestInv, LoaderInv, [Next]_ckptVars
  PROVE  LoaderInv'
<1> USE WorldPositive
<1>1. train_data' = train_data
  BY DEF Next, RankNext, PythonWrites, StartAfresh, Resume, Loop, WriteModelFile, SaveState,
         Barrier, WriteDone, DeleteModel, DeleteState, DeleteDone, TrainStep, Crash, ckptVars,
         importVars
<1>2. CASE UNCHANGED ckptVars \/ \E dtype \in DTypes : PythonWrites(dtype)
  <2>1. UNCHANGED <<pc, step, states, done, train_data>>
    BY <1>2 DEF PythonWrites, ckptVars, importVars, memVars, diskVars
  <2>2. StatesOfShards'
    BY <2>1, StatesKept DEF LoaderInv
  <2>3. Refused => Refused'
    <3>1. find_max_step' = find_max_step /\ (EqualShards' => EqualShards)
      BY <2>1 DEF find_max_step, EqualShards
    <3>2. \A r \in Ranks : ShardNumSamples(r, 0)' = ShardNumSamples(r, 0)
      BY <2>1 DEF ShardNumSamples
    <3> QED
      BY <2>1, <3>1, <3>2 DEF Refused, Resumed, StateFile
  <2>4. StepNow' = StepNow /\ (Up' <=> Up)
    BY <2>1 DEF StepNow, Up
  <2> QED
    BY <2>1, <2>2, <2>3, <2>4 DEF LoaderInv
<1>3. CASE StartAfresh
  <2>1. /\ StepNow' = 0 /\ \A r \in Ranks : pc'[r] = "loop"
        /\ states' = states
    BY <1>3 DEF StartAfresh, StepNow, diskVars
  <2>2. StatesOfShards'
    BY <1>1, <2>1, StatesKept DEF LoaderInv
  <2>3. 0 <= NumBatches /\ NumBatches \in Nat /\ NumBatches # 0
    BY CheckpointAssumption
  <2> QED
    BY <1>1, <2>1, <2>2, <2>3 DEF LoaderInv
<1>4. CASE Resume
  <2>1. states' = states
    BY <1>4 DEF Resume, diskVars
  <2>2. StatesOfShards'
    BY <1>1, <2>1, StatesKept DEF LoaderInv
  <2>3. CASE ~Loads(find_max_step)
    <3>1. \A r \in Ranks : pc'[r] = "failed"
      BY <1>4, <2>3 DEF Resume
    <3>2. Refused'
      BY <1>4, <2>3, ResumeIsRefused
    <3> QED
      BY <1>1, <2>2, <3>1, <3>2 DEF LoaderInv, Up, UpPlaces
  <2>4. CASE Loads(find_max_step)
    <3>1. \A r \in Ranks : pc'[r] = "loop"
      BY <1>4, <2>4 DEF Resume
    <3>2. StepNow' = Resumed(0).step
      BY <1>4, <2>4 DEF Resume, StepNow
    <3>3. <<find_max_step, 0>> \in DOMAIN states
      BY <2>4 DEF Loads, StateFile
    <3>4. Resumed(0).step <= NumBatches
      BY <3>3 DEF Resumed, LoaderInv, StatesOfShards, NewestInv, LockStepInv, FilesRight
    <3> QED
      BY <1>1, <2>2, <3>1, <3>2, <3>4 DEF LoaderInv
  <2> QED
    BY <2>3, <2>4
<1>5. ASSUME NEW r \in Ranks, RankNext(r) PROVE LoaderInv'
  <2>1. pc[r] \in UpPlaces /\ step' = step
    BY <1>5 DEF RankNext, Loop, WriteModelFile, SaveState, Barrier, Arrived, WriteDone, DeleteModel,
                DeleteState, DeleteDone, UpPlaces, memVars
  <2>2. Up /\ \A q \in Ranks : pc[q] \in UpPlaces /\ step[q] = StepNow
    BY <2>1 DEF NewestInv, LockStepInv, InLockStep, UpPlaces, Up
  <2>3. StatesOfShards'
    <3>1. CASE SaveState(r)
      BY <3>1, StateSaved
    <3>2. CASE DeleteState(r)
      BY <1>1, <3>2, StatesKept DEF DeleteState, Unlink, LoaderInv
    <3>3. CASE ~SaveState(r) /\ ~DeleteState(r)
      <4>1. states' = states
        BY <1>5, <3>3 DEF RankNext, Loop, WriteModelFile, Barrier, WriteDone, DeleteModel, DeleteDone,
                          diskVars
      <4> QED
        BY <1>1, <4>1, StatesKept DEF LoaderInv
    <3> QED
      BY <3>1, <3>2, <3>3
  <2>4. ASSUME NEW q \in Ranks
        PROVE  /\ pc'[q] # "failed"
               /\ pc'[q] = "train" => StepNow # NumBatches
    <3>1. pc'[q] # pc[q] /\ pc'[q] = "train" => ~LastStep(q)
      BY <1>5, <2>2 DEF RankNext, Loop, WriteModelFile, SaveState, Barrier, PassedTo, WriteDone,
             DeleteModel, DeleteState, DeleteDone, Goto, AfterCheckpoint, NewestInv, LockStepInv
    <3>2. pc'[q] # "failed"
      BY <1>5, <2>2 DEF RankNext, Loop, WriteModelFile, SaveState, Barrier, PassedTo, WriteDone,
             DeleteModel, DeleteState, DeleteDone, Goto, AfterCheckpoint, UpPlaces, NewestInv, LockStepInv
    <3> QED
      BY <2>2, <3>1, <3>2 DEF LastStep, LoaderInv
  <2>5. StepNow' = StepNow /\ StepNow <= NumBatches
    BY <2>1, <2>2 DEF StepNow, LoaderInv
  <2> QED
    BY <1>1, <2>3, <2>4, <2>5 DEF LoaderInv
<1>6. CASE TrainStep
  <2>1. /\ states' = states /\ StepNow' = StepNow + 1
        /\ \A r \in Ranks : pc[r] = "train" /\ pc'[r] = "loop"
    BY <1>6 DEF TrainStep, diskVars, StepNow
  <2>2. StatesOfShards'
    BY <1>1, <2>1, StatesKept DEF LoaderInv
  <2>3. StepNow \in Nat /\ Up
    BY <2>1 DEF NewestInv, LockStepInv, InLockStep, Up, UpPlaces
  <2>4. StepNow + 1 <= NumBatches
    BY <2>1, <2>3, CheckpointAssumption DEF LoaderInv
  <2> QED
    BY <1>1, <2>1, <2>2, <2>4 DEF LoaderInv
<1>7. CASE Crash
  <2>1. states' = states /\ \A r \in Ranks : pc'[r] = "off"
    BY <1>7 DEF Crash, diskVars
  <2>2. StatesOfShards'
    BY <1>1, <2>1, StatesKept DEF LoaderInv
  <2> QED
    BY <1>1, <2>1, <2>2 DEF LoaderInv, Up, UpPlaces
<1> QED
  BY <1>2, <1>3, <1>4, <1>5, <1>6, <1>7 DEF Next

(***************************************************************************)
(* What refuses a resumption, for every number of ranks, steps and crashes *)
(* and all shards: unless a single checkpoint is kept, a job fails to      *)
(* start only because load_state's assertions find, in whole state files,  *)
(* a shard of another number of samples than the one just loaded; so never *)
(* if all shards have the same number.                                     *)
(***************************************************************************)
THEOREM OnlyUnequalShardsRefuse ==
  ASSUME \A a \in TrainerArgs : a.checkpoints_keep # 1
  PROVE  Spec => []((\E r \in Ranks : pc[r] = "failed") => Refused)
<1> DEFINE OnlyRefused == (\E r \in Ranks : pc[r] = "failed") => Refused
<1>1. KeepsTwo
  BY DEF KeepsTwo
<1>2. NewestInv /\ [Next]_ckptVars => NewestInv'
  BY <1>1, NewestNext
<1>3. NewestInv /\ LoaderInv /\ [Next]_ckptVars => LoaderInv'
  BY <1>1, LoaderNext
<1>4. LoaderInv => OnlyRefused
  BY DEF LoaderInv
<1> HIDE DEF OnlyRefused
<1>5. Spec => []OnlyRefused
  BY <1>2, <1>3, <1>4, NewestInit, LoaderInit, PTL DEF Spec
<1> QED
  BY <1>5 DEF OnlyRefused

-----------------------------------------------------------------------------
(***************************************************************************)
(* The mass of a set of tokens is the sum of its members' weights.         *)
(***************************************************************************)
Units(w, S) == UNION {{t} \X (1 .. w[t]) : t \in S}

LEMMA MassOfUnits == \A w, S : Mass(w, S) = Cardinality(Units(w, S))
BY DEF Mass, Units

LEMMA UnitsOfOne ==
  ASSUME NEW x, NEW n \in Nat
  PROVE  IsFiniteSet({x} \X (1 .. n)) /\ Cardinality({x} \X (1 .. n)) = n
<1>1. 1 \in Int /\ n \in Int /\ (IF 1 > n THEN 0 ELSE n - 1 + 1) = n
  OBVIOUS
<1>2. IsFiniteSet(1 .. n) /\ Cardinality(1 .. n) = n
  BY <1>1, FS_Interval
<1>3. IsFiniteSet({x}) /\ Cardinality({x}) = 1
  BY FS_Singleton
<1> DEFINE s == 1 .. n
<1> HIDE DEF s
<1>4. IsFiniteSet({x} \X s) /\ Cardinality({x} \X s) = 1 * n
  BY <1>2, <1>3, FS_Product DEF s
<1> QED
  BY <1>4 DEF s

LEMMA UnitsFinite ==
  ASSUME NEW S, IsFiniteSet(S), NEW w, \A t \in S : w[t] \in Nat
  PROVE  IsFiniteSet(Units(w, S)) /\ Mass(w, S) \in Nat
<1> DEFINE part == [t \in S |-> {t} \X (1 .. w[t])]
           parts == {{t} \X (1 .. w[t]) : t \in S}
<1>1. part \in Surjection(S, parts)
  BY DEF Surjection
<1>2. IsFiniteSet(parts)
  BY <1>1, FS_Surjection
<1>3. ASSUME NEW t \in S PROVE IsFiniteSet({t} \X (1 .. w[t]))
  BY UnitsOfOne
<1>4. IsFiniteSet(UNION parts)
  BY <1>2, <1>3, FS_UNION
<1> QED
  BY <1>4, FS_CardinalityType, MassOfUnits DEF Units

LEMMA MassGrows ==
  ASSUME NEW S, IsFiniteSet(S), NEW w, \A t \in S : w[t] \in Nat, NEW T \in SUBSET S
  PROVE  Mass(w, T) <= Mass(w, S)
<1>1. Units(w, T) \subseteq Units(w, S)
  BY DEF Units
<1>2. IsFiniteSet(Units(w, S))
  BY UnitsFinite
<1> QED
  BY <1>1, <1>2, FS_Subset, MassOfUnits

LEMMA MassAdds ==
  ASSUME NEW S, IsFiniteSet(S), NEW w, \A t \in S : w[t] \in Nat,
         NEW x, x \notin S, w[x] \in Nat
  PROVE  Mass(w, S \cup {x}) = Mass(w, S) + w[x]
<1> DEFINE own == {x} \X (1 .. w[x])
<1>1. Units(w, S \cup {x}) = Units(w, S) \cup own
  BY DEF Units
<1>2. Units(w, S) \cap own = {}
  BY DEF Units
<1>4. IsFiniteSet(own) /\ Cardinality(own) = w[x]
  BY UnitsOfOne
<1>5. IsFiniteSet(Units(w, S)) /\ Mass(w, S) \in Nat
  BY UnitsFinite
<1> HIDE DEF own
<1>6. Cardinality(Units(w, S) \cup own) = Cardinality(Units(w, S)) + w[x]
  <2>1. Cardinality(Units(w, S) \cap own) = 0
    BY <1>2, FS_EmptySet
  <2>2. Cardinality(Units(w, S)) \in Nat
    BY <1>5, MassOfUnits
  <2> QED
    BY <1>4, <1>5, <2>1, <2>2, FS_Union
<1> QED
  BY <1>1, <1>6, MassOfUnits

\* Taking one token for another changes the mass by the difference, and not the size.
LEMMA MassSwaps ==
  ASSUME NEW S, IsFiniteSet(S), NEW w, \A t \in S : w[t] \in Nat,
         NEW x \in S, NEW y, y \notin S, w[y] \in Nat
  PROVE  /\ Mass(w, (S \ {x}) \cup {y}) = Mass(w, S) - w[x] + w[y]
         /\ Cardinality((S \ {x}) \cup {y}) = Cardinality(S)
         /\ Mass(w, S) \in Nat
<1> DEFINE R == S \ {x}
<1>1. IsFiniteSet(R) /\ Cardinality(R) = Cardinality(S) - 1 /\ Cardinality(S) \in Nat
  BY FS_RemoveElement, FS_CardinalityType
<1>2. x \notin R /\ y \notin R /\ R \cup {x} = S /\ \A t \in R : w[t] \in Nat
  OBVIOUS
<1> HIDE DEF R
<1>3. Mass(w, R) \in Nat /\ Mass(w, S) \in Nat
  BY <1>1, <1>2, UnitsFinite
<1>4. Mass(w, R \cup {x}) = Mass(w, R) + w[x]
  BY <1>1, <1>2, MassAdds
<1>5. Mass(w, R \cup {y}) = Mass(w, R) + w[y]
  BY <1>1, <1>2, MassAdds
<1>6. Cardinality(R \cup {y}) = Cardinality(R) + 1
  BY <1>1, <1>2, FS_AddElement
<1>7. w[x] \in Nat
  OBVIOUS
<1>8. Mass(w, R \cup {y}) = Mass(w, S) - w[x] + w[y]
  BY <1>2, <1>3, <1>4, <1>5, <1>7
<1>9. Cardinality(R \cup {y}) = Cardinality(S)
  BY <1>1, <1>6
<1> QED
  BY <1>3, <1>8, <1>9 DEF R

-----------------------------------------------------------------------------
(***************************************************************************)
(* Extremes.                                                               *)
(***************************************************************************)
LEMMA LeastExists ==
  ASSUME NEW S \in SUBSET Nat, S # {}
  PROVE  \E n \in S : \A m \in S : n <= m
<1> DEFINE Less == OpToRel(<, Nat)
<1>1. IsWellFoundedOn(Less, Nat)
  BY NatLessThanWellFounded
<1> HIDE DEF Less
<1>2. PICK n \in S : \A m \in S : <<m, n>> \notin Less
  BY <1>1, WFMin
<1>3. \A m \in S : ~ (m < n)
  BY <1>2 DEF Less, OpToRel
<1> QED
  BY <1>3

LEMMA GreatestExists ==
  ASSUME NEW S \in SUBSET Nat, S # {}, NEW b \in Nat, \A n \in S : n <= b
  PROVE  \E n \in S : \A m \in S : m <= n
<1> DEFINE R == {k \in Nat : b - k \in S}
<1>1. R # {}
  <2>1. PICK n \in S : TRUE
    OBVIOUS
  <2>2. b - n \in Nat /\ b - (b - n) = n
    OBVIOUS
  <2> QED
    BY <2>1, <2>2
<1>2. PICK k \in R : \A j \in R : k <= j
  <2> HIDE DEF R
  <2>1. R \in SUBSET Nat
    BY DEF R
  <2> QED
    BY <1>1, <2>1, LeastExists
<1>3. b - k \in S
  OBVIOUS
<1>4. ASSUME NEW m \in S PROVE m <= b - k
  <2>1. b - m \in Nat /\ b - (b - m) = m
    OBVIOUS
  <2>2. b - m \in R
    BY <2>1
  <2> QED
    BY <1>2, <2>1, <2>2
<1> QED
  BY <1>3, <1>4

-----------------------------------------------------------------------------
(***************************************************************************)
(* Nucleus sampling.                                                       *)
(***************************************************************************)
Enough(w, p) == {S \in SUBSET Vocab : Mass(w, S) > p}
Smallest(w, p) == {S \in Enough(w, p) : \A T \in Enough(w, p) : Cardinality(T) >= Cardinality(S)}

LEMMA NucleiAre ==
  \A w, p : Nuclei(w, p) = {S \in Smallest(w, p) : \A T \in Smallest(w, p) : Mass(w, T) <= Mass(w, S)}
BY Zenon DEF Nuclei, Smallest, Enough

\* The tokens of Vocab, and their sets, are finite and have masses.
LEMMA SetsHaveMass ==
  ASSUME NEW w \in [Vocab -> Nat], NEW S \in SUBSET Vocab
  PROVE  /\ IsFiniteSet(S) /\ Cardinality(S) \in Nat /\ Mass(w, S) \in Nat
         /\ Mass(w, S) <= Mass(w, Vocab) /\ Mass(w, Vocab) \in Nat
         /\ \A T \in SUBSET S : Mass(w, T) <= Mass(w, S)
<1>1. IsFiniteSet(Vocab) /\ \A t \in Vocab : w[t] \in Nat
  BY SamplingAssumption
<1>2. IsFiniteSet(S) /\ \A t \in S : w[t] \in Nat
  BY <1>1, FS_Subset
<1> QED
  BY <1>1, <1>2, FS_CardinalityType, UnitsFinite, MassGrows

\* The sort may put ties in any order; it is best for t when they all come after it.
LEMMA DrawsAreHeavy ==
  ASSUME NEW w \in [Vocab -> Nat], NEW p \in Nat
  PROVE  TopPDraws(w, p) = {t \in Vocab : w[t] > 0 /\ Mass(w, Heavier(w, t)) <= p}
<1>1. ASSUME NEW t \in Vocab
      PROVE  (\E before \in Preceding(w, t) : ~ Masked(w, t, before, p)) <=> Mass(w, Heavier(w, t)) <= p
  <2>1. Heavier(w, t) \in Preceding(w, t)
    <3>1. Heavier(w, t) = Heavier(w, t) \cup {}
      OBVIOUS
    <3> QED
      BY <3>1 DEF Preceding
  <2>2. ASSUME NEW before \in Preceding(w, t)
        PROVE  before \in SUBSET Vocab /\ Heavier(w, t) \subseteq before
    BY DEF Preceding, Heavier
  <2>3. \A before \in Preceding(w, t) :
          /\ Mass(w, before) \in Nat /\ Mass(w, Heavier(w, t)) \in Nat
          /\ Mass(w, Heavier(w, t)) <= Mass(w, before)
    <3> HIDE DEF Heavier
    <3>1. Heavier(w, t) \in SUBSET Vocab
      BY <2>1, <2>2
    <3> QED
      BY <2>2, <3>1, SetsHaveMass
  <2>4. \A before \in Preceding(w, t) : Masked(w, t, before, p) <=> Mass(w, before) > p
    BY DEF Masked
  <2> QED
    BY <2>1, <2>3, <2>4
<1> QED
  BY <1>1 DEF TopPDraws

LEMMA NucleusExists ==
  ASSUME NEW w \in [Vocab -> Nat], NEW p \in Nat, p < Mass(w, Vocab)
  PROVE  \E N : N \in Nuclei(w, p)
<1>1. Vocab \in Enough(w, p)
  BY DEF Enough
<1>2. PICK S \in Enough(w, p) : \A T \in Enough(w, p) : Cardinality(S) <= Cardinality(T)
  <2> DEFINE sizes == {Cardinality(S) : S \in Enough(w, p)}
  <2>1. sizes \in SUBSET Nat /\ sizes # {}
    BY <1>1, SetsHaveMass DEF Enough
  <2> HIDE DEF sizes
  <2>2. PICK n \in sizes : \A m \in sizes : n <= m
    BY <2>1, LeastExists
  <2> QED
    BY <2>2 DEF sizes
<1>3. S \in Smallest(w, p)
  <2>1. \A T \in Enough(w, p) : Cardinality(T) \in Nat
    BY SetsHaveMass DEF Enough
  <2> QED
    BY <1>2, <2>1 DEF Smallest
<1>4. PICK N \in Smallest(w, p) : \A T \in Smallest(w, p) : Mass(w, T) <= Mass(w, N)
  <2> DEFINE masses == {Mass(w, T) : T \in Smallest(w, p)}
  <2>1. /\ masses \in SUBSET Nat /\ masses # {} /\ Mass(w, Vocab) \in Nat
        /\ \A m \in masses : m <= Mass(w, Vocab)
    BY <1>3, SetsHaveMass DEF Smallest, Enough
  <2> HIDE DEF masses
  <2>2. PICK n \in masses : \A m \in masses : m <= n
    BY <2>1, GreatestExists
  <2> QED
    BY <2>2 DEF masses
<1> QED
  BY <1>4, NucleiAre

\* A token of a nucleus that is exchanged for a heavier one would make it heavier still.
LEMMA NucleusSwap ==
  ASSUME NEW w \in [Vocab -> Nat], NEW p \in Nat, NEW N \in Nuclei(w, p),
         NEW x \in N, NEW y \in Vocab, y \notin N, w[x] <= w[y]
  PROVE  w[y] = w[x] /\ (N \ {x}) \cup {y} \in Nuclei(w, p)
<1> DEFINE M == (N \ {x}) \cup {y}
<1>1. /\ N \in Smallest(w, p) /\ N \in Enough(w, p)
      /\ \A T \in Smallest(w, p) : Mass(w, T) <= Mass(w, N)
  BY NucleiAre DEF Smallest
<1>2. N \in SUBSET Vocab /\ Mass(w, N) > p /\ M \in SUBSET Vocab
  BY <1>1 DEF Enough
<1>3. IsFiniteSet(N) /\ w[x] \in Nat /\ w[y] \in Nat /\ \A t \in N : w[t] \in Nat
  BY <1>2, SetsHaveMass
<1>4. /\ Mass(w, M) = Mass(w, N) - w[x] + w[y] /\ Mass(w, N) \in Nat
      /\ Cardinality(M) = Cardinality(N)
  BY <1>3, MassSwaps
<1> HIDE DEF M
<1>5. M \in Enough(w, p)
  BY <1>2, <1>3, <1>4 DEF Enough
<1>6. M \in Smallest(w, p)
  BY <1>1, <1>4, <1>5 DEF Smallest
<1>7. w[y] = w[x] /\ Mass(w, M) = Mass(w, N)
  <2>1. Mass(w, M) <= Mass(w, N)
    BY <1>1, <1>6
  <2> QED
    BY <1>3, <1>4, <2>1
<1>8. M \in Nuclei(w, p)
  BY <1>1, <1>6, <1>7, NucleiAre
<1> QED
  BY <1>7, <1>8 DEF M

\* sample_top_p draws from the smallest set of tokens whose mass exceeds the threshold, and
\* can draw every token of it, whatever the weights, the vocabulary and the threshold.
THEOREM TopPDrawsANucleus ==
  ASSUME NEW w \in [Vocab -> Nat], NEW p \in Nat, p < Mass(w, Vocab)
  PROVE  TopPDraws(w, p) = {t \in UNION Nuclei(w, p) : w[t] > 0}
<1>0. \A N \in Nuclei(w, p) : N \in Smallest(w, p) /\ N \in Enough(w, p) /\ N \in SUBSET Vocab /\ Mass(w, N) > p
  BY NucleiAre DEF Smallest, Enough
<1>1. ASSUME NEW t \in Vocab, Mass(w, Heavier(w, t)) <= p
      PROVE  t \in UNION Nuclei(w, p)
  <2>1. PICK N : N \in Nuclei(w, p)
    BY NucleusExists
  <2>2. CASE t \in N
    BY <2>1, <2>2
  <2>3. CASE t \notin N
    <3>1. PICK u \in N : ~ (w[u] > w[t])
      <4>1. SUFFICES ASSUME \A u \in N : w[u] > w[t] PROVE FALSE
        OBVIOUS
      <4>2. N \in SUBSET Heavier(w, t) /\ Heavier(w, t) \in SUBSET Vocab
        BY <1>0, <2>1, <4>1 DEF Heavier
      <4>3. Mass(w, N) <= Mass(w, Heavier(w, t)) /\ Mass(w, Heavier(w, t)) \in Nat /\ Mass(w, N) \in Nat
        BY <1>0, <2>1, <4>2, SetsHaveMass
      <4> QED
        BY <1>0, <1>1, <2>1, <4>3
    <3>2. w[u] \in Nat /\ w[t] \in Nat
      BY <1>0, <2>1
    <3>3. w[u] <= w[t]
      BY <3>1, <3>2
    <3>4. (N \ {u}) \cup {t} \in Nuclei(w, p)
      BY <2>1, <2>3, <3>3, NucleusSwap
    <3> QED
      BY <3>4
  <2> QED
    BY <2>2, <2>3
<1>2. ASSUME NEW N \in Nuclei(w, p), NEW t \in N
      PROVE  t \in Vocab /\ Mass(w, Heavier(w, t)) <= p
  <2>1. t \in Vocab /\ N \in SUBSET Vocab /\ Heavier(w, t) \in SUBSET Vocab
    BY <1>0 DEF Heavier
  <2>2. Mass(w, Heavier(w, t)) \in Nat
    BY <2>1, SetsHaveMass
  <2>3. SUFFICES ASSUME Mass(w, Heavier(w, t)) > p PROVE FALSE
    BY <2>1, <2>2
  <2>4. Heavier(w, t) \in Enough(w, p)
    BY <2>1, <2>3 DEF Enough
  <2>5. Cardinality(Heavier(w, t)) >= Cardinality(N)
    BY <1>0, <2>4 DEF Smallest
  <2>6. CASE Heavier(w, t) \subseteq N
    <3>1. t \notin Heavier(w, t) /\ w[t] \in Nat
      BY <2>1 DEF Heavier
    <3>2. Heavier(w, t) \in SUBSET N /\ Heavier(w, t) # N
      BY <2>6, <3>1
    <3>3. IsFiniteSet(N) /\ Cardinality(N) \in Nat /\ Cardinality(Heavier(w, t)) \in Nat
      BY <2>1, SetsHaveMass
    <3>4. Cardinality(Heavier(w, t)) <= Cardinality(N) /\ Cardinality(N) # Cardinality(Heavier(w, t))
      BY <3>2, <3>3, FS_Subset
    <3> QED
      BY <2>5, <3>3, <3>4
  <2>7. CASE ~ (Heavier(w, t) \subseteq N)
    <3>1. PICK u \in Vocab : u \notin N /\ w[u] > w[t]
      BY <2>7 DEF Heavier
    <3>2. w[u] \in Nat /\ w[t] \in Nat
      BY <2>1
    <3>3. w[t] <= w[u] /\ w[t] # w[u]
      BY <3>1, <3>2
    <3> QED
      BY <3>1, <3>3, NucleusSwap
  <2> QED
    BY <2>6, <2>7
<1> QED
  BY <1>1, <1>2, DrawsAreHeavy

\* NucleusIsSmallest: that of TopPDrawsANucleus for the weights the runs try.
THEOREM NucleusStaysSmallest == GenSpec => []NucleusIsSmallest
<1>1. ASSUME NEW w \in [Vocab \ {PadId} -> 0 .. MaxWeight]
      PROVE  LET v == [t \in Vocab |-> IF t = PadId THEN 0 ELSE w[t]]
             IN  \A p \in 0 .. Mass(v, Vocab) - 1 :
                   TopPDraws(v, p) = {t \in UNION Nuclei(v, p) : v[t] > 0}
  <2> DEFINE v == [t \in Vocab |-> IF t = PadId THEN 0 ELSE w[t]]
  <2>1. v \in [Vocab -> Nat]
    BY GenerateAssumption
  <2> HIDE DEF v
  <2>2. Mass(v, Vocab) \in Nat
    BY <2>1, SetsHaveMass
  <2>3. ASSUME NEW p \in 0 .. Mass(v, Vocab) - 1
        PROVE  TopPDraws(v, p) = {t \in UNION Nuclei(v, p) : v[t] > 0}
    BY <2>1, <2>2, TopPDrawsANucleus
  <2> QED
    BY <2>3 DEF v
<1>2. NucleusIsSmallest
  BY <1>1, Zenon DEF NucleusIsSmallest
<1> QED
  BY <1>2, PTL

-----------------------------------------------------------------------------
(***************************************************************************)
(* Lengths of prompts.                                                     *)
(***************************************************************************)
LEMMA LongestExists ==
  ASSUME NEW f, NEW n \in Nat \ {0}, \A i \in 1 .. n : f[i] \in Nat
  PROVE  /\ \E i \in 1 .. n : \A j \in 1 .. n : f[j] <= f[i]
         /\ \E i \in 1 .. n : \A j \in 1 .. n : f[i] <= f[j]
<1> DEFINE Longest(k) == \E i \in 1 .. k : \A j \in 1 .. k : f[j] <= f[i]
           Q == {k \in Nat : k \in 1 .. n => Longest(k)}
           lens == {f[i] : i \in 1 .. n}
<1>1. 0 \in Q
  OBVIOUS
<1>2. ASSUME NEW k \in Nat, k \in Q PROVE k + 1 \in Q
  <2>1. SUFFICES ASSUME k + 1 \in 1 .. n PROVE Longest(k + 1)
    OBVIOUS
  <2>2. CASE k = 0
    <3>1. 1 .. (k + 1) = {1} /\ f[1] \in Nat
      BY <2>1, <2>2
    <3> QED
      BY <3>1
  <2>3. CASE k # 0
    <3>1. PICK i \in 1 .. k : \A j \in 1 .. k : f[j] <= f[i]
      BY <1>2, <2>1, <2>3
    <3>2. \A j \in 1 .. (k + 1) : f[j] \in Nat /\ (j \in 1 .. k \/ j = k + 1)
      BY <2>1
    <3>3. CASE f[k + 1] <= f[i]
      BY <3>1, <3>2, <3>3
    <3>4. CASE ~ (f[k + 1] <= f[i])
      <4>1. \A j \in 1 .. (k + 1) : f[j] <= f[k + 1]
        BY <3>1, <3>2, <3>4
      <4> QED
        BY <4>1
    <3> QED
      BY <3>3, <3>4
  <2> QED
    BY <2>2, <2>3
<1> HIDE DEF Q
<1>3. Nat \subseteq Q
  BY <1>1, <1>2, SetInduction
<1>4. Longest(n)
  BY <1>3 DEF Q
<1>5. lens \in SUBSET Nat /\ lens # {}
  OBVIOUS
<1> HIDE DEF lens
<1>6. PICK m \in lens : \A k \in lens : m <= k
  BY <1>5, LeastExists
<1> QED
  BY <1>4, <1>6 DEF lens

LEMMA CallFacts ==
  ASSUME NEW c \in Calls
  PROVE  /\ c.prompts \in Seq(Seq(Vocab)) /\ Bsz(c) \in Nat \ {0}
         /\ DOMAIN c.prompts = 1 .. Bsz(c)
         /\ MaxPromptLen(c) \in Nat /\ MinPromptLen(c) \in Nat /\ TotalLen(c) \in Nat
         /\ c.max_gen_len \in Nat /\ TotalLen(c) <= c.max_gen_len + MaxPromptLen(c)
         /\ \A i \in 1 .. Bsz(c) :
              /\ c.prompts[i] \in Seq(Vocab) /\ Len(c.prompts[i]) \in Nat \ {0}
              /\ Len(c.prompts[i]) <= MaxPromptLen(c) /\ MinPromptLen(c) <= Len(c.prompts[i])
         /\ 0 < MinPromptLen(c) /\ MinPromptLen(c) <= MaxPromptLen(c)
         /\ c.model = "llama" /\ Accepts(c) =>
              MaxPromptLen(c) <= TotalLen(c) /\ TotalLen(c) <= BlockLength /\ Bsz(c) <= MaxGenBatch
         /\ c.model = "gpt2" =>
              /\ TotalLen(c) = c.max_gen_len + MaxPromptLen(c)
              /\ \A i \in 1 .. Bsz(c) : Len(c.prompts[i]) = MaxPromptLen(c)
<1> DEFINE len == [i \in DOMAIN c.prompts |-> Len(c.prompts[i])]
           lens == {Len(c.prompts[i]) : i \in DOMAIN c.prompts}
           n == Bsz(c)
<1>1. c.prompts \in Seq(Seq(Vocab) \ {<< >>}) /\ c.prompts # << >> /\ c.max_gen_len \in Nat
  BY GenerateAssumption
<1>2. /\ c.prompts \in Seq(Seq(Vocab)) /\ n \in Nat \ {0} /\ DOMAIN c.prompts = 1 .. n
      /\ \A i \in 1 .. n : c.prompts[i] \in Seq(Vocab) /\ c.prompts[i] # << >>
  BY <1>1 DEF Bsz
<1>3. \A i \in 1 .. n : len[i] = Len(c.prompts[i]) /\ len[i] \in Nat \ {0}
  BY <1>2
<1>4. /\ \E i \in 1 .. n : \A j \in 1 .. n : len[j] <= len[i]
      /\ \E i \in 1 .. n : \A j \in 1 .. n : len[i] <= len[j]
  <2> HIDE DEF len, n
  <2>1. n \in Nat \ {0} /\ \A i \in 1 .. n : len[i] \in Nat
    BY <1>2, <1>3
  <2> QED
    BY <2>1, LongestExists
<1>5. /\ \E m \in lens : \A i \in DOMAIN c.prompts : Len(c.prompts[i]) <= m
      /\ \E m \in lens : \A i \in DOMAIN c.prompts : Len(c.prompts[i]) >= m
  BY <1>2, <1>3, <1>4
<1>6. /\ MaxPromptLen(c) \in lens /\ \A i \in DOMAIN c.prompts : Len(c.prompts[i]) <= MaxPromptLen(c)
      /\ MinPromptLen(c) \in lens /\ \A i \in DOMAIN c.prompts : Len(c.prompts[i]) >= MinPromptLen(c)
  BY <1>5 DEF MaxPromptLen, MinPromptLen
<1>7. MaxPromptLen(c) \in Nat \ {0} /\ MinPromptLen(c) \in Nat \ {0} /\ lens \subseteq Nat \ {0}
  BY <1>2, <1>3, <1>6
<1>8. BlockLength \in Nat \ {0}
  BY SamplingAssumption
<1>9. /\ TotalLen(c) \in Nat /\ TotalLen(c) <= c.max_gen_len + MaxPromptLen(c)
      /\ c.model = "llama" /\ Accepts(c) =>
           MaxPromptLen(c) <= TotalLen(c) /\ TotalLen(c) <= BlockLength /\ Bsz(c) <= MaxGenBatch
      /\ c.model = "gpt2" => TotalLen(c) = c.max_gen_len + MaxPromptLen(c)
  BY <1>1, <1>7, <1>8 DEF TotalLen, Accepts
<1>10. c.model = "gpt2" => \A i \in 1 .. n : Len(c.prompts[i]) = MaxPromptLen(c)
  <2>1. SUFFICES ASSUME c.model = "gpt2", NEW i \in 1 .. n
                 PROVE  Len(c.prompts[i]) = MaxPromptLen(c)
    OBVIOUS
  <2>2. PICK j \in DOMAIN c.prompts : MaxPromptLen(c) = Len(c.prompts[j])
    BY <1>6
  <2>3. \A k, m \in DOMAIN c.prompts : Len(c.prompts[k]) = Len(c.prompts[m])
    BY <2>1, GenerateAssumption
  <2> QED
    BY <1>2, <2>2, <2>3
<1>11. MinPromptLen(c) <= MaxPromptLen(c)
  <2>1. PICK j \in DOMAIN c.prompts : MaxPromptLen(c) = Len(c.prompts[j])
    BY <1>6
  <2> QED
    BY <1>6, <1>7, <2>1
<1>12. \A i \in 1 .. n :
         /\ c.prompts[i] \in Seq(Vocab) /\ Len(c.prompts[i]) \in Nat \ {0}
         /\ Len(c.prompts[i]) <= MaxPromptLen(c) /\ MinPromptLen(c) <= Len(c.prompts[i])
  BY <1>2, <1>3, <1>6, <1>7
<1>13. 0 < MinPromptLen(c) /\ MaxPromptLen(c) \in Nat /\ MinPromptLen(c) \in Nat
  BY <1>7
<1> HIDE DEF lens, len, n
<1>14. c.prompts \in Seq(Seq(Vocab)) /\ n \in Nat \ {0} /\ DOMAIN c.prompts = 1 .. n
  BY <1>2
<1> QED
  BY <1>1, <1>9, <1>10, <1>11, <1>12, <1>13, <1>14, Zenon DEF n

-----------------------------------------------------------------------------
(***************************************************************************)
(* The cache of a call of LLaMA.generate.                                  *)
(***************************************************************************)
\* A row of n tokens as generate keeps it: the first p entries of its cache row are right.
Holds(row, toks, p) == \A q \in 1 .. p : row[q] = SubSeq(toks, 1, q)

LlamaLoop ==
  /\ Accepts(call)
  /\ DOMAIN tokens = 1 .. Bsz(call)
  /\ \A i \in 1 .. Bsz(call) : tokens[i] \in Seq(Vocab) /\ Len(tokens[i]) = TotalLen(call)
  /\ prev_pos \in Nat /\ cur_pos \in Nat /\ prev_pos <= cur_pos
  /\ MinPromptLen(call) <= cur_pos /\ cur_pos <= TotalLen(call)
  /\ \A i \in 1 .. Bsz(call) :
       /\ Holds(cache[i], tokens[i], prev_pos)
       /\ eos_reached[i] =>
            \E k \in Len(call.prompts[i]) + 1 .. cur_pos : tokens[i][k] \in StopTokens

GPTLoop ==
  /\ DOMAIN tokens = 1 .. Bsz(call) /\ tokens = [i \in 1 .. Bsz(call) |-> tokens[i]]
  /\ cur_pos \in Nat /\ MaxPromptLen(call) <= cur_pos /\ cur_pos <= TotalLen(call)
  /\ \A i \in 1 .. Bsz(call) : tokens[i] \in Seq(Vocab) /\ Len(tokens[i]) = cur_pos

GenInv ==
  /\ DOMAIN cache = 1 .. MaxGenBatch
  /\ \A b \in 1 .. MaxGenBatch : DOMAIN cache[b] = 1 .. BlockLength
  /\ phase = "loop" => call \in Calls
  /\ phase = "loop" /\ call.model = "llama" => LlamaLoop
  /\ phase = "loop" /\ call.model = "gpt2" => GPTLoop

\* The shape of the cache is kept by every forward pass.
LEMMA ForwardShape ==
  ASSUME NEW chunks, NEW start,
         DOMAIN cache = 1 .. MaxGenBatch,
         \A b \in 1 .. MaxGenBatch : DOMAIN cache[b] = 1 .. BlockLength
  PROVE  /\ DOMAIN Forward(chunks, start) = 1 .. MaxGenBatch
         /\ \A b \in 1 .. MaxGenBatch : DOMAIN Forward(chunks, start)[b] = 1 .. BlockLength
BY DEF Forward, ForwardRow

\* What was computed after the first start tokens and a chunk of what follows them.
LEMMA HistoryGrows ==
  ASSUME NEW toks \in Seq(Vocab), NEW start \in Nat, NEW end \in Nat,
         start <= end, end <= Len(toks), NEW k \in 1 .. end - start
  PROVE  SubSeq(toks, 1, start) \o SubSeq(SubSeq(toks, start + 1, end), 1, k) = SubSeq(toks, 1, start + k)
<1>1. SubSeq(SubSeq(toks, start + 1, end), 1, k) = SubSeq(toks, start + 1 + 1 - 1, start + 1 + k - 1)
  <2>1. /\ start + 1 \in Int /\ end \in Int /\ \A i \in start + 1 .. end : toks[i] \in Vocab
        /\ 1 \in 1 .. (1 + end - (start + 1)) /\ k \in 1 - 1 .. end - (start + 1) + 1
    OBVIOUS
  <2> QED
    BY <2>1, SubSeqOfSubSeq
<1>2. start + 1 + 1 - 1 = start + 1 /\ start + 1 + k - 1 = start + k
  OBVIOUS
<1>3. SubSeq(toks, 1, start) \o SubSeq(toks, start + 1, start + k) = SubSeq(toks, 1, start + k)
  <2>1. /\ 1 \in 1 .. Len(toks) + 1 /\ start \in 1 - 1 .. Len(toks)
        /\ start + k \in start .. Len(toks)
    OBVIOUS
  <2> QED
    BY <2>1, ConcatAdjacentSubSeq
<1> QED
  BY <1>1, <1>2, <1>3

LEMMA RowForward ==
  ASSUME NEW row, NEW toks \in Seq(Vocab), NEW start \in Nat, NEW end \in Nat,
         start <= end, end <= Len(toks), Len(toks) <= BlockLength,
         DOMAIN row = 1 .. BlockLength, Holds(row, toks, start)
  PROVE  Holds(ForwardRow(row, SubSeq(toks, start + 1, end), start), toks, end)
<1> DEFINE chunk == SubSeq(toks, start + 1, end)
           history == IF start = 0 THEN << >> ELSE row[start]
<1>0. BlockLength \in Nat /\ Len(toks) \in Nat
  BY SamplingAssumption
<1>1. Len(chunk) = end - start
  <2>1. \A i \in start + 1 .. end : toks[i] \in Vocab
    OBVIOUS
  <2>2. Len(chunk) = IF start + 1 <= end THEN end - (start + 1) + 1 ELSE 0
    BY <2>1, SubSeqProperties
  <2> QED
    BY <2>2
<1>2. history = SubSeq(toks, 1, start)
  <2>1. start = 0 => SubSeq(toks, 1, start) = << >>
    BY SubSeqEmpty
  <2> QED
    BY <2>1 DEF Holds
<1>3. \A q \in 1 .. start : row[q] = SubSeq(history, 1, q) /\ row[q] # Stale
  <2>1. SUFFICES ASSUME NEW q \in 1 .. start PROVE row[q] = SubSeq(history, 1, q) /\ row[q] # Stale
    OBVIOUS
  <2>2. row[q] = SubSeq(toks, 1, q)
    BY DEF Holds
  <2>3. /\ 1 \in Int /\ q \in Int /\ start \in Int /\ q <= start
        /\ \A i \in 1 .. start : toks[i] \in Vocab
        /\ \A i \in 1 .. q : toks[i] \in Vocab
    BY <1>0
  <2>4. SubSeq(SubSeq(toks, 1, start), 1, q) = SubSeq(toks, 1 + 1 - 1, 1 + q - 1)
    <3>1. 1 \in 1 .. (1 + start - 1) /\ q \in 1 - 1 .. start - 1 + 1
      BY <1>0
    <3> QED
      BY <2>3, <3>1, SubSeqOfSubSeq
  <2>5. Len(SubSeq(toks, 1, q)) = q
    <3>1. Len(SubSeq(toks, 1, q)) = IF 1 <= q THEN q - 1 + 1 ELSE 0
      BY <2>3, SubSeqProperties
    <3> QED
      BY <2>1, <3>1
  <2>6. 1 + 1 - 1 = 1 /\ 1 + q - 1 = q
    BY <1>0
  <2>7. row[q] # << >>
    <3>1. Len(<< >>) = 0 /\ q # 0
      BY <1>0
    <3> QED
      BY <2>2, <2>5, <3>1
  <2> QED
    BY <1>2, <2>2, <2>4, <2>6, <2>7 DEF Stale
<1> HIDE DEF chunk, history
<1>4. \A k : EntryAfter(row, chunk, start, k) = history \o SubSeq(chunk, 1, k)
  BY <1>3 DEF EntryAfter, history
<1>5. ASSUME NEW q \in 1 .. end
      PROVE  ForwardRow(row, chunk, start)[q] = SubSeq(toks, 1, q)
  <2>0. q \in 1 .. BlockLength /\ q \in Nat
    BY <1>0
  <2>1. CASE q <= start
    <3>1. q \in 1 .. start /\ q \notin start + 1 .. start + Len(chunk)
      BY <1>1, <2>0, <2>1
    <3>2. ForwardRow(row, chunk, start)[q] = row[q]
      BY <2>0, <3>1 DEF ForwardRow
    <3> QED
      BY <3>1, <3>2 DEF Holds
  <2>2. CASE ~ (q <= start)
    <3>1. q \in start + 1 .. start + Len(chunk) /\ q - start \in 1 .. end - start /\ start + (q - start) = q
      BY <1>1, <2>0, <2>2
    <3>2. ForwardRow(row, chunk, start)[q] = EntryAfter(row, chunk, start, q - start)
      BY <2>0, <3>1 DEF ForwardRow
    <3>3. SubSeq(toks, 1, start) \o SubSeq(chunk, 1, q - start) = SubSeq(toks, 1, start + (q - start))
      BY <3>1, HistoryGrows DEF chunk
    <3> QED
      BY <1>2, <1>4, <3>1, <3>2, <3>3
  <2> QED
    BY <2>1, <2>2
<1> QED
  BY <1>5 DEF Holds, chunk

\* A token put after position n leaves the first n alone.
LEMMA PutAfter ==
  ASSUME NEW toks \in Seq(Vocab), NEW n \in Nat, n < Len(toks), NEW t \in Vocab
  PROVE  LET new == [toks EXCEPT ![n + 1] = t]
         IN  /\ new \in Seq(Vocab) /\ Len(new) = Len(toks) /\ new[n + 1] = t
             /\ \A q \in 1 .. Len(toks) : q # n + 1 => new[q] = toks[q]
             /\ \A q \in 0 .. n : SubSeq(new, 1, q) = SubSeq(toks, 1, q)
<1> DEFINE new == [toks EXCEPT ![n + 1] = t]
<1>1. /\ new \in Seq(Vocab) /\ Len(new) = Len(toks) /\ new[n + 1] = t
      /\ \A q \in 1 .. Len(toks) : q # n + 1 => new[q] = toks[q]
  OBVIOUS
<1> HIDE DEF new
<1>2. ASSUME NEW q \in 0 .. n
      PROVE  SubSeq(new, 1, q) = SubSeq(toks, 1, q)
  <2> DEFINE a == SubSeq(new, 1, q)
             b == SubSeq(toks, 1, q)
  <2>1. /\ \A i \in 1 .. q : new[i] \in Vocab /\ toks[i] \in Vocab /\ new[i] = toks[i]
        /\ 1 \in Int /\ q \in Int
    BY <1>1
  <2>2. /\ a \in Seq(Vocab) /\ Len(a) = q /\ \A i \in 1 .. q : a[i] = new[i]
    BY <2>1, SubSeqProperties
  <2>3. /\ b \in Seq(Vocab) /\ Len(b) = q /\ \A i \in 1 .. q : b[i] = toks[i]
    BY <2>1, SubSeqProperties
  <2> HIDE DEF a, b
  <2>4. a = b
    BY <2>1, <2>2, <2>3, SeqEqual
  <2> QED
    BY <2>4 DEF a, b
<1> QED
  BY <1>1, <1>2 DEF new

LEMMA DrawsFromVocab == \A w, c : Draws(w, c) \subseteq Vocab
BY DEF Draws, TopPDraws, TopKDraws, ArgMax

LEMMA PaddedRows ==
  ASSUME NEW c \in Calls
  PROVE  /\ DOMAIN Padded(c) = 1 .. Bsz(c)
         /\ \A i \in 1 .. Bsz(c) :
              /\ Padded(c)[i] \in Seq(Vocab) /\ Len(Padded(c)[i]) = TotalLen(c)
              /\ \A k \in 1 .. TotalLen(c) :
                   k <= Len(c.prompts[i]) => Padded(c)[i][k] = c.prompts[i][k]
<1>1. /\ TotalLen(c) \in Nat
      /\ \A i \in 1 .. Bsz(c) : c.prompts[i] \in Seq(Vocab)
      /\ PadId \in Vocab
  BY CallFacts, GenerateAssumption
<1>2. DOMAIN Padded(c) = 1 .. Bsz(c)
  BY DEF Padded
<1>3. ASSUME NEW i \in 1 .. Bsz(c)
      PROVE  /\ Padded(c)[i] \in Seq(Vocab) /\ Len(Padded(c)[i]) = TotalLen(c)
             /\ \A k \in 1 .. TotalLen(c) :
                  k <= Len(c.prompts[i]) => Padded(c)[i][k] = c.prompts[i][k]
  <2> DEFINE p == c.prompts[i]
             n == TotalLen(c)
             row == [k \in 1 .. n |-> IF k <= Len(p) THEN p[k] ELSE PadId]
  <2>1. Padded(c)[i] = row
    BY DEF Padded
  <2>2. p \in Seq(Vocab) /\ n \in Nat /\ PadId \in Vocab
    BY <1>1
  <2> HIDE DEF p, n
  <2>3. /\ row \in Seq(Vocab) /\ Len(row) = n
        /\ \A k \in 1 .. n : k <= Len(p) => row[k] = p[k]
    BY <2>2
  <2> QED
    BY <2>1, <2>3 DEF p, n
<1> QED
  BY <1>2, <1>3

LEMMA GenInvInit == GenInit => GenInv
BY DEF GenInit, GenInv

\* The first rows after the forward pass of a step of generate.
Written == Forward([i \in DOMAIN tokens |-> SubSeq(tokens[i], prev_pos + 1, cur_pos)], prev_pos)

LEMMA WrittenHolds ==
  ASSUME GenInv, phase = "loop", call.model = "llama"
  PROVE  \A i \in 1 .. Bsz(call) : Holds(Written[i], tokens[i], cur_pos)
<1>0. /\ LlamaLoop /\ call \in Calls /\ DOMAIN cache = 1 .. MaxGenBatch
      /\ \A b \in 1 .. MaxGenBatch : DOMAIN cache[b] = 1 .. BlockLength
  BY DEF GenInv
<1>1. Bsz(call) \in Nat /\ Bsz(call) <= MaxGenBatch /\ TotalLen(call) <= BlockLength /\ MaxGenBatch \in Nat
  BY <1>0, CallFacts, GenerateAssumption DEF LlamaLoop
<1>2. ASSUME NEW i \in 1 .. Bsz(call)
      PROVE  Holds(Written[i], tokens[i], cur_pos)
  <2> DEFINE chunks == [j \in DOMAIN tokens |-> SubSeq(tokens[j], prev_pos + 1, cur_pos)]
  <2>1. i \in 1 .. MaxGenBatch /\ i \in DOMAIN tokens
    BY <1>0, <1>1 DEF LlamaLoop
  <2>2. chunks[i] = SubSeq(tokens[i], prev_pos + 1, cur_pos) /\ i \in DOMAIN chunks
    BY <2>1
  <2>3. Written = Forward(chunks, prev_pos)
    BY DEF Written
  <2> HIDE DEF chunks
  <2>4. Written[i] = ForwardRow(cache[i], SubSeq(tokens[i], prev_pos + 1, cur_pos), prev_pos)
    BY <1>0, <2>1, <2>2, <2>3 DEF Forward
  <2>5. /\ tokens[i] \in Seq(Vocab) /\ prev_pos \in Nat /\ cur_pos \in Nat /\ prev_pos <= cur_pos
        /\ cur_pos <= Len(tokens[i]) /\ Len(tokens[i]) <= BlockLength
        /\ DOMAIN cache[i] = 1 .. BlockLength /\ Holds(cache[i], tokens[i], prev_pos)
    BY <1>0, <1>1, <2>1 DEF LlamaLoop
  <2> QED
    BY <2>4, <2>5, RowForward
<1> QED
  BY <1>2

\* What the step writes into row i.
Filled(i, next) == [tokens[i] EXCEPT ![cur_pos + 1] = next[i]]

\* The step of LLaMA.generate, with the token it draws for each row.
LEMMA GeneratesTokens ==
  ASSUME GenInv, GenerateToken
  PROVE  /\ phase = "loop" /\ call.model = "llama" /\ call \in Calls /\ LlamaLoop
         /\ cur_pos < TotalLen(call)
         /\ cache' = Written
         /\ \E next :
              /\ \A i \in 1 .. Bsz(call) :
                   next[i] \in Vocab /\
                   next[i] \in (IF InputText(i) THEN {tokens[i][cur_pos + 1]} ELSE NextTokens(Written[i][cur_pos]))
              /\ tokens' = [i \in 1 .. Bsz(call) |-> Filled(i, next)]
              /\ eos_reached' = [i \in 1 .. Bsz(call) |->
                                   eos_reached[i] \/ (~ InputText(i) /\ next[i] \in StopTokens)]
         /\ prev_pos' = cur_pos /\ cur_pos' = cur_pos + 1
         /\ UNCHANGED <<phase, call, out, calls>>
<1> DEFINE options == [i \in DOMAIN tokens |->
                         IF InputText(i) THEN {tokens[i][cur_pos + 1]} ELSE NextTokens(Written[i][cur_pos])]
<1>1. /\ phase = "loop" /\ call.model = "llama" /\ call \in Calls /\ LlamaLoop
      /\ cur_pos < TotalLen(call) /\ DOMAIN tokens = 1 .. Bsz(call)
  BY DEF GenInv, GenerateToken, LlamaLoop
<1>2. /\ cache' = Written
      /\ prev_pos' = cur_pos /\ cur_pos' = cur_pos + 1
      /\ UNCHANGED <<phase, call, out, calls>>
  BY DEF GenerateToken, Written
<1>3. PICK next \in [DOMAIN tokens -> UNION Range(options)] :
        /\ \A i \in DOMAIN tokens : next[i] \in options[i]
        /\ tokens' = [i \in DOMAIN tokens |-> [tokens[i] EXCEPT ![cur_pos + 1] = next[i]]]
        /\ eos_reached' = [i \in DOMAIN tokens |->
                             eos_reached[i] \/ (~ InputText(i) /\ next[i] \in StopTokens)]
  BY Zenon DEF GenerateToken, Written
<1>4. ASSUME NEW i \in 1 .. Bsz(call)
      PROVE  /\ next[i] \in Vocab
             /\ next[i] \in (IF InputText(i) THEN {tokens[i][cur_pos + 1]} ELSE NextTokens(Written[i][cur_pos]))
  <2>1. next[i] \in (IF InputText(i) THEN {tokens[i][cur_pos + 1]} ELSE NextTokens(Written[i][cur_pos]))
    BY <1>1, <1>3
  <2>2. tokens[i][cur_pos + 1] \in Vocab
    <3>1. tokens[i] \in Seq(Vocab) /\ cur_pos + 1 \in 1 .. Len(tokens[i])
      BY <1>1, CallFacts DEF LlamaLoop
    <3> QED
      BY <3>1
  <2>3. NextTokens(Written[i][cur_pos]) \subseteq Vocab
    BY DrawsFromVocab DEF NextTokens
  <2> QED
    BY <2>1, <2>2, <2>3
<1>5. /\ tokens' = [i \in 1 .. Bsz(call) |-> Filled(i, next)]
      /\ eos_reached' = [i \in 1 .. Bsz(call) |->
                           eos_reached[i] \/ (~ InputText(i) /\ next[i] \in StopTokens)]
  BY <1>1, <1>3, Zenon DEF Filled
<1> QED
  BY <1>1, <1>2, <1>4, <1>5

LEMMA GenerateTokenKeeps ==
  ASSUME GenInv, GenerateToken
  PROVE  GenInv'
<1>1. /\ phase = "loop" /\ call.model = "llama" /\ call \in Calls /\ LlamaLoop
      /\ cur_pos < TotalLen(call)
      /\ cache' = Written
      /\ prev_pos' = cur_pos /\ cur_pos' = cur_pos + 1
      /\ phase' = phase /\ call' = call
  BY GeneratesTokens, Zenon
<1>2. PICK next :
        /\ \A i \in 1 .. Bsz(call) : next[i] \in Vocab
        /\ tokens' = [i \in 1 .. Bsz(call) |-> Filled(i, next)]
        /\ eos_reached' = [i \in 1 .. Bsz(call) |->
                             eos_reached[i] \/ (~ InputText(i) /\ next[i] \in StopTokens)]
  BY GeneratesTokens, Zenon
<1>3. /\ TotalLen(call) \in Nat /\ cur_pos \in Nat /\ MinPromptLen(call) \in Nat
      /\ \A i \in 1 .. Bsz(call) : Len(call.prompts[i]) \in Nat
  BY <1>1, CallFacts DEF LlamaLoop
<1>4. DOMAIN cache' = 1 .. MaxGenBatch /\ \A b \in 1 .. MaxGenBatch : DOMAIN cache'[b] = 1 .. BlockLength
  BY <1>1, ForwardShape DEF GenInv, Written
<1>5. \A i \in 1 .. Bsz(call) :
        /\ tokens'[i] = Filled(i, next)
        /\ Filled(i, next) \in Seq(Vocab) /\ Len(Filled(i, next)) = TotalLen(call)
        /\ Filled(i, next)[cur_pos + 1] = next[i]
        /\ \A q \in 1 .. TotalLen(call) : q # cur_pos + 1 => Filled(i, next)[q] = tokens[i][q]
        /\ \A q \in 0 .. cur_pos : SubSeq(Filled(i, next), 1, q) = SubSeq(tokens[i], 1, q)
  <2>1. SUFFICES ASSUME NEW i \in 1 .. Bsz(call)
                 PROVE  /\ Filled(i, next) \in Seq(Vocab) /\ Len(Filled(i, next)) = TotalLen(call)
                        /\ Filled(i, next)[cur_pos + 1] = next[i]
                        /\ \A q \in 1 .. TotalLen(call) : q # cur_pos + 1 => Filled(i, next)[q] = tokens[i][q]
                        /\ \A q \in 0 .. cur_pos : SubSeq(Filled(i, next), 1, q) = SubSeq(tokens[i], 1, q)
    BY <1>2
  <2>2. tokens[i] \in Seq(Vocab) /\ Len(tokens[i]) = TotalLen(call) /\ next[i] \in Vocab
    BY <1>1, <1>2 DEF LlamaLoop
  <2> QED
    BY <1>1, <1>3, <2>2, PutAfter DEF Filled
<1>6. ASSUME NEW i \in 1 .. Bsz(call)
      PROVE  Holds(cache'[i], tokens'[i], cur_pos)
  <2>1. Holds(Written[i], tokens[i], cur_pos)
    BY <1>1, WrittenHolds
  <2>2. \A q \in 1 .. cur_pos : q \in 0 .. cur_pos
    BY <1>3
  <2> QED
    BY <1>1, <1>5, <2>1, <2>2 DEF Holds
<1>7. ASSUME NEW i \in 1 .. Bsz(call), eos_reached'[i]
      PROVE  \E k \in Len(call.prompts[i]) + 1 .. cur_pos + 1 : tokens'[i][k] \in StopTokens
  <2>1. CASE eos_reached[i]
    <3>1. PICK k \in Len(call.prompts[i]) + 1 .. cur_pos : tokens[i][k] \in StopTokens
      BY <1>1, <2>1 DEF LlamaLoop
    <3>2. /\ k \in Len(call.prompts[i]) + 1 .. cur_pos + 1
          /\ k \in 1 .. TotalLen(call) /\ k # cur_pos + 1
      BY <1>1, <1>3, <3>1
    <3>3. tokens'[i][k] = tokens[i][k]
      BY <1>5, <3>2
    <3> QED
      BY <3>1, <3>2, <3>3
  <2>2. CASE ~ InputText(i) /\ next[i] \in StopTokens
    <3>1. cur_pos + 1 \in Len(call.prompts[i]) + 1 .. cur_pos + 1
      BY <1>3, <2>2 DEF InputText
    <3>2. tokens'[i][cur_pos + 1] = next[i]
      BY <1>5
    <3> QED
      BY <2>2, <3>1, <3>2
  <2> QED
    BY <1>2, <1>7, <2>1, <2>2
<1>8. LlamaLoop'
  <2>1. Accepts(call') /\ DOMAIN tokens' = 1 .. Bsz(call')
    BY <1>1, <1>2 DEF LlamaLoop
  <2>2. \A i \in 1 .. Bsz(call') : tokens'[i] \in Seq(Vocab) /\ Len(tokens'[i]) = TotalLen(call')
    BY <1>1, <1>5
  <2>3. /\ prev_pos' \in Nat /\ cur_pos' \in Nat /\ prev_pos' <= cur_pos'
        /\ MinPromptLen(call') <= cur_pos' /\ cur_pos' <= TotalLen(call')
    BY <1>1, <1>3 DEF LlamaLoop
  <2>4. \A i \in 1 .. Bsz(call') :
          /\ Holds(cache'[i], tokens'[i], prev_pos')
          /\ eos_reached'[i] =>
               \E k \in Len(call'.prompts[i]) + 1 .. cur_pos' : tokens'[i][k] \in StopTokens
    BY <1>1, <1>6, <1>7
  <2> QED
    BY <2>1, <2>2, <2>3, <2>4 DEF LlamaLoop
<1> QED
  BY <1>1, <1>4, <1>8 DEF GenInv

LEMMA BeginLlamaKeeps ==
  ASSUME GenInv, BeginLlama
  PROVE  GenInv'
<1>0. /\ DOMAIN cache = 1 .. MaxGenBatch
      /\ \A b \in 1 .. MaxGenBatch : DOMAIN cache[b] = 1 .. BlockLength
  BY DEF GenInv
<1>1. PICK c \in Calls :
        /\ c.model = "llama"
        /\ IF Accepts(c)
           THEN /\ phase' = "loop"
                /\ call' = c /\ tokens' = Padded(c) /\ out' = << >>
                /\ prev_pos' = 0 /\ cur_pos' = MinPromptLen(c)
                /\ eos_reached' = [i \in 1 .. Bsz(c) |-> FALSE]
                /\ cache' = IF MinPromptLen(c) = TotalLen(c) THEN Forward(Padded(c), 0) ELSE cache
           ELSE /\ phase' = "failed"
                /\ UNCHANGED <<call, tokens, out, prev_pos, cur_pos, eos_reached, cache>>
  BY Zenon DEF BeginLlama
<1>2. CASE Accepts(c)
  <2>1. /\ phase' = "loop" /\ call' = c /\ tokens' = Padded(c)
        /\ prev_pos' = 0 /\ cur_pos' = MinPromptLen(c)
        /\ eos_reached' = [i \in 1 .. Bsz(c) |-> FALSE]
        /\ cache' = IF MinPromptLen(c) = TotalLen(c) THEN Forward(Padded(c), 0) ELSE cache
    BY <1>1, <1>2
  <2>2. DOMAIN cache' = 1 .. MaxGenBatch /\ \A b \in 1 .. MaxGenBatch : DOMAIN cache'[b] = 1 .. BlockLength
    BY <1>0, <2>1, ForwardShape
  <2>3. LlamaLoop'
    <3>1. /\ MinPromptLen(c) \in Nat /\ TotalLen(c) \in Nat /\ MinPromptLen(c) <= TotalLen(c)
      <4>1. /\ MinPromptLen(c) \in Nat /\ TotalLen(c) \in Nat /\ MaxPromptLen(c) \in Nat
            /\ MinPromptLen(c) <= MaxPromptLen(c) /\ MaxPromptLen(c) <= TotalLen(c)
        BY <1>1, <1>2, CallFacts
      <4> QED
        BY <4>1
    <3>2. /\ DOMAIN Padded(c) = 1 .. Bsz(c)
          /\ \A i \in 1 .. Bsz(c) : Padded(c)[i] \in Seq(Vocab) /\ Len(Padded(c)[i]) = TotalLen(c)
      BY PaddedRows
    <3>3. \A i \in 1 .. Bsz(c) : ~ eos_reached'[i] /\ Holds(cache'[i], tokens'[i], prev_pos')
      BY <2>1 DEF Holds
    <3> QED
      BY <1>2, <2>1, <3>1, <3>2, <3>3 DEF LlamaLoop
  <2> QED
    BY <1>1, <2>1, <2>2, <2>3 DEF GenInv
<1>3. CASE ~ Accepts(c)
  BY <1>0, <1>1, <1>3 DEF GenInv
<1> QED
  BY <1>2, <1>3

LEMMA BeginGPTKeeps ==
  ASSUME GenInv, BeginGPT
  PROVE  GenInv'
<1>0. /\ DOMAIN cache = 1 .. MaxGenBatch
      /\ \A b \in 1 .. MaxGenBatch : DOMAIN cache[b] = 1 .. BlockLength
  BY DEF GenInv
<1>1. PICK c \in Calls : c.model = "gpt2" /\ call' = c /\ tokens' = c.prompts /\ cur_pos' = MaxPromptLen(c)
  BY DEF BeginGPT
<1>2. phase' = "loop" /\ cache' = cache
  BY DEF BeginGPT
<1>3. GPTLoop'
  <2>1. /\ c.prompts \in Seq(Seq(Vocab)) /\ DOMAIN c.prompts = 1 .. Bsz(c) /\ MaxPromptLen(c) \in Nat
        /\ c.max_gen_len \in Nat /\ TotalLen(c) = c.max_gen_len + MaxPromptLen(c)
        /\ \A i \in 1 .. Bsz(c) : c.prompts[i] \in Seq(Vocab) /\ Len(c.prompts[i]) = MaxPromptLen(c)
    BY <1>1, CallFacts
  <2>2. c.prompts = [i \in 1 .. Bsz(c) |-> c.prompts[i]]
    <3> DEFINE s == c.prompts
    <3>1. s \in Seq(Seq(Vocab)) /\ DOMAIN s = 1 .. Bsz(c)
      BY <2>1
    <3> HIDE DEF s
    <3>2. s = [i \in DOMAIN s |-> s[i]]
      BY <3>1
    <3> QED
      BY <3>1, <3>2 DEF s
  <2>3. MaxPromptLen(c) <= TotalLen(c)
    BY <2>1
  <2> QED
    BY <1>1, <2>1, <2>2, <2>3 DEF GPTLoop
<1> QED
  BY <1>0, <1>1, <1>2, <1>3 DEF GenInv

LEMMA AppendTokenKeeps ==
  ASSUME GenInv, AppendToken
  PROVE  GenInv'
<1>0. /\ DOMAIN cache = 1 .. MaxGenBatch
      /\ \A b \in 1 .. MaxGenBatch : DOMAIN cache[b] = 1 .. BlockLength
  BY DEF GenInv
<1>1. /\ phase = "loop" /\ call.model = "gpt2" /\ call \in Calls /\ GPTLoop
      /\ cur_pos < TotalLen(call) /\ cur_pos' = cur_pos + 1
      /\ phase' = phase /\ call' = call /\ cache' = cache
  BY DEF GenInv, AppendToken
<1>2. PICK next \in [DOMAIN tokens -> Vocab] :
        tokens' = [i \in DOMAIN tokens |-> Append(tokens[i], next[i])]
  BY Zenon DEF AppendToken
<1>3. GPTLoop'
  <2>0. TotalLen(call) \in Nat /\ MaxPromptLen(call) \in Nat
    BY <1>1, CallFacts
  <2>1. /\ DOMAIN tokens = 1 .. Bsz(call) /\ cur_pos \in Nat /\ MaxPromptLen(call) <= cur_pos
        /\ \A i \in 1 .. Bsz(call) : tokens[i] \in Seq(Vocab) /\ Len(tokens[i]) = cur_pos
    BY <1>1 DEF GPTLoop
  <2>2. \A i \in 1 .. Bsz(call) : tokens'[i] \in Seq(Vocab) /\ Len(tokens'[i]) = cur_pos + 1
    BY <1>2, <2>1
  <2>3. DOMAIN tokens' = 1 .. Bsz(call) /\ tokens' = [i \in 1 .. Bsz(call) |-> tokens'[i]]
    BY <1>2, <2>1
  <2> QED
    BY <1>1, <2>0, <2>1, <2>2, <2>3 DEF GPTLoop
<1> QED
  BY <1>0, <1>1, <1>3 DEF GenInv

LEMMA GenInvNext == GenInv /\ [GenNext]_gen_vars => GenInv'
<1>1. SUFFICES ASSUME GenInv, [GenNext]_gen_vars PROVE GenInv'
  OBVIOUS
<1>0. /\ DOMAIN cache = 1 .. MaxGenBatch
      /\ \A b \in 1 .. MaxGenBatch : DOMAIN cache[b] = 1 .. BlockLength
  BY <1>1 DEF GenInv
<1>2. CASE BeginLlama
  BY <1>1, <1>2, BeginLlamaKeeps
<1>3. CASE GenerateToken
  BY <1>1, <1>3, GenerateTokenKeeps
<1>4. CASE ReturnLlama
  BY <1>0, <1>4 DEF ReturnLlama, GenInv
<1>5. CASE BeginGPT
  BY <1>1, <1>5, BeginGPTKeeps
<1>6. CASE AppendToken
  BY <1>1, <1>6, AppendTokenKeeps
<1>7. CASE ReturnGPT
  BY <1>0, <1>7 DEF ReturnGPT, GenInv
<1>8. CASE Validate
  <2>1. PICK b : IF b <= MaxGenBatch
                 THEN cache' = Forward([i \in 1 .. b |-> ValidationRow], 0) /\ UNCHANGED phase
                 ELSE phase' = "failed" /\ UNCHANGED cache
    BY <1>8 DEF Validate
  <2>2. DOMAIN cache' = 1 .. MaxGenBatch /\ \A r \in 1 .. MaxGenBatch : DOMAIN cache'[r] = 1 .. BlockLength
    BY <1>0, <2>1, ForwardShape
  <2>3. phase' # "loop"
    BY <1>8, <2>1 DEF Validate
  <2> QED
    BY <2>2, <2>3 DEF GenInv
<1>9. CASE UNCHANGED gen_vars
  BY <1>1, <1>9 DEF gen_vars, GenInv, LlamaLoop, GPTLoop, InputText
<1> QED
  BY <1>1, <1>2, <1>3, <1>4, <1>5, <1>6, <1>7, <1>8, <1>9 DEF GenNext

\* GenInv is inductive; CacheHoldsOwnText is a part of it: whatever earlier calls, batches
\* of other sizes and validations have left in the cache, a call of LLaMA.generate attends
\* to its own rows' tokens.
THEOREM CacheStaysOwn == GenSpec => []CacheHoldsOwnText
<1>1. GenInv => CacheHoldsOwnText
  BY DEF GenInv, LlamaLoop, Holds, CacheHoldsOwnText
<1> QED
  BY <1>1, GenInvInit, GenInvNext, PTL DEF GenSpec

-----------------------------------------------------------------------------
(***************************************************************************)
(* Generation implements Autoregress.  Its operators on distributions and  *)
(* calls are those of Sampling.                                            *)
(***************************************************************************)
LEMMA AbstractCardinality == \A S : A!Cardinality(S) = Cardinality(S)
BY DEF A!Cardinality, Cardinality

LEMMA AbstractMass == \A w, S : A!Mass(w, S) = Mass(w, S)
BY AbstractCardinality DEF A!Mass, Mass

LEMMA AbstractNuclei == \A w, p : A!Nuclei(w, p) = Nuclei(w, p)
BY AbstractMass, AbstractCardinality DEF A!Nuclei, Nuclei

LEMMA AbstractDraws ==
  \A w, k : A!TopKDraws(w, k) = TopKDraws(w, k) /\ A!ArgMax(w) = ArgMax(w)
BY AbstractCardinality DEF A!TopKDraws, TopKDraws, A!Heavier, Heavier, A!ArgMax, ArgMax

LEMMA AbstractTotalLen == \A c : A!TotalLen(c) = TotalLen(c)
BY DEF A!TotalLen, TotalLen, A!MaxPromptLen, MaxPromptLen

LEMMA AbstractReturned == \A c, i, row : A!Returned(c, i, row) = Returned(c, i, row)
BY DEF A!Returned, Returned, A!CutAtStop, CutAtStop, A!CutToLength, CutToLength, A!Min, Min

\* The model sees no more than its block of a text, and at least one token.
LEMMA ContextIsCropped ==
  ASSUME NEW row \in Seq(Vocab), Len(row) # 0
  PROVE  /\ A!Context(row) = Cropped(row) /\ Cropped(row) \in ModelTexts
         /\ Len(row) <= BlockLength => Cropped(row) = row
<1> DEFINE n == Len(row)
           start == n - BlockLength + 1
<1>0. BlockLength \in Nat \ {0} /\ n \in Nat \ {0}
  BY SamplingAssumption
<1>1. ASSUME NEW s \in Seq(Vocab), Len(s) \in 1 .. BlockLength
      PROVE  s \in ModelTexts
  <2>1. s \in [1 .. Len(s) -> Vocab]
    OBVIOUS
  <2> QED
    BY <1>1, <2>1 DEF ModelTexts
<1>2. CASE n <= BlockLength
  <2>1. Cropped(row) = row
    BY <1>2 DEF Cropped
  <2>2. A!Context(row) = SubSeq(row, 1, n)
    <3>1. ~ (n > BlockLength)
      BY <1>0, <1>2
    <3> QED
      BY <3>1 DEF A!Context
  <2>3. SubSeq(row, 1, n) = row
    BY SubSeqFull
  <2>4. row \in ModelTexts
    BY <1>0, <1>1, <1>2
  <2> QED
    BY <2>1, <2>2, <2>3, <2>4
<1>3. CASE ~ (n <= BlockLength)
  <2>1. n > BlockLength
    BY <1>0, <1>3
  <2>2. A!Context(row) = SubSeq(row, start, n) /\ Cropped(row) = SubSeq(row, start, n)
    BY <1>3, <2>1 DEF A!Context, Cropped
  <2>3. /\ start \in Int /\ n \in Int /\ start <= n /\ n - start + 1 = BlockLength
        /\ \A i \in start .. n : row[i] \in Vocab
    BY <1>0, <2>1
  <2> HIDE DEF start, n
  <2>4. SubSeq(row, start, n) \in Seq(Vocab) /\ Len(SubSeq(row, start, n)) = BlockLength
    BY <2>3, SubSeqProperties
  <2>5. SubSeq(row, start, n) \in ModelTexts
    <3> DEFINE s == SubSeq(row, start, n)
    <3>1. s \in Seq(Vocab) /\ Len(s) \in 1 .. BlockLength
      BY <1>0, <2>4
    <3> HIDE DEF s
    <3>2. s \in ModelTexts
      BY <1>1, <3>1
    <3> QED
      BY <3>2 DEF s
  <2> QED
    BY <1>3, <2>2, <2>5, Zenon DEF n
<1> QED
  BY <1>2, <1>3

LEMMA AllowedAreDraws ==
  ASSUME call \in Calls, NEW row \in Seq(Vocab), Len(row) # 0
  PROVE  A!Allowed(row) = Draws(Probs(Cropped(row)), call)
<1> DEFINE w == Probs(Cropped(row))
<1>1. A!Context(row) = Cropped(row) /\ Cropped(row) \in ModelTexts
  BY ContextIsCropped
<1>2. w \in [Vocab -> Nat]
  BY <1>1, GenerateAssumption
<1>3. ASSUME call.sampling = "top_p"
      PROVE  TopPDraws(w, call.threshold) = {t \in UNION Nuclei(w, call.threshold) : w[t] > 0}
  <2>1. call.threshold \in Nat /\ call.threshold < Mass(w, Vocab)
    BY <1>1, <1>3, GenerateAssumption
  <2> QED
    BY <1>2, <2>1, TopPDrawsANucleus
<1>4. A!Allowed(row) =
        CASE call.sampling = "top_p" -> {t \in UNION Nuclei(w, call.threshold) : w[t] > 0}
          [] call.sampling = "top_k" -> TopKDraws(w, call.threshold)
          [] OTHER -> ArgMax(w)
  BY <1>1, AbstractNuclei, AbstractDraws, Zenon DEF A!Allowed
<1> HIDE DEF w
<1>5. CASE call.sampling = "top_p"
  BY <1>3, <1>4, <1>5 DEF Draws, w
<1>6. CASE call.sampling = "top_k"
  BY <1>4, <1>6 DEF Draws, w
<1>7. CASE call.sampling # "top_p" /\ call.sampling # "top_k"
  BY <1>4, <1>7 DEF Draws, w
<1> QED
  BY <1>5, <1>6, <1>7

\* Row i as a text: how long it is, and that the rows are the texts.
LEMMA TextOfRow ==
  ASSUME GenInv, phase = "loop", call.model = "llama"
  PROVE  /\ GenText = [i \in 1 .. Bsz(call) |-> Text(i)]
         /\ \A i \in 1 .. Bsz(call) :
              LET n == Len(call.prompts[i])
                  e == IF cur_pos < n THEN n ELSE cur_pos
              IN  /\ n \in Nat \ {0} /\ e \in 1 .. TotalLen(call) /\ n <= e /\ TotalLen(call) \in Nat
                  /\ Text(i) = SubSeq(tokens[i], 1, e) /\ Text(i) \in Seq(Vocab) /\ Len(Text(i)) = e
                  /\ \A k \in 1 .. e : Text(i)[k] = tokens[i][k]
<1>1. call \in Calls /\ LlamaLoop
  BY DEF GenInv
<1>2. GenText = [i \in 1 .. Bsz(call) |-> Text(i)]
  <2>1. call # NoCall /\ DOMAIN tokens = 1 .. Bsz(call)
    BY <1>1, GenerateAssumption DEF LlamaLoop
  <2> QED
    BY <2>1 DEF GenText
<1>3. ASSUME NEW i \in 1 .. Bsz(call)
      PROVE  LET n == Len(call.prompts[i])
                 e == IF cur_pos < n THEN n ELSE cur_pos
             IN  /\ n \in Nat \ {0} /\ e \in 1 .. TotalLen(call) /\ n <= e /\ TotalLen(call) \in Nat
                 /\ Text(i) = SubSeq(tokens[i], 1, e) /\ Text(i) \in Seq(Vocab) /\ Len(Text(i)) = e
                 /\ \A k \in 1 .. e : Text(i)[k] = tokens[i][k]
  <2> DEFINE n == Len(call.prompts[i])
             e == IF cur_pos < n THEN n ELSE cur_pos
  <2>1. /\ n \in Nat \ {0} /\ n <= MaxPromptLen(call) /\ MaxPromptLen(call) <= TotalLen(call)
        /\ TotalLen(call) \in Nat /\ MaxPromptLen(call) \in Nat
    BY <1>1, CallFacts DEF LlamaLoop
  <2>2. /\ cur_pos \in Nat /\ cur_pos <= TotalLen(call)
        /\ tokens[i] \in Seq(Vocab) /\ Len(tokens[i]) = TotalLen(call)
    BY <1>1 DEF LlamaLoop
  <2>3. e \in 1 .. TotalLen(call) /\ n <= e
    BY <2>1, <2>2
  <2>4. Text(i) = SubSeq(tokens[i], 1, e)
    BY DEF Text
  <2> HIDE DEF e, n
  <2>5. /\ 1 \in Int /\ e \in Int /\ 1 <= e /\ e - 1 + 1 = e
        /\ \A k \in 1 .. e : tokens[i][k] \in Vocab /\ 1 + k - 1 = k
    BY <2>1, <2>2, <2>3
  <2>6. /\ SubSeq(tokens[i], 1, e) \in Seq(Vocab) /\ Len(SubSeq(tokens[i], 1, e)) = e
        /\ \A k \in 1 .. e : SubSeq(tokens[i], 1, e)[k] = tokens[i][k]
    BY <2>5, SubSeqProperties
  <2>7. /\ n \in Nat \ {0} /\ e \in 1 .. TotalLen(call) /\ n <= e /\ TotalLen(call) \in Nat
        /\ Text(i) = SubSeq(tokens[i], 1, e) /\ Text(i) \in Seq(Vocab) /\ Len(Text(i)) = e
        /\ \A k \in 1 .. e : Text(i)[k] = tokens[i][k]
    BY <2>1, <2>3, <2>4, <2>6
  <2> QED
    BY <2>7, Zenon DEF e, n
<1> QED
  BY <1>2, <1>3

\* The step of LLaMA.generate adds one token to the texts of its length, drawn from the
\* model's distribution after that text, and leaves the longer prompts alone.
LEMMA GenerateTokenExtends ==
  ASSUME GenInv, GenerateToken
  PROVE  A!Extend
<1>1. /\ phase = "loop" /\ call.model = "llama" /\ call \in Calls /\ LlamaLoop
      /\ cur_pos < TotalLen(call)
      /\ prev_pos' = cur_pos /\ cur_pos' = cur_pos + 1
      /\ phase' = phase /\ call' = call /\ out' = out
  BY GeneratesTokens, Zenon
<1>2. PICK next :
        /\ \A i \in 1 .. Bsz(call) :
             /\ next[i] \in Vocab
             /\ next[i] \in (IF InputText(i) THEN {tokens[i][cur_pos + 1]} ELSE NextTokens(Written[i][cur_pos]))
        /\ tokens' = [i \in 1 .. Bsz(call) |-> Filled(i, next)]
  BY GeneratesTokens, Zenon
<1>3. GenInv' /\ phase' = "loop" /\ call'.model = "llama"
  BY <1>1, GenerateTokenKeeps
<1>4. GenText = [i \in 1 .. Bsz(call) |-> Text(i)] /\ GenText' = [i \in 1 .. Bsz(call) |-> Text(i)']
  <2>1. GenText = [i \in 1 .. Bsz(call) |-> Text(i)]
    BY <1>1, TextOfRow
  <2>2. call' # NoCall /\ DOMAIN tokens' = 1 .. Bsz(call)
    BY <1>1, <1>2, GenerateAssumption
  <2>3. GenText' = [i \in 1 .. Bsz(call) |-> Text(i)']
    BY <1>3, <2>2 DEF GenText
  <2> QED
    BY <2>1, <2>3
<1>5. ASSUME NEW i \in 1 .. Bsz(call)
      PROVE  \/ Text(i)' = Text(i)
             \/ /\ Len(Text(i)) # TotalLen(call)
                /\ \E t \in A!Allowed(Text(i)) : Text(i)' = Append(Text(i), t)
  <2> DEFINE n == Len(call.prompts[i])
             e == IF cur_pos < n THEN n ELSE cur_pos
             e1 == IF cur_pos + 1 < n THEN n ELSE cur_pos + 1
  <2>1. /\ n \in Nat \ {0} /\ e \in 1 .. TotalLen(call) /\ TotalLen(call) \in Nat
        /\ Text(i) = SubSeq(tokens[i], 1, e) /\ Text(i) \in Seq(Vocab) /\ Len(Text(i)) = e
        /\ \A k \in 1 .. e : Text(i)[k] = tokens[i][k]
    BY <1>1, TextOfRow
  <2>2. /\ tokens[i] \in Seq(Vocab) /\ Len(tokens[i]) = TotalLen(call) /\ cur_pos \in Nat
        /\ next[i] \in Vocab /\ tokens'[i] = Filled(i, next)
        /\ Filled(i, next) \in Seq(Vocab) /\ Filled(i, next)[cur_pos + 1] = next[i]
        /\ SubSeq(Filled(i, next), 1, cur_pos) = SubSeq(tokens[i], 1, cur_pos)
    <3>1. /\ tokens[i] \in Seq(Vocab) /\ Len(tokens[i]) = TotalLen(call) /\ cur_pos \in Nat
          /\ next[i] \in Vocab /\ tokens'[i] = Filled(i, next)
      BY <1>1, <1>2 DEF LlamaLoop
    <3> QED
      BY <1>1, <3>1, PutAfter DEF Filled
  <2>3. Text(i)' = SubSeq(tokens'[i], 1, e1)
    BY <1>1 DEF Text
  <2>4. CASE InputText(i)
    <3>1. next[i] = tokens[i][cur_pos + 1]
      BY <1>2, <2>4
    <3>2. Filled(i, next) = tokens[i]
      BY <2>2, <3>1 DEF Filled
    <3>3. cur_pos < n
      BY <2>4 DEF InputText
    <3>4. e1 = e
      BY <2>1, <2>2, <3>3
    <3> QED
      BY <2>1, <2>2, <2>3, <3>2, <3>4
  <2>5. CASE ~ InputText(i)
    <3>1. ~ (cur_pos < n)
      BY <2>5 DEF InputText
    <3>2. e = cur_pos /\ e1 = cur_pos + 1 /\ cur_pos \in 1 .. TotalLen(call)
      BY <2>1, <2>2, <3>1
    <3> HIDE DEF e, e1, n
    <3>3. Text(i) = SubSeq(tokens[i], 1, cur_pos) /\ Len(Text(i)) = cur_pos
      BY <2>1, <3>2
    <3>4. Text(i)' = Append(Text(i), next[i])
      <4> DEFINE new == Filled(i, next)
      <4>1. new \in Seq(Vocab) /\ cur_pos + 1 \in 1 .. Len(new)
        BY <1>1, <2>2 DEF Filled
      <4>2. 1 \in 1 .. Len(new) /\ cur_pos + 1 \in 1 .. Len(new) /\ cur_pos + 1 - 1 = cur_pos
        BY <2>2, <4>1
      <4> HIDE DEF new
      <4>3. SubSeq(new, 1, cur_pos + 1) = SubSeq(new, 1, cur_pos) \o <<new[cur_pos + 1]>>
        <5> DEFINE last == cur_pos + 1
        <5>1. 1 \in 1 .. Len(new) /\ last \in 1 .. Len(new) /\ last - 1 = cur_pos
          BY <2>2, <4>2
        <5> HIDE DEF last
        <5>2. SubSeq(new, 1, last) = SubSeq(new, 1, last - 1) \o <<new[last]>>
          BY <4>1, <5>1, SubSeqRecursiveSecond
        <5> QED
          BY <5>1, <5>2 DEF last
      <4>4. SubSeq(new, 1, cur_pos + 1) = Text(i) \o <<next[i]>>
        BY <2>2, <3>3, <4>3 DEF new
      <4>5. Text(i) \o <<next[i]>> = Append(Text(i), next[i])
        BY <2>1, <2>2
      <4> QED
        BY <2>2, <2>3, <3>2, <4>4, <4>5 DEF new
    <3>5. next[i] \in A!Allowed(Text(i))
      <4>1. Written[i][cur_pos] = Text(i)
        <5>1. Holds(Written[i], tokens[i], cur_pos) /\ cur_pos \in 1 .. cur_pos
          BY <1>1, <3>2, WrittenHolds
        <5> QED
          BY <3>3, <5>1 DEF Holds
      <4>2. Text(i) # Stale
        <5>1. Len(<< >>) = 0 /\ cur_pos # 0
          BY <3>2
        <5> QED
          BY <3>3, <5>1 DEF Stale
      <4>3. next[i] \in Draws(Probs(Text(i)), call)
        BY <1>2, <2>5, <4>1, <4>2 DEF NextTokens
      <4>4. TotalLen(call) <= BlockLength /\ BlockLength \in Nat /\ TotalLen(call) \in Nat
        BY <1>1, CallFacts, SamplingAssumption DEF LlamaLoop
      <4>5. Len(Text(i)) # 0 /\ Len(Text(i)) <= BlockLength
        BY <3>2, <3>3, <4>4
      <4> QED
        BY <1>1, <2>1, <4>3, <4>5, AllowedAreDraws, ContextIsCropped
    <3>6. Len(Text(i)) # TotalLen(call)
      BY <1>1, <3>2, <3>3
    <3> QED
      BY <3>4, <3>5, <3>6
  <2> QED
    BY <2>4, <2>5
<1>6. call # NoCall
  BY <1>1, GenerateAssumption
<1>7. \A i : A!Full(i) <=> Len(GenText[i]) = TotalLen(call)
  BY AbstractTotalLen DEF A!Full
<1>8. \A i \in DOMAIN GenText :
        \/ GenText'[i] = GenText[i]
        \/ ~ A!Full(i) /\ \E t \in A!Allowed(GenText[i]) : GenText'[i] = Append(GenText[i], t)
  BY <1>4, <1>5, <1>7
<1>9. DOMAIN GenText' = DOMAIN GenText
  BY <1>4
<1> QED
  BY <1>1, <1>6, <1>8, <1>9, Zenon DEF A!Extend

-----------------------------------------------------------------------------
(***************************************************************************)
(* What is cut from a row is what is cut from its text.                    *)
(***************************************************************************)
LEMMA MinIsLeast ==
  ASSUME NEW S \in SUBSET Nat, S # {}
  PROVE  Min(S) \in S /\ \A n \in S : Min(S) <= n
<1>1. \E n \in S : \A m \in S : n <= m
  BY LeastExists
<1> QED
  BY <1>1 DEF Min

LEMMA MinOfPair ==
  ASSUME NEW m \in Nat, NEW n \in Nat
  PROVE  Min({m, n}) = IF m <= n THEN m ELSE n
<1>1. {m, n} \in SUBSET Nat /\ {m, n} # {}
  OBVIOUS
<1>2. Min({m, n}) \in {m, n} /\ Min({m, n}) <= m /\ Min({m, n}) <= n
  BY <1>1, MinIsLeast
<1> QED
  BY <1>2

\* Two rows alike up to a stop token are cut alike.
LEMMA CutsAlike ==
  ASSUME NEW x \in Seq(Vocab), NEW y \in Seq(Vocab), Len(y) <= Len(x),
         \A k \in 1 .. Len(y) : x[k] = y[k],
         NEW s \in 1 .. Len(y), y[s] \in StopTokens
  PROVE  CutAtStop(x) = CutAtStop(y)
<1> DEFINE sx == {k \in DOMAIN x : x[k] \in StopTokens}
           sy == {k \in DOMAIN y : y[k] \in StopTokens}
<1>1. sx \in SUBSET Nat /\ sy \in SUBSET Nat /\ sy \subseteq sx /\ s \in sy /\ s \in sx
  OBVIOUS
<1>2. \A k \in sx : k <= Len(y) => k \in sy
  OBVIOUS
<1>3. CutAtStop(x) = SubSeq(x, 1, Min(sx) - 1) /\ CutAtStop(y) = SubSeq(y, 1, Min(sy) - 1)
  BY <1>1 DEF CutAtStop
<1>0. \A k \in sy : k \in 1 .. Len(y)
  OBVIOUS
<1> HIDE DEF sx, sy
<1>4. /\ Min(sx) \in sx /\ \A n \in sx : Min(sx) <= n
      /\ Min(sy) \in sy /\ \A n \in sy : Min(sy) <= n
  <2>1. sx # {} /\ sy # {}
    BY <1>1
  <2> QED
    BY <1>1, <2>1, MinIsLeast
<1>5. Min(sx) = Min(sy)
  <2>1. Min(sx) <= Min(sy) /\ Min(sx) \in Nat /\ Min(sy) \in Nat /\ Min(sy) <= Len(y)
    <3> DEFINE mx == Min(sx)
               my == Min(sy)
    <3>0. mx \in sx /\ my \in sy /\ \A n \in sx : mx <= n
      BY <1>4
    <3> HIDE DEF mx, my
    <3>1. my \in sx /\ my \in 1 .. Len(y) /\ mx \in Nat
      BY <1>0, <1>1, <3>0, Zenon
    <3>2. Len(y) \in Nat /\ mx <= my
      BY <3>0, <3>1
    <3> QED
      BY <3>1, <3>2 DEF mx, my
  <2>2. Min(sx) \in sy
    BY <1>2, <1>4, <2>1
  <2> QED
    BY <1>4, <2>1, <2>2
<1> DEFINE m == Min(sy) - 1
           a == SubSeq(x, 1, m)
           b == SubSeq(y, 1, m)
<1>6. m \in Nat /\ m <= Len(y) /\ m \in Int /\ 1 \in Int
  BY <1>0, <1>4
<1> HIDE DEF m
<1>7. \A k \in 1 .. m : x[k] \in Vocab /\ y[k] \in Vocab /\ x[k] = y[k] /\ 1 + k - 1 = k
  BY <1>6
<1>8. /\ a \in Seq(Vocab) /\ Len(a) = m /\ \A k \in 1 .. m : a[k] = x[k]
      /\ b \in Seq(Vocab) /\ Len(b) = m /\ \A k \in 1 .. m : b[k] = y[k]
  BY <1>6, <1>7, SubSeqProperties
<1> HIDE DEF a, b
<1>9. a = b
  BY <1>7, <1>8, SeqEqual
<1> QED
  BY <1>3, <1>5, <1>9 DEF a, b, m

LEMMA CutOfText ==
  ASSUME NEW c \in Calls, c.model = "llama", NEW i \in 1 .. Bsz(c), NEW row \in Seq(Vocab),
         NEW e \in Nat, e <= Len(row),
         NEW k \in Len(c.prompts[i]) + 1 .. e, row[k] \in StopTokens,
         NEW text \in Seq(Vocab), Len(text) = e, \A j \in 1 .. e : text[j] = row[j]
  PROVE  Returned(c, i, row) = Returned(c, i, text)
<1> DEFINE n == Len(c.prompts[i])
           g == n + c.max_gen_len
           a == IF c.echo THEN 1 ELSE n + 1
           m1 == Min({Len(row), g})
           m2 == Min({e, g})
           x == SubSeq(row, a, m1)
           y == SubSeq(text, a, m2)
<1>1. n \in Nat /\ g \in Nat /\ g >= n /\ k \in n + 1 .. e /\ Len(row) \in Nat
  <2> DEFINE most == c.max_gen_len
  <2>1. n \in Nat /\ most \in Nat
    BY CallFacts
  <2>2. k \in n + 1 .. e /\ Len(row) \in Nat
    OBVIOUS
  <2> HIDE DEF n, most
  <2>3. n + most \in Nat /\ n + most >= n
    BY <2>1
  <2> QED
    BY <2>1, <2>2, <2>3 DEF most
<1>2. a \in Nat \ {0} /\ a <= n + 1
  BY <1>1
<1>3. Returned(c, i, row) = CutAtStop(x) /\ Returned(c, i, text) = CutAtStop(y)
  BY DEF Returned, CutToLength
<1>4. m1 = (IF Len(row) <= g THEN Len(row) ELSE g) /\ m2 = (IF e <= g THEN e ELSE g)
  BY <1>1, MinOfPair
<1> HIDE DEF n, g, a, m1, m2
<1>5. /\ m1 \in Int /\ m2 \in Int /\ a \in Int /\ m2 <= m1 /\ n <= m2
      /\ m1 <= Len(row) /\ m2 <= e /\ (m1 = m2 \/ m2 = e)
  BY <1>1, <1>2, <1>4
<1>6. /\ \A j \in a .. m1 : row[j] \in Vocab
      /\ \A j \in a .. m2 : text[j] \in Vocab
  BY <1>1, <1>2, <1>5
<1>7. /\ x \in Seq(Vocab) /\ Len(x) = (IF a <= m1 THEN m1 - a + 1 ELSE 0)
      /\ \A j \in 1 .. m1 - a + 1 : x[j] = row[a + j - 1]
      /\ y \in Seq(Vocab) /\ Len(y) = (IF a <= m2 THEN m2 - a + 1 ELSE 0)
      /\ \A j \in 1 .. m2 - a + 1 : y[j] = text[a + j - 1]
  BY <1>5, <1>6, SubSeqProperties
<1>8. \A j \in 1 .. m2 - a + 1 : x[j] = y[j]
  <2>1. SUFFICES ASSUME NEW j \in 1 .. m2 - a + 1 PROVE x[j] = y[j]
    OBVIOUS
  <2>2. j \in 1 .. m1 - a + 1 /\ a + j - 1 \in 1 .. e
    BY <1>1, <1>2, <1>5
  <2>3. x[j] = row[a + j - 1] /\ y[j] = text[a + j - 1]
    BY <1>7, <2>2
  <2> QED
    BY <2>2, <2>3
<1> HIDE DEF x, y
<1>9. CASE m1 = m2
  <2>1. Len(x) = Len(y) /\ \A j \in 1 .. Len(x) : x[j] = y[j]
    BY <1>5, <1>2, <1>7, <1>8, <1>9
  <2>2. x = y
    BY <1>7, <2>1, SeqEqual
  <2> QED
    BY <1>3, <2>2
<1>10. CASE m2 = e
  <2>0. a <= m1 /\ a <= m2 /\ m2 - a + 1 <= m1 - a + 1
    <3>1. n + 1 <= e /\ n \in Nat
      BY <1>1
    <3> QED
      BY <1>2, <1>5, <1>10, <3>1
  <2>1. Len(y) = m2 - a + 1 /\ Len(x) = m1 - a + 1 /\ Len(y) <= Len(x)
    <3>1. Len(y) = m2 - a + 1 /\ Len(x) = m1 - a + 1
      BY <1>7, <2>0
    <3> QED
      BY <2>0, <3>1
  <2> DEFINE s == k - a + 1
  <2>2. s \in 1 .. Len(y) /\ a + s - 1 = k
    BY <1>1, <1>2, <1>5, <1>10, <2>1
  <2> HIDE DEF s
  <2>3. y[s] = row[k]
    <3>1. s \in 1 .. m2 - a + 1 /\ k \in 1 .. e
      BY <1>1, <2>1, <2>2
    <3>2. y[s] = text[k]
      BY <1>7, <2>2, <3>1
    <3> QED
      BY <3>1, <3>2
  <2>4. \A j \in 1 .. Len(y) : x[j] = y[j]
    BY <1>8, <2>1
  <2>5. CutAtStop(x) = CutAtStop(y)
    BY <1>7, <2>1, <2>2, <2>3, <2>4, CutsAlike
  <2> QED
    BY <1>3, <2>5
<1> QED
  BY <1>5, <1>9, <1>10

LEMMA ReturnLlamaReturns ==
  ASSUME GenInv, ReturnLlama
  PROVE  A!Return
<1>1. /\ phase = "loop" /\ call.model = "llama" /\ call \in Calls /\ LlamaLoop
      /\ DOMAIN tokens = 1 .. Bsz(call)
      /\ cur_pos = TotalLen(call) \/ \A i \in DOMAIN tokens : eos_reached[i]
      /\ out' = [i \in DOMAIN tokens |-> Returned(call, i, tokens[i])]
      /\ call' = call /\ tokens' = tokens /\ cur_pos' = cur_pos
  BY DEF GenInv, ReturnLlama, LlamaLoop
<1>2. GenText = [i \in 1 .. Bsz(call) |-> Text(i)]
  BY <1>1, TextOfRow
<1>3. GenText' = GenText
  BY <1>1 DEF GenText, Text
<1>4. ASSUME NEW i \in 1 .. Bsz(call)
      PROVE  /\ Len(Text(i)) = TotalLen(call)
                \/ \E k \in Len(call.prompts[i]) + 1 .. Len(Text(i)) : Text(i)[k] \in StopTokens
             /\ Returned(call, i, tokens[i]) = Returned(call, i, Text(i))
  <2> DEFINE n == Len(call.prompts[i])
             e == IF cur_pos < n THEN n ELSE cur_pos
  <2>1. /\ n \in Nat \ {0} /\ e \in 1 .. TotalLen(call) /\ n <= e /\ TotalLen(call) \in Nat
        /\ Text(i) = SubSeq(tokens[i], 1, e) /\ Text(i) \in Seq(Vocab) /\ Len(Text(i)) = e
        /\ \A k \in 1 .. e : Text(i)[k] = tokens[i][k]
    BY <1>1, TextOfRow
  <2>2. /\ cur_pos \in Nat /\ tokens[i] \in Seq(Vocab) /\ Len(tokens[i]) = TotalLen(call)
    BY <1>1 DEF LlamaLoop
  <2>3. CASE cur_pos = TotalLen(call)
    <3>1. e = TotalLen(call)
      BY <2>1, <2>2, <2>3
    <3> HIDE DEF e, n
    <3>2. Text(i) = tokens[i]
      BY <2>1, <2>2, <3>1, SubSeqFull
    <3> QED
      BY <2>2, <3>2
  <2>4. CASE eos_reached[i]
    <3>1. PICK k \in n + 1 .. cur_pos : tokens[i][k] \in StopTokens
      BY <1>1, <2>4 DEF LlamaLoop
    <3>2. e = cur_pos /\ k \in 1 .. e
      BY <2>1, <2>2, <3>1
    <3> HIDE DEF e
    <3>3. k \in n + 1 .. Len(Text(i)) /\ Text(i)[k] \in StopTokens
      BY <2>1, <3>1, <3>2
    <3>4. /\ e \in Nat /\ e <= Len(tokens[i]) /\ k \in Len(call.prompts[i]) + 1 .. e
      BY <2>1, <2>2, <3>1, <3>2
    <3>5. Returned(call, i, tokens[i]) = Returned(call, i, Text(i))
      <4> DEFINE row == tokens[i]
                 txt == Text(i)
      <4>1. /\ row \in Seq(Vocab) /\ txt \in Seq(Vocab) /\ Len(txt) = e
            /\ \A j \in 1 .. e : txt[j] = row[j]
            /\ e \in Nat /\ e <= Len(row) /\ k \in Len(call.prompts[i]) + 1 .. e
            /\ row[k] \in StopTokens
        BY <2>1, <2>2, <3>1, <3>4
      <4>2. call \in Calls /\ call.model = "llama"
        BY <1>1
      <4> HIDE DEF row, txt
      <4>3. Returned(call, i, row) = Returned(call, i, txt)
        BY <4>1, <4>2, CutOfText
      <4> QED
        BY <4>3 DEF row, txt
    <3> QED
      BY <3>3, <3>5
  <2> QED
    BY <1>1, <2>3, <2>4
<1>5. call # NoCall
  BY <1>1, GenerateAssumption
<1>6. \A i : /\ A!Full(i) <=> Len(GenText[i]) = TotalLen(call)
             /\ A!Stopped(i) <=> call.model = "llama"
                  /\ \E k \in Len(call.prompts[i]) + 1 .. Len(GenText[i]) : GenText[i][k] \in StopTokens
  BY AbstractTotalLen, Zenon DEF A!Full, A!Stopped
<1>7. \A i \in DOMAIN GenText : A!Full(i) \/ A!Stopped(i)
  BY <1>1, <1>2, <1>4, <1>6
<1>8. out' = [i \in DOMAIN GenText |-> A!Returned(call, i, GenText[i])]
  <2>1. \A i \in 1 .. Bsz(call) : Returned(call, i, tokens[i]) = A!Returned(call, i, GenText[i])
    BY <1>2, <1>4, AbstractReturned
  <2>2. DOMAIN GenText = 1 .. Bsz(call) /\ out' = [i \in 1 .. Bsz(call) |-> Returned(call, i, tokens[i])]
    BY <1>1, <1>2
  <2> QED
    BY <2>1, <2>2
<1> QED
  BY <1>1, <1>3, <1>5, <1>7, <1>8, Zenon DEF A!Return

LEMMA BeginLlamaBegins ==
  ASSUME BeginLlama
  PROVE  A!Begin \/ UNCHANGED <<call, GenText, out>>
<1>1. PICK c \in Calls :
        /\ c.model = "llama"
        /\ IF Accepts(c)
           THEN /\ phase' = "loop"
                /\ call' = c /\ tokens' = Padded(c) /\ out' = << >>
                /\ prev_pos' = 0 /\ cur_pos' = MinPromptLen(c)
                /\ eos_reached' = [i \in 1 .. Bsz(c) |-> FALSE]
                /\ cache' = IF MinPromptLen(c) = TotalLen(c) THEN Forward(Padded(c), 0) ELSE cache
           ELSE /\ phase' = "failed"
                /\ UNCHANGED <<call, tokens, out, prev_pos, cur_pos, eos_reached, cache>>
  BY Zenon DEF BeginLlama
<1>2. CASE Accepts(c)
  <2>1. call' = c /\ tokens' = Padded(c) /\ out' = << >> /\ cur_pos' = MinPromptLen(c)
    BY <1>1, <1>2
  <2>2. DOMAIN Padded(c) = 1 .. Bsz(c) /\ c # NoCall
    BY PaddedRows, GenerateAssumption
  <2>3. GenText' = [i \in 1 .. Bsz(c) |-> Text(i)']
    BY <1>1, <2>1, <2>2 DEF GenText
  <2>4. ASSUME NEW i \in 1 .. Bsz(c)
        PROVE  Text(i)' = c.prompts[i]
    <3> DEFINE p == c.prompts[i]
               row == Padded(c)[i]
               s == SubSeq(row, 1, Len(p))
    <3>1. /\ p \in Seq(Vocab) /\ Len(p) \in Nat /\ MinPromptLen(c) \in Nat
          /\ MinPromptLen(c) <= Len(p) /\ TotalLen(c) \in Nat /\ Len(p) <= TotalLen(c)
      <4>1. /\ p \in Seq(Vocab) /\ Len(p) \in Nat /\ MinPromptLen(c) \in Nat /\ MaxPromptLen(c) \in Nat
            /\ MinPromptLen(c) <= Len(p) /\ TotalLen(c) \in Nat /\ Len(p) <= MaxPromptLen(c)
            /\ MaxPromptLen(c) <= TotalLen(c)
        BY <1>1, <1>2, CallFacts
      <4> QED
        BY <4>1
    <3>2. (IF cur_pos' < Len(p) THEN Len(p) ELSE cur_pos') = Len(p)
      BY <2>1, <3>1
    <3>3. Text(i)' = s
      BY <2>1, <3>2 DEF Text
    <3>4. row \in Seq(Vocab) /\ \A k \in 1 .. Len(p) : row[k] = p[k] /\ row[k] \in Vocab
      <4>1. /\ row \in Seq(Vocab) /\ Len(row) = TotalLen(c)
            /\ \A k \in 1 .. TotalLen(c) : k <= Len(p) => row[k] = p[k]
        BY PaddedRows
      <4> HIDE DEF row, p
      <4> QED
        BY <3>1, <4>1
    <3> HIDE DEF p, row
    <3>5. s \in Seq(Vocab) /\ Len(s) = Len(p) /\ \A k \in 1 .. Len(p) : s[k] = row[k]
      <4>1. 1 \in Int /\ Len(p) \in Int /\ \A k \in 1 .. Len(p) : row[k] \in Vocab /\ 1 + k - 1 = k
        BY <3>1, <3>4
      <4> QED
        BY <3>1, <4>1, SubSeqProperties
    <3> HIDE DEF s
    <3>6. s = p
      BY <3>1, <3>4, <3>5, SeqEqual
    <3> QED
      BY <3>3, <3>6 DEF p
  <2>5. GenText' = c.prompts
    <3> DEFINE ps == c.prompts
    <3>1. ps \in Seq(Seq(Vocab)) /\ DOMAIN ps = 1 .. Bsz(c)
      BY CallFacts
    <3>2. GenText' = [i \in 1 .. Bsz(c) |-> ps[i]]
      BY <2>3, <2>4
    <3> HIDE DEF ps
    <3>3. ps = [i \in DOMAIN ps |-> ps[i]]
      BY <3>1
    <3> QED
      BY <3>1, <3>2, <3>3 DEF ps
  <2> QED
    BY <2>1, <2>5 DEF A!Begin
<1>3. CASE ~ Accepts(c)
  BY <1>1, <1>3 DEF GenText, Text
<1> QED
  BY <1>2, <1>3

LEMMA BeginGPTBegins ==
  ASSUME BeginGPT
  PROVE  A!Begin
<1>1. PICK c \in Calls : c.model = "gpt2" /\ call' = c /\ tokens' = c.prompts
  BY DEF BeginGPT
<1>2. out' = << >>
  BY DEF BeginGPT
<1>3. GenText' = c.prompts
  BY <1>1 DEF GenText
<1> QED
  BY <1>1, <1>2, <1>3 DEF A!Begin

LEMMA AppendTokenExtends ==
  ASSUME GenInv, AppendToken
  PROVE  A!Extend
<1>1. /\ call.model = "gpt2" /\ call \in Calls /\ GPTLoop
      /\ cur_pos < TotalLen(call) /\ call' = call /\ out' = out
  BY DEF GenInv, AppendToken
<1>2. PICK next \in [DOMAIN tokens -> Vocab] :
        /\ \A i \in DOMAIN tokens : next[i] \in Draws(Probs(Cropped(tokens[i])), call)
        /\ tokens' = [i \in DOMAIN tokens |-> Append(tokens[i], next[i])]
  BY Zenon DEF AppendToken
<1>3. GenText = tokens /\ GenText' = tokens'
  BY <1>1 DEF GenText
<1>4. ASSUME NEW i \in DOMAIN tokens
      PROVE  /\ Len(tokens[i]) # TotalLen(call)
             /\ next[i] \in A!Allowed(tokens[i])
  <2>1. /\ tokens[i] \in Seq(Vocab) /\ Len(tokens[i]) = cur_pos /\ cur_pos # 0
        /\ cur_pos # TotalLen(call)
    <3>1. /\ i \in 1 .. Bsz(call) /\ MaxPromptLen(call) \in Nat /\ MinPromptLen(call) \in Nat
          /\ 0 < MinPromptLen(call) /\ MinPromptLen(call) <= MaxPromptLen(call) /\ TotalLen(call) \in Nat
      BY <1>1, CallFacts DEF GPTLoop
    <3> QED
      BY <1>1, <3>1 DEF GPTLoop
  <2>2. A!Allowed(tokens[i]) = Draws(Probs(Cropped(tokens[i])), call)
    BY <1>1, <2>1, AllowedAreDraws
  <2> QED
    BY <1>2, <2>1, <2>2
<1>5. \A i : A!Full(i) <=> Len(GenText[i]) = TotalLen(call)
  BY AbstractTotalLen DEF A!Full
<1>6. call # NoCall
  BY <1>1, GenerateAssumption
<1>7. \A i \in DOMAIN GenText :
        \/ GenText'[i] = GenText[i]
        \/ ~ A!Full(i) /\ \E t \in A!Allowed(GenText[i]) : GenText'[i] = Append(GenText[i], t)
  BY <1>2, <1>3, <1>4, <1>5
<1>8. DOMAIN GenText' = DOMAIN GenText
  BY <1>2, <1>3
<1> QED
  BY <1>1, <1>6, <1>7, <1>8, Zenon DEF A!Extend

LEMMA ReturnGPTReturns ==
  ASSUME GenInv, ReturnGPT
  PROVE  A!Return
<1>1. /\ call.model = "gpt2" /\ call \in Calls /\ GPTLoop
      /\ cur_pos = TotalLen(call) /\ out' = tokens /\ call' = call /\ tokens' = tokens
  BY DEF GenInv, ReturnGPT
<1>2. GenText = tokens /\ GenText' = tokens
  BY <1>1 DEF GenText
<1>3. call # NoCall
  BY <1>1, GenerateAssumption
<1>4. \A i : A!Full(i) <=> Len(GenText[i]) = TotalLen(call)
  BY AbstractTotalLen DEF A!Full
<1>5. DOMAIN tokens = 1 .. Bsz(call) /\ tokens = [i \in DOMAIN tokens |-> tokens[i]]
      /\ \A i \in DOMAIN tokens : Len(tokens[i]) = cur_pos
  BY <1>1 DEF GPTLoop
<1>6. \A i \in DOMAIN GenText : A!Full(i)
  BY <1>1, <1>2, <1>4, <1>5
<1>7. out' = [i \in DOMAIN GenText |-> A!Returned(call, i, GenText[i])]
  <2>1. \A i : A!Returned(call, i, GenText[i]) = tokens[i]
    BY <1>1, <1>2, AbstractReturned DEF Returned
  <2>2. out' = [i \in DOMAIN tokens |-> tokens[i]]
    BY <1>1, <1>5
  <2> QED
    BY <1>2, <2>1, <2>2
<1> QED
  BY <1>1, <1>2, <1>3, <1>6, <1>7, Zenon DEF A!Return

\* GenerateImplementsAutoregress: seen as one text per row, generation is autoregressive
\* sampling, for every model, vocabulary, block, batch and sequence of calls.
THEOREM GenerationIsAutoregressive == GenSpec => GenerateImplementsAutoregress
<1>1. GenInit => A!Init
  BY DEF GenInit, A!Init, GenText
<1>2. GenInv /\ [GenNext]_gen_vars => [A!Next]_(A!vars)
  <2>1. SUFFICES ASSUME GenInv, [GenNext]_gen_vars
                 PROVE  A!Next \/ UNCHANGED <<call, GenText, out>>
    BY DEF A!vars
  <2>2. CASE BeginLlama
    BY <2>2, BeginLlamaBegins DEF A!Next
  <2>3. CASE GenerateToken
    BY <2>1, <2>3, GenerateTokenExtends DEF A!Next
  <2>4. CASE ReturnLlama
    BY <2>1, <2>4, ReturnLlamaReturns DEF A!Next
  <2>5. CASE BeginGPT
    BY <2>5, BeginGPTBegins DEF A!Next
  <2>6. CASE AppendToken
    BY <2>1, <2>6, AppendTokenExtends DEF A!Next
  <2>7. CASE ReturnGPT
    BY <2>1, <2>7, ReturnGPTReturns DEF A!Next
  <2>8. CASE Validate
    BY <2>8 DEF Validate, GenText, Text
  <2>9. CASE UNCHANGED gen_vars
    BY <2>9 DEF gen_vars, GenText, Text
  <2> QED
    BY <2>1, <2>2, <2>3, <2>4, <2>5, <2>6, <2>7, <2>8, <2>9 DEF GenNext
<1> QED
  BY <1>1, <1>2, GenInvInit, GenInvNext, PTL DEF GenSpec, GenerateImplementsAutoregress, A!Spec

-----------------------------------------------------------------------------
(***************************************************************************)
(* The pieces of a prompt.  Nothing depends on what a character is.        *)
(***************************************************************************)
\* No run of equal elements is longer than MaxConsecutive.
RunFree(p) ==
  \A i \in 1 .. Len(p) - MaxConsecutive : \E j \in i + 1 .. i + MaxConsecutive : p[j] # p[i]
Pieces == {p \in Seq(BOOLEAN) : p # << >> /\ Len(p) <= MaxEncodeChars /\ RunFree(p)}

SplitInit(s) == [len |-> 0, is_space |-> Len(s) > 0 /\ s[1], start |-> 1, pieces |-> << >>]
Splits(st, s) == st = [i \in 0 .. Len(s) |-> IF i = 0 THEN SplitInit(s) ELSE SplitStep(s, st[i - 1], i)]
SplitStates(s) == CHOOSE st : Splits(st, s)

LEMMA SplitIs ==
  ASSUME NEW s
  PROVE  Split(s) = Append(SplitStates(s)[Len(s)].pieces, SubSeq(s, SplitStates(s)[Len(s)].start, Len(s)))
BY Zenon DEF Split, SplitStates, Splits, SplitInit

\* The recursion has a solution, built one step at a time.
SplitsUpTo(st, s, n) ==
  st = [i \in 0 .. n |-> IF i = 0 THEN SplitInit(s) ELSE SplitStep(s, st[i - 1], i)]

LEMMA SplitsValues ==
  ASSUME NEW st, NEW s, NEW n \in Nat
  PROVE  SplitsUpTo(st, s, n) <=>
           /\ st = [i \in 0 .. n |-> st[i]]
           /\ \A i \in 0 .. n : st[i] = IF i = 0 THEN SplitInit(s) ELSE SplitStep(s, st[i - 1], i)
<1> DEFINE value(i) == IF i = 0 THEN SplitInit(s) ELSE SplitStep(s, st[i - 1], i)
<1>1. SplitsUpTo(st, s, n) <=> st = [i \in 0 .. n |-> value(i)]
  BY Zenon DEF SplitsUpTo
<1> HIDE DEF value
<1>2. st = [i \in 0 .. n |-> value(i)] <=>
        st = [i \in 0 .. n |-> st[i]] /\ \A i \in 0 .. n : st[i] = value(i)
  OBVIOUS
<1> QED
  BY <1>1, <1>2 DEF value

LEMMA SplitsExist ==
  ASSUME NEW s, NEW n \in Nat
  PROVE  \E st : SplitsUpTo(st, s, n)
<1> DEFINE S == {k \in Nat : \E st : SplitsUpTo(st, s, k)}
<1>1. 0 \in S
  <2> DEFINE g == [i \in 0 .. 0 |-> SplitInit(s)]
  <2>1. \A i \in 0 .. 0 : i = 0 /\ g[i] = SplitInit(s)
    OBVIOUS
  <2> HIDE DEF g
  <2>2. g = [i \in 0 .. 0 |-> g[i]]
    BY DEF g
  <2>3. \A i \in 0 .. 0 : g[i] = IF i = 0 THEN SplitInit(s) ELSE SplitStep(s, g[i - 1], i)
    BY <2>1
  <2>4. SplitsUpTo(g, s, 0)
    BY <2>2, <2>3, SplitsValues
  <2> QED
    BY <2>4
<1>2. ASSUME NEW k \in Nat, k \in S
      PROVE  k + 1 \in S
  <2>1. PICK f : SplitsUpTo(f, s, k)
    BY <1>2
  <2> DEFINE g == [i \in 0 .. (k + 1) |-> IF i <= k THEN f[i] ELSE SplitStep(s, f[i - 1], i)]
  <2>2. ASSUME NEW i \in 0 .. (k + 1)
        PROVE  g[i] = IF i = 0 THEN SplitInit(s) ELSE SplitStep(s, g[i - 1], i)
    <3>1. CASE i <= k
      <4>1. g[i] = f[i] /\ (i # 0 => g[i - 1] = f[i - 1])
        BY <3>1
      <4>2. f[i] = IF i = 0 THEN SplitInit(s) ELSE SplitStep(s, f[i - 1], i)
        BY <2>1, <3>1, SplitsValues
      <4> HIDE DEF g
      <4> QED
        BY <4>1, <4>2
    <3>2. CASE i = k + 1
      <4>1. g[i] = SplitStep(s, f[i - 1], i) /\ g[i - 1] = f[i - 1] /\ i # 0
        BY <3>2
      <4> HIDE DEF g
      <4> QED
        BY <4>1
    <3> QED
      BY <3>1, <3>2
  <2>3. SplitsUpTo(g, s, k + 1)
    <3> HIDE DEF g
    <3>1. g = [i \in 0 .. (k + 1) |-> g[i]]
      BY DEF g
    <3>2. k + 1 \in Nat
      OBVIOUS
    <3>3. \A i \in 0 .. (k + 1) : g[i] = IF i = 0 THEN SplitInit(s) ELSE SplitStep(s, g[i - 1], i)
      BY <2>2
    <3> QED
      BY <3>1, <3>2, <3>3, SplitsValues, Zenon
  <2> QED
    BY <2>3
<1> HIDE DEF S
<1>3. Nat \subseteq S
  BY <1>1, <1>2, SetInduction
<1> QED
  BY <1>3 DEF S

LEMMA SplitSteps ==
  ASSUME NEW s, Len(s) \in Nat
  PROVE  /\ SplitStates(s)[0] = SplitInit(s)
         /\ \A i \in 1 .. Len(s) : SplitStates(s)[i] = SplitStep(s, SplitStates(s)[i - 1], i)
<1> DEFINE st == SplitStates(s)
           n == Len(s)
<1>1. \E f : SplitsUpTo(f, s, n)
  BY SplitsExist
<1>2. \A f : SplitsUpTo(f, s, n) <=> Splits(f, s)
  BY Zenon DEF SplitsUpTo, Splits
<1>3. Splits(st, s)
  BY <1>1, <1>2, Zenon DEF SplitStates
<1> HIDE DEF st
<1>4. SplitsUpTo(st, s, n)
  BY <1>2, <1>3
<1> HIDE DEF n
<1>5. \A i \in 0 .. n : st[i] = IF i = 0 THEN SplitInit(s) ELSE SplitStep(s, st[i - 1], i)
  BY <1>4, SplitsValues DEF n
<1>6. 0 \in 0 .. n /\ \A i \in 1 .. n : i \in 0 .. n /\ i # 0
  BY DEF n
<1> QED
  BY <1>5, <1>6 DEF st, n

-----------------------------------------------------------------------------
\* A part of s without long runs is a piece without long runs.
NoRuns(s, a, b) == \A k \in a .. b - MaxConsecutive : \E j \in k + 1 .. k + MaxConsecutive : s[j] # s[k]

LEMMA CutIsPiece ==
  ASSUME NEW s \in Seq(BOOLEAN), Len(s) <= MaxEncodeChars,
         NEW a \in 1 .. Len(s), NEW b \in a .. Len(s), NoRuns(s, a, b)
  PROVE  SubSeq(s, a, b) \in Pieces
<1> DEFINE p == SubSeq(s, a, b)
           M == MaxConsecutive
<1>1. /\ p \in Seq(BOOLEAN) /\ Len(p) = b - a + 1
      /\ \A i \in 1 .. b - a + 1 : p[i] = s[a + i - 1]
  <2>1. a \in Int /\ b \in Int /\ a <= b /\ \A i \in a .. b : s[i] \in BOOLEAN
    OBVIOUS
  <2> QED
    BY <2>1, SubSeqProperties
<1>2. p # << >> /\ Len(p) <= MaxEncodeChars
  BY <1>1, EncodeAssumption
<1>3. M \in Nat \ {0}
  BY EncodeAssumption
<1> HIDE DEF p
<1>4. ASSUME NEW i \in 1 .. Len(p) - M
      PROVE  \E j \in i + 1 .. i + M : p[j] # p[i]
  <2>1. a + i - 1 \in a .. b - M
    BY <1>1, <1>3, <1>4
  <2>2. PICK k \in (a + i - 1) + 1 .. (a + i - 1) + M : s[k] # s[a + i - 1]
    BY <2>1 DEF NoRuns
  <2> DEFINE j == k - a + 1
  <2>3. j \in i + 1 .. i + M /\ j \in 1 .. b - a + 1 /\ i \in 1 .. b - a + 1 /\ a + j - 1 = k
    BY <1>1, <1>3, <1>4, <2>2
  <2> HIDE DEF j
  <2>4. p[j] # p[i]
    BY <1>1, <2>2, <2>3
  <2> QED
    BY <2>3, <2>4
<1>5. RunFree(p)
  BY <1>4 DEF RunFree
<1> QED
  BY <1>1, <1>2, <1>5 DEF Pieces, p

\* What the loop of _split_whitespaces_or_nonwhitespaces keeps, and knows after i characters.
SplitState(len, is_space, start, pieces) ==
  [len |-> len, is_space |-> is_space, start |-> start, pieces |-> pieces]
SplitType ==
  [len : 0 .. MaxConsecutive, is_space : BOOLEAN, start : Nat \ {0}, pieces : Seq(Pieces)]
SplitInv(s, t, i) ==
  /\ t \in SplitType
  /\ IF i = 0 THEN t.len = 0 /\ t.start = 1 /\ t.is_space = s[1]
              ELSE t.len # 0 /\ t.start <= i /\ t.is_space = s[i]
  /\ t.start <= i + 1 - t.len
  /\ t.start = i + 1 - t.len \/ s[i - t.len] # s[i]
  /\ NoRuns(s, t.start, i)
  /\ FlattenSeq(t.pieces) = SubSeq(s, 1, t.start - 1)

\* The runs stay short as the current piece grows by one character.
LEMMA RunsStayShort ==
  ASSUME NEW s \in Seq(BOOLEAN), NEW i \in 1 .. Len(s), NEW start \in Nat \ {0}, NEW len \in 1 .. MaxConsecutive,
         NoRuns(s, start, i - 1), start <= i + 1 - len,
         start = i + 1 - len \/ s[i - len] # s[i]
  PROVE  NoRuns(s, start, i)
<1> DEFINE M == MaxConsecutive
<1>0. M \in Nat \ {0} /\ len \in 1 .. M
  BY EncodeAssumption
<1>1. ASSUME NEW k \in start .. i - M
      PROVE  \E j \in k + 1 .. k + M : s[j] # s[k]
  <2>1. CASE k <= i - 1 - M
    <3>1. k \in start .. (i - 1) - M
      BY <1>0, <1>1, <2>1
    <3> QED
      BY <3>1 DEF NoRuns
  <2>2. CASE k = i - M
    <3>1. start # i + 1 - len /\ k <= i - len /\ i - len < i
      BY <1>0, <1>1, <2>2
    <3>2. s[i - len] # s[i] /\ i \in k + 1 .. k + M
      BY <1>0, <2>2, <3>1
    <3>3. CASE s[i] # s[k]
      BY <3>2, <3>3
    <3>4. CASE s[i] = s[k]
      <4>1. i - len # k
        BY <3>2, <3>4
      <4>2. i - len \in k + 1 .. k + M
        BY <1>0, <2>2, <3>1, <4>1
      <4> QED
        BY <3>2, <3>4, <4>2
    <3> QED
      BY <3>3, <3>4
  <2> QED
    BY <1>0, <1>1, <2>1, <2>2
<1> QED
  BY <1>1 DEF NoRuns

LEMMA SplitStateFields ==
  ASSUME NEW len \in 0 .. MaxConsecutive, NEW is_space \in BOOLEAN, NEW start \in Nat \ {0}, NEW pieces \in Seq(Pieces)
  PROVE  LET t == SplitState(len, is_space, start, pieces)
         IN  /\ t \in SplitType
             /\ t.len = len /\ t.is_space = is_space /\ t.start = start /\ t.pieces = pieces
BY DEF SplitState, SplitType

LEMMA SplitTypeFields ==
  ASSUME NEW t \in SplitType
  PROVE  /\ t.len \in 0 .. MaxConsecutive /\ t.is_space \in BOOLEAN
         /\ t.start \in Nat \ {0} /\ t.pieces \in Seq(Pieces)
BY DEF SplitType

LEMMA SplitStepState ==
  ASSUME NEW t \in SplitType, NEW s, NEW i
  PROVE  SplitStep(s, t, i) =
           IF t.is_space # s[i] THEN SplitState(1, s[i], t.start, t.pieces)
           ELSE IF t.len + 1 > MaxConsecutive
                THEN SplitState(1, t.is_space, i, Append(t.pieces, SubSeq(s, t.start, i - 1)))
                ELSE SplitState(t.len + 1, t.is_space, t.start, t.pieces)
<1>0. PICK l, w, b, ps : t = SplitState(l, w, b, ps)
  <2>1. t = SplitState(t.len, t.is_space, t.start, t.pieces)
    BY DEF SplitType, SplitState
  <2> QED
    BY <2>1
<1>1. t.len = l /\ t.is_space = w /\ t.start = b /\ t.pieces = ps
  BY <1>0 DEF SplitState
<1>2. \A k, c, a, x, v :
        /\ [SplitState(k, c, a, x) EXCEPT !.len = v] = SplitState(v, c, a, x)
        /\ [SplitState(k, c, a, x) EXCEPT !.is_space = v] = SplitState(k, v, a, x)
        /\ [SplitState(k, c, a, x) EXCEPT !.start = v] = SplitState(k, c, v, x)
        /\ [SplitState(k, c, a, x) EXCEPT !.pieces = v] = SplitState(k, c, a, v)
  BY DEF SplitState
<1>3. [t EXCEPT !.len = 1, !.is_space = s[i]] = SplitState(1, s[i], b, ps)
  <2> DEFINE t1 == [t EXCEPT !.len = 1]
  <2>1. t1 = SplitState(1, w, b, ps)
    BY <1>0, <1>2
  <2> HIDE DEF t1
  <2>2. [t1 EXCEPT !.is_space = s[i]] = SplitState(1, s[i], b, ps)
    BY <1>2, <2>1
  <2> QED
    BY <2>2 DEF t1
<1>4. [t EXCEPT !.pieces = Append(@, SubSeq(s, t.start, i - 1)), !.start = i, !.len = 1]
        = SplitState(1, w, i, Append(ps, SubSeq(s, b, i - 1)))
  <2> DEFINE x == Append(t.pieces, SubSeq(s, t.start, i - 1))
             t1 == [t EXCEPT !.pieces = x]
             t2 == [t1 EXCEPT !.start = i]
  <2>0. x = Append(ps, SubSeq(s, b, i - 1))
    BY <1>1
  <2> HIDE DEF x
  <2>1. t1 = SplitState(l, w, b, x)
    BY <1>0, <1>2
  <2> HIDE DEF t1
  <2>2. t2 = SplitState(l, w, i, x)
    BY <1>2, <2>1
  <2> HIDE DEF t2
  <2>3. [t2 EXCEPT !.len = 1] = SplitState(1, w, i, x)
    BY <1>2, <2>2
  <2> QED
    BY <2>0, <2>3 DEF t1, t2, x
<1>5. [t EXCEPT !.len = @ + 1] = SplitState(l + 1, w, b, ps)
  BY <1>0, <1>1, <1>2
<1> QED
  BY <1>1, <1>3, <1>4, <1>5 DEF SplitStep

LEMMA SplitInvInit ==
  ASSUME NEW s \in Seq(BOOLEAN), s # << >>
  PROVE  SplitInv(s, SplitInit(s), 0)
<1> DEFINE t == SplitInit(s)
<1>1. Len(s) > 0 /\ s[1] \in BOOLEAN
  OBVIOUS
<1>2. (Len(s) > 0 /\ s[1]) = s[1]
  BY <1>1
<1>3. t = SplitState(0, s[1], 1, << >>)
  BY <1>2, Zenon DEF SplitInit, SplitState
<1> HIDE DEF t
<1>4. MaxConsecutive \in Nat \ {0}
  BY EncodeAssumption
<1>8. t \in SplitType /\ t.len = 0 /\ t.is_space = s[1] /\ t.start = 1 /\ t.pieces = << >>
  <2>1. 0 \in 0 .. MaxConsecutive /\ s[1] \in BOOLEAN /\ 1 \in Nat \ {0} /\ << >> \in Seq(Pieces)
    BY <1>1, <1>4
  <2> QED
    BY <1>3, <2>1 DEF SplitState, SplitType
<1>5. NoRuns(s, 1, 0)
  BY <1>4 DEF NoRuns
<1>6. FlattenSeq(<< >>) = << >> /\ SubSeq(s, 1, 0) = << >>
  BY FlattenEmpty, SubSeqEmpty
<1>7. 1 - 1 = 0 /\ 0 + 1 - 0 = 1
  OBVIOUS
<1>9. SplitInv(s, t, 0)
  <2>1. /\ t.start <= 0 + 1 - t.len /\ t.start = 0 + 1 - t.len
        /\ NoRuns(s, t.start, 0)
        /\ t.start - 1 = 0
    BY <1>5, <1>8
  <2>2. FlattenSeq(t.pieces) = SubSeq(s, 1, t.start - 1)
    BY <1>6, <1>8, <2>1
  <2> QED
    BY <1>8, <2>1, <2>2, Zenon DEF SplitInv
<1> QED
  BY <1>9 DEF t

LEMMA SplitInvStep ==
  ASSUME NEW s \in Seq(BOOLEAN), Len(s) <= MaxEncodeChars,
         NEW i \in 1 .. Len(s), NEW t, SplitInv(s, t, i - 1)
  PROVE  SplitInv(s, SplitStep(s, t, i), i)
<1> DEFINE u == SplitStep(s, t, i)
           M == MaxConsecutive
<1>0. M \in Nat \ {0} /\ s[i] \in BOOLEAN /\ i \in Nat \ {0} /\ Len(s) \in Nat
  BY EncodeAssumption
<1>1. /\ t \in SplitType
      /\ IF i - 1 = 0 THEN t.len = 0 /\ t.start = 1 /\ t.is_space = s[1]
                      ELSE t.len # 0 /\ t.start <= i - 1 /\ t.is_space = s[i - 1]
      /\ t.start <= i - t.len
      /\ t.start = i - t.len \/ s[i - 1 - t.len] # s[i - 1]
      /\ NoRuns(s, t.start, i - 1)
      /\ FlattenSeq(t.pieces) = SubSeq(s, 1, t.start - 1)
  <2>1. t.len \in 0 .. M
    BY SplitTypeFields DEF SplitInv
  <2>2. i - 1 + 1 - t.len = i - t.len
    BY <1>0, <2>1
  <2> QED
    BY <1>0, <2>2 DEF SplitInv
<1>9. /\ t.len \in 0 .. M /\ t.is_space \in BOOLEAN /\ t.start \in Nat \ {0} /\ t.pieces \in Seq(Pieces)
  <2>1. t \in SplitType
    BY <1>1
  <2> QED
    BY <2>1, SplitTypeFields, Zenon
<1>2. CASE t.is_space # s[i]
  <2>1. u = SplitState(1, s[i], t.start, t.pieces)
    BY <1>1, <1>2, SplitStepState
  <2>2. /\ u \in SplitType
        /\ u.len = 1 /\ u.start = t.start /\ u.is_space = s[i] /\ u.pieces = t.pieces
    <3>1. 1 \in 0 .. M
      BY <1>0
    <3> HIDE DEF u
    <3> QED
      BY <1>0, <1>9, <2>1, <3>1, SplitStateFields
  <2>3. i # 1 /\ t.start <= i - 1 /\ s[i - 1] # s[i]
    BY <1>0, <1>1, <1>2, <1>9
  <2>4. NoRuns(s, t.start, i)
    <3>1. 1 \in 1 .. M /\ t.start \in Nat \ {0} /\ t.start <= i + 1 - 1
      BY <1>0, <1>9, <2>3
    <3> QED
      BY <1>1, <2>3, <3>1, RunsStayShort
  <2>5. t.start <= i + 1 - 1 /\ t.start <= i
    BY <1>0, <1>9, <2>3
  <2> HIDE DEF u
  <2> QED
    BY <1>0, <1>1, <2>2, <2>3, <2>4, <2>5 DEF SplitInv, u
<1>3. CASE t.is_space = s[i] /\ t.len + 1 > M
  <2>1. u = SplitState(1, s[i], i, Append(t.pieces, SubSeq(s, t.start, i - 1)))
    BY <1>1, <1>3, SplitStepState
  <2>2. i # 1 /\ t.start <= i - 1 /\ i - 1 \in t.start .. Len(s) /\ t.start \in 1 .. Len(s)
    BY <1>0, <1>1, <1>3, <1>9
  <2> DEFINE piece == SubSeq(s, t.start, i - 1)
  <2>3. piece \in Pieces
    BY <1>1, <2>2, CutIsPiece
  <2>4. FlattenSeq(Append(t.pieces, piece)) = SubSeq(s, 1, i - 1)
    <3>1. Pieces \subseteq Seq(BOOLEAN)
      BY DEF Pieces
    <3>2. t.pieces \in Seq(Seq(BOOLEAN)) /\ piece \in Seq(BOOLEAN)
      <4>1. t.pieces \in Seq(Pieces)
        BY <1>9
      <4> QED
        BY <2>3, <3>1, <4>1, SeqMonotonic
    <3>3. FlattenSeq(Append(t.pieces, piece)) = SubSeq(s, 1, t.start - 1) \o piece
      <4> HIDE DEF piece
      <4> QED
        BY <1>1, <3>2, FlattenAppend
    <3> DEFINE k == t.start - 1
    <3>4. /\ 1 \in 1 .. Len(s) + 1 /\ k \in 1 - 1 .. Len(s) /\ i - 1 \in k .. Len(s)
          /\ k + 1 = t.start
      <4>1. t.start \in Nat \ {0} /\ t.start <= i - 1 /\ i - 1 \in 1 .. Len(s)
        BY <1>0, <1>9, <2>2
      <4> QED
        BY <1>0, <4>1
    <3> HIDE DEF k
    <3>5. SubSeq(s, 1, k) \o SubSeq(s, k + 1, i - 1) = SubSeq(s, 1, i - 1)
      BY <3>4, ConcatAdjacentSubSeq
    <3> QED
      BY <3>3, <3>4, <3>5 DEF k
  <2> HIDE DEF piece
  <2>5. /\ u \in SplitType
        /\ u.len = 1 /\ u.start = i /\ u.is_space = s[i] /\ u.pieces = Append(t.pieces, piece)
    <3> DEFINE longer == Append(t.pieces, piece)
    <3>1. u = SplitState(1, s[i], i, longer)
      BY <2>1 DEF piece
    <3>2. longer \in Seq(Pieces) /\ 1 \in 0 .. M
      BY <1>0, <1>9, <2>3
    <3> HIDE DEF u, longer
    <3>3. u \in SplitType /\ u.len = 1 /\ u.start = i /\ u.is_space = s[i] /\ u.pieces = longer
      BY <1>0, <3>1, <3>2, SplitStateFields
    <3> QED
      BY <3>3 DEF longer
  <2>6. NoRuns(s, i, i)
    BY <1>0 DEF NoRuns
  <2>7. i <= i + 1 - 1 /\ i = i + 1 - 1 /\ i # 0
    BY <1>0
  <2> HIDE DEF u
  <2> QED
    BY <2>4, <2>5, <2>6, <2>7 DEF SplitInv, u
<1>4. CASE t.is_space = s[i] /\ ~ (t.len + 1 > M)
  <2>1. u = SplitState(t.len + 1, s[i], t.start, t.pieces)
    BY <1>1, <1>4, SplitStepState
  <2>2. /\ u \in SplitType
        /\ u.len = t.len + 1 /\ u.start = t.start /\ u.is_space = s[i] /\ u.pieces = t.pieces
    <3>1. t.len + 1 \in 0 .. M
      BY <1>0, <1>4, <1>9
    <3> HIDE DEF u
    <3> QED
      BY <1>0, <1>9, <2>1, <3>1, SplitStateFields
  <2>3. t.len \in 0 .. M /\ t.start \in Nat \ {0} /\ t.len + 1 \in 1 .. M
    BY <1>0, <1>9, <1>4
  <2>4. /\ t.start <= i + 1 - (t.len + 1) /\ i - 1 - t.len = i - (t.len + 1)
        /\ t.start = i + 1 - (t.len + 1) \/ s[i - (t.len + 1)] # s[i]
    <3>1. i + 1 - (t.len + 1) = i - t.len /\ i - 1 - t.len = i - (t.len + 1)
      BY <1>0, <2>3
    <3>2. CASE i = 1
      <4>1. t.start = i - t.len
        BY <1>1, <3>2
      <4> QED
        BY <1>1, <3>1, <4>1
    <3>3. CASE i # 1
      <4>1. s[i] = s[i - 1]
        BY <1>0, <1>1, <1>4, <3>3
      <4> QED
        BY <1>1, <3>1, <4>1
    <3> QED
      BY <3>2, <3>3
  <2>5. NoRuns(s, t.start, i)
    BY <1>1, <2>3, <2>4, RunsStayShort
  <2>6. t.start <= i /\ t.len + 1 # 0
    BY <1>0, <2>3, <2>4
  <2> HIDE DEF u
  <2> QED
    BY <1>0, <1>1, <2>2, <2>3, <2>4, <2>5, <2>6 DEF SplitInv, u
<1> QED
  BY <1>0, <1>1, <1>2, <1>3, <1>4

-----------------------------------------------------------------------------
\* Split cuts a text into pieces and loses nothing.
LEMMA SplitIntoPieces ==
  ASSUME NEW s \in Seq(BOOLEAN), s # << >>, Len(s) <= MaxEncodeChars
  PROVE  Split(s) \in Seq(Pieces) /\ FlattenSeq(Split(s)) = s
<1> DEFINE st == SplitStates(s)
           n == Len(s)
           S == {i \in Nat : i <= n => SplitInv(s, st[i], i)}
<1>0. n \in Nat \ {0}
  OBVIOUS
<1>1. st[0] = SplitInit(s) /\ \A i \in 1 .. n : st[i] = SplitStep(s, st[i - 1], i)
  BY <1>0, SplitSteps
<1> HIDE DEF st
<1>2. 0 \in S
  BY <1>1, SplitInvInit
<1>3. ASSUME NEW i \in Nat, i \in S
      PROVE  i + 1 \in S
  <2>1. SUFFICES ASSUME i + 1 <= n PROVE SplitInv(s, st[i + 1], i + 1)
    BY <1>0
  <2>2. i + 1 \in 1 .. n /\ i + 1 - 1 = i /\ i <= n
    BY <1>0, <2>1
  <2>3. SplitInv(s, st[i], i) /\ st[i + 1] = SplitStep(s, st[i], i + 1)
    BY <1>1, <1>3, <2>2
  <2> DEFINE k == i + 1
  <2>4. k \in 1 .. Len(s) /\ SplitInv(s, st[i], k - 1)
    BY <2>2, <2>3
  <2> HIDE DEF k
  <2>5. SplitInv(s, SplitStep(s, st[i], k), k)
    BY <2>4, SplitInvStep
  <2> QED
    BY <2>3, <2>5 DEF k
<1> HIDE DEF S
<1>4. Nat \subseteq S
  BY <1>2, <1>3, SetInduction
<1> DEFINE t == st[n]
<1>5. SplitInv(s, t, n)
  BY <1>0, <1>4 DEF S
<1> HIDE DEF t
<1> DEFINE last == SubSeq(s, t.start, n)
<1>6. Split(s) = Append(t.pieces, last)
  BY SplitIs DEF t, st
<1>7. t.start \in 1 .. n /\ t.pieces \in Seq(Pieces)
  <2>1. t.start \in Nat \ {0} /\ t.pieces \in Seq(Pieces)
    BY <1>5, SplitTypeFields DEF SplitInv
  <2> QED
    BY <1>0, <1>5, <2>1 DEF SplitInv
<1>8. last \in Pieces
  <2>1. n \in t.start .. n /\ NoRuns(s, t.start, n)
    BY <1>0, <1>5, <1>7 DEF SplitInv
  <2> QED
    BY <1>7, <2>1, CutIsPiece
<1>9. Split(s) \in Seq(Pieces)
  <2> HIDE DEF last
  <2> QED
    BY <1>6, <1>7, <1>8
<1>10. FlattenSeq(Append(t.pieces, last)) = s
  <2>1. Pieces \subseteq Seq(BOOLEAN)
    BY DEF Pieces
  <2>2. t.pieces \in Seq(Seq(BOOLEAN)) /\ last \in Seq(BOOLEAN)
    BY <1>7, <1>8, <2>1, SeqMonotonic
  <2>3. FlattenSeq(Append(t.pieces, last)) = FlattenSeq(t.pieces) \o last
    <3> HIDE DEF last
    <3> QED
      BY <2>2, FlattenAppend
  <2> DEFINE k == t.start - 1
  <2>4. /\ 1 \in 1 .. Len(s) + 1 /\ k \in 1 - 1 .. Len(s) /\ n \in k .. Len(s) /\ k + 1 = t.start
    BY <1>0, <1>7
  <2> HIDE DEF k
  <2>5. SubSeq(s, 1, k) \o SubSeq(s, k + 1, n) = SubSeq(s, 1, n)
    BY <2>4, ConcatAdjacentSubSeq
  <2>6. FlattenSeq(t.pieces) = SubSeq(s, 1, k)
    BY <1>5 DEF SplitInv, k
  <2>7. SubSeq(s, 1, n) = s
    BY SubSeqFull
  <2> QED
    BY <2>3, <2>4, <2>5, <2>6, <2>7
<1> QED
  BY <1>6, <1>9, <1>10

\* Where the slices of MaxEncodeChars characters end.
SliceEnd(s, c) == IF c * MaxEncodeChars <= Len(s) THEN c * MaxEncodeChars ELSE Len(s)
NumSlices(s) == (Len(s) + MaxEncodeChars - 1) \div MaxEncodeChars

LEMMA SliceFacts ==
  ASSUME NEW s \in Seq(BOOLEAN)
  PROVE  /\ NumSlices(s) \in Nat
         /\ SliceEnd(s, 0) = 0 /\ SliceEnd(s, NumSlices(s)) = Len(s)
         /\ \A c \in 0 .. NumSlices(s) : SliceEnd(s, c) \in 0 .. Len(s)
         /\ \A c \in 1 .. NumSlices(s) :
              /\ (c - 1) * MaxEncodeChars = SliceEnd(s, c - 1)
              /\ Min({Len(s), c * MaxEncodeChars}) = SliceEnd(s, c)
              /\ SliceEnd(s, c - 1) < SliceEnd(s, c)
              /\ SliceEnd(s, c) <= SliceEnd(s, c - 1) + MaxEncodeChars
<1> DEFINE n == Len(s)
           W == MaxEncodeChars
           K == NumSlices(s)
<1>0. n \in Nat /\ W \in Nat \ {0}
  BY EncodeAssumption
<1>1. K \in Nat /\ K * W <= n + W - 1 /\ n + W - 1 < K * W + W
  <2>1. n + W - 1 \in Nat
    BY <1>0
  <2>2. \A m \in Nat : \A w \in Nat \ {0} :
          m \div w \in Nat /\ (m \div w) * w <= m /\ m < (m \div w) * w + w
    BY SMT
  <2> QED
    BY <1>0, <2>1, <2>2 DEF NumSlices
<1> HIDE DEF K, W, n
<1>2. ASSUME NEW c \in 0 .. K
      PROVE  c * W \in Nat /\ c * W <= K * W /\ (c # K => c * W + W <= K * W)
  <2>1. \A a, b \in Nat : a <= b => a * W <= b * W /\ a * W \in Nat
    BY <1>0, SMT
  <2>2. c \in Nat /\ c <= K
    BY <1>1
  <2>3. ASSUME c # K PROVE c * W + W <= K * W
    <3>1. c + 1 \in Nat /\ c + 1 <= K
      BY <1>1, <2>2, <2>3
    <3>2. (c + 1) * W <= K * W
      BY <1>1, <2>1, <3>1
    <3>3. (c + 1) * W = c * W + W
      BY <1>0, <2>2
    <3> QED
      BY <3>2, <3>3
  <2> QED
    BY <1>1, <2>1, <2>2, <2>3
<1>3. K * W \in Nat
  BY <1>0, <1>1
<1>4. SliceEnd(s, 0) = 0
  <2>1. 0 * W = 0
    BY <1>0
  <2> QED
    BY <1>0, <2>1 DEF SliceEnd, W, n
<1>5. SliceEnd(s, K) = n
  <2>1. n <= K * W
    BY <1>0, <1>1, <1>3
  <2> QED
    BY <1>0, <1>3, <2>1 DEF SliceEnd, W, n
<1>6. \A c \in 0 .. K : SliceEnd(s, c) \in 0 .. n
  BY <1>0, <1>2 DEF SliceEnd, W, n
<1>7. ASSUME NEW c \in 1 .. K
      PROVE  /\ (c - 1) * W = SliceEnd(s, c - 1)
             /\ Min({n, c * W}) = SliceEnd(s, c)
             /\ SliceEnd(s, c - 1) < SliceEnd(s, c)
             /\ SliceEnd(s, c) <= SliceEnd(s, c - 1) + W
  <2> DEFINE p == (c - 1) * W
             q == c * W
  <2>1. c - 1 \in 0 .. K /\ c \in 0 .. K /\ c - 1 # K
    BY <1>1
  <2>2. p \in Nat /\ q \in Nat /\ q <= K * W /\ p + W <= K * W
    BY <1>2, <2>1
  <2>3. q = p + W
    BY <1>0, <2>1
  <2> HIDE DEF p, q
  <2>4. p < n
    BY <1>0, <1>1, <1>3, <2>2, <2>3
  <2>5. SliceEnd(s, c - 1) = p
    BY <1>0, <2>2, <2>4 DEF SliceEnd, W, n, p
  <2>6. SliceEnd(s, c) = IF q <= n THEN q ELSE n
    BY DEF SliceEnd, W, n, q
  <2>7. Min({n, q}) = IF n <= q THEN n ELSE q
    BY <1>0, <2>2, MinOfPair
  <2>8. Min({n, q}) = SliceEnd(s, c)
    BY <1>0, <2>2, <2>6, <2>7
  <2>9. SliceEnd(s, c) > p /\ SliceEnd(s, c) <= p + W
    BY <1>0, <2>2, <2>3, <2>4, <2>6
  <2> QED
    BY <2>5, <2>8, <2>9, <1>0, <2>2 DEF p, q
<1> QED
  BY <1>1, <1>4, <1>5, <1>6, <1>7 DEF K, W, n

\* However long the text and whatever the limits: Tokenizer.encode cuts it into pieces that
\* tiktoken takes, and loses and repeats nothing.
THEOREM EncodeCutsIntoPieces ==
  ASSUME NEW s \in Seq(BOOLEAN)
  PROVE  EncodedPieces(s) \in Seq(Pieces) /\ FlattenSeq(EncodedPieces(s)) = s
<1> DEFINE n == Len(s)
           K == NumSlices(s)
           end(c) == SliceEnd(s, c)
           slice(c) == SubSeq(s, end(c - 1) + 1, end(c))
           pp == [c \in 1 .. K |-> Split(slice(c))]
<1>0. n \in Nat /\ K \in Nat
  BY SliceFacts
<1>1. EncodedPieces(s) = FlattenSeq(pp)
  <2>1. \A c \in 1 .. K : /\ (c - 1) * MaxEncodeChars = end(c - 1)
                          /\ Min({n, c * MaxEncodeChars}) = end(c)
    BY SliceFacts
  <2>2. [c \in 1 .. K |-> Split(SubSeq(s, (c - 1) * MaxEncodeChars + 1, Min({n, c * MaxEncodeChars})))] = pp
    BY <2>1
  <2> HIDE DEF pp
  <2> QED
    BY <2>2 DEF EncodedPieces, NumSlices
<1>2. ASSUME NEW c \in 1 .. K
      PROVE  /\ slice(c) \in Seq(BOOLEAN) /\ slice(c) # << >> /\ Len(slice(c)) <= MaxEncodeChars
             /\ SubSeq(s, 1, end(c - 1)) \o slice(c) = SubSeq(s, 1, end(c))
  <2> DEFINE a == end(c - 1)
             b == end(c)
  <2>1. a \in 0 .. n /\ b \in 0 .. n /\ a < b /\ b <= a + MaxEncodeChars /\ MaxEncodeChars \in Nat
    <3>1. c \in 0 .. K /\ c - 1 \in 0 .. K
      BY <1>0
    <3> QED
      BY <3>1, SliceFacts, EncodeAssumption
  <2> HIDE DEF a, b
  <2>2. SubSeq(s, a + 1, b) \in Seq(BOOLEAN) /\ Len(SubSeq(s, a + 1, b)) = b - a
    <3>1. /\ a + 1 \in Int /\ b \in Int /\ a + 1 <= b /\ b - (a + 1) + 1 = b - a
          /\ \A j \in a + 1 .. b : s[j] \in BOOLEAN
      BY <1>0, <2>1
    <3> QED
      BY <3>1, SubSeqProperties
  <2>3. b - a # 0 /\ b - a <= MaxEncodeChars
    BY <1>0, <2>1
  <2>4. SubSeq(s, 1, a) \o SubSeq(s, a + 1, b) = SubSeq(s, 1, b)
    <3>1. 1 \in 1 .. Len(s) + 1 /\ a \in 1 - 1 .. Len(s) /\ b \in a .. Len(s)
      BY <1>0, <2>1
    <3> QED
      BY <3>1, ConcatAdjacentSubSeq
  <2>5. SubSeq(s, a + 1, b) # << >>
    BY <2>2, <2>3
  <2> QED
    BY <2>2, <2>3, <2>4, <2>5 DEF a, b
<1> HIDE DEF slice, end
<1>3. \A c \in 1 .. K : Split(slice(c)) \in Seq(Pieces) /\ FlattenSeq(Split(slice(c))) = slice(c)
  BY <1>2, SplitIntoPieces
<1>4. pp \in Seq(Seq(Pieces)) /\ Len(pp) = K
  BY <1>0, <1>3
<1>5. \A c \in 1 .. K : pp[c] = Split(slice(c))
  OBVIOUS
<1> HIDE DEF pp
<1>6. EncodedPieces(s) \in Seq(Pieces)
  BY <1>1, <1>4, FlattenType
<1> DEFINE first(c) == FlattenFirst(pp, c)
           S == {c \in Nat : c <= K => FlattenSeq(first(c)) = SubSeq(s, 1, end(c))}
<1>7. 0 \in S
  <2>1. first(0) = << >> /\ end(0) = 0
    BY <1>4, FlattenFirstStep, SliceFacts DEF end
  <2>2. SubSeq(s, 1, 0) = << >>
    BY SubSeqEmpty
  <2> QED
    BY <2>1, <2>2, FlattenEmpty
<1>8. ASSUME NEW c \in Nat, c \in S
      PROVE  c + 1 \in S
  <2>1. SUFFICES ASSUME c + 1 <= K PROVE FlattenSeq(first(c + 1)) = SubSeq(s, 1, end(c + 1))
    BY <1>0
  <2> DEFINE d == c + 1
             x == first(c)
             y == pp[d]
  <2>2. d \in 1 .. K /\ c \in 0 .. Len(pp) /\ c \in 0 .. Len(pp) - 1 /\ d - 1 = c
    BY <1>0, <1>4, <2>1
  <2>3. first(d) = x \o y /\ x \in Seq(Pieces)
    BY <1>4, <2>2, FlattenFirstStep
  <2>4. y \in Seq(Pieces) /\ FlattenSeq(y) = slice(d)
    BY <1>3, <1>5, <2>2
  <2>5. FlattenSeq(x) = SubSeq(s, 1, end(c))
    BY <1>0, <1>8, <2>1
  <2>6. SubSeq(s, 1, end(c)) \o slice(d) = SubSeq(s, 1, end(d))
    BY <1>2, <2>2
  <2>7. x \in Seq(Seq(BOOLEAN)) /\ y \in Seq(Seq(BOOLEAN))
    <3>1. Pieces \subseteq Seq(BOOLEAN)
      BY DEF Pieces
    <3> HIDE DEF x, y
    <3> QED
      BY <2>3, <2>4, <3>1, SeqMonotonic
  <2> HIDE DEF x, y, d, first
  <2>8. FlattenSeq(x \o y) = FlattenSeq(x) \o FlattenSeq(y)
    BY <2>7, FlattenConcat
  <2> QED
    BY <2>3, <2>4, <2>5, <2>6, <2>8 DEF d
<1> HIDE DEF S
<1>9. Nat \subseteq S
  BY <1>7, <1>8, SetInduction
<1>10. FlattenSeq(first(K)) = SubSeq(s, 1, end(K))
  BY <1>0, <1>9 DEF S
<1>11. first(K) = FlattenSeq(pp)
  <2>1. pp = [c \in 1 .. K |-> pp[c]]
    BY <1>4
  <2> QED
    BY <2>1 DEF FlattenFirst
<1>12. SubSeq(s, 1, end(K)) = s
  BY SubSeqFull, SliceFacts DEF end
<1> QED
  BY <1>1, <1>6, <1>10, <1>11, <1>12

\* PiecesReassemble: EncodeCutsIntoPieces for the texts the runs try.
THEOREM PiecesAlwaysReassemble == GenSpec => []PiecesReassemble
<1>1. ASSUME NEW n \in 0 .. MaxText, NEW s \in [1 .. n -> BOOLEAN]
      PROVE  LET pieces == EncodedPieces(s)
             IN  /\ FlattenSeq(pieces) = s
                 /\ \A k \in DOMAIN pieces :
                      LET piece == pieces[k]
                      IN  /\ piece # << >> /\ Len(piece) <= MaxEncodeChars
                          /\ \A i \in 1 .. Len(piece) - MaxConsecutive :
                               \E j \in i + 1 .. i + MaxConsecutive : piece[j] # piece[i]
  <2> DEFINE pieces == EncodedPieces(s)
  <2>1. n \in Nat
    BY EncodeAssumption
  <2>2. s \in Seq(BOOLEAN)
    BY <2>1, SeqDef
  <2>3. pieces \in Seq(Pieces) /\ FlattenSeq(pieces) = s
    BY <2>2, EncodeCutsIntoPieces
  <2> HIDE DEF pieces
  <2>4. \A k \in DOMAIN pieces : pieces[k] \in Pieces
    BY <2>3
  <2> QED
    BY <2>3, <2>4, Zenon DEF pieces, Pieces, RunFree
<1>2. PiecesReassemble
  BY <1>1, Zenon DEF PiecesReassemble
<1> QED
  BY <1>2, PTL

-----------------------------------------------------------------------------
(***************************************************************************)
(* Llama's rows: the importer undoes the permutation of the published      *)
(* Hugging Face form.                                                      *)
(***************************************************************************)
LEMMA DivisionIsUnique ==
  ASSUME NEW d \in Nat \ {0}, NEW q \in Nat, NEW r \in Nat, r < d
  PROVE  (q * d + r) \div d = q /\ (q * d + r) % d = r
<1> DEFINE n == q * d + r
           a == n \div d
           b == n % d
<1>1. n \in Nat
  <2>1. q * d \in Nat
    OBVIOUS
  <2> QED
    BY <2>1
<1>2. a \in Nat /\ b \in Nat /\ b < d /\ n = a * d + b
  <2>1. \A m \in Nat : \A w \in Nat \ {0} :
          m \div w \in Nat /\ m % w \in Nat /\ m % w < w /\ m = (m \div w) * w + (m % w)
    BY SMT
  <2> HIDE DEF n
  <2> QED
    BY <1>1, <2>1
<1>3. a * d + b = q * d + r
  BY <1>2
<1> HIDE DEF n, a, b
<1>4. ASSUME NEW x \in Nat, NEW y \in Nat, NEW v \in Nat, NEW w \in Nat, v < d, w < d,
             x * d + v = y * d + w, x < y
      PROVE  FALSE
  <2>1. \A m, k \in Nat : m <= k => m * d <= k * d
    BY SMT
  <2>2. (x + 1) * d <= y * d
    BY <1>4, <2>1
  <2>3. (x + 1) * d = x * d + d
    OBVIOUS
  <2>4. x * d \in Nat /\ y * d \in Nat
    OBVIOUS
  <2> DEFINE xd == x * d
             yd == y * d
  <2>5. xd \in Nat /\ yd \in Nat /\ xd + d <= yd /\ xd + v = yd + w
    BY <1>4, <2>2, <2>3, <2>4
  <2> HIDE DEF xd, yd
  <2> QED
    BY <1>4, <2>5
<1>5. ~ (a < q) /\ ~ (q < a)
  BY <1>2, <1>3, <1>4
<1>6. a = q
  BY <1>2, <1>5
<1>7. b = r
  <2>1. q * d \in Nat
    OBVIOUS
  <2> DEFINE qd == q * d
  <2>2. qd \in Nat /\ qd + b = qd + r
    BY <1>3, <1>6, <2>1
  <2> HIDE DEF qd
  <2> QED
    BY <1>2, <2>2
<1> QED
  BY <1>6, <1>7 DEF a, b, n

\* One head's rows: where the published form puts row x, and back.
LEMMA RowsOfAHead ==
  ASSUME NEW half \in Nat \ {0}, NEW x \in Nat, x < 2 * half
  PROVE  LET y == (x % 2) * half + x \div 2
         IN  y \in Nat /\ y < 2 * half /\ (y % half) * 2 + y \div half = x
<1> DEFINE p == x % 2
           q == x \div 2
           y == p * half + q
<1>1. p \in 0 .. 1 /\ q \in Nat /\ x = q * 2 + p
  BY SMT
<1>2. q < half
  BY <1>1
<1> HIDE DEF p, q
<1>3. p * half \in Nat /\ p * half <= half
  <2>1. CASE p = 0
    BY <2>1
  <2>2. CASE p = 1
    BY <2>2
  <2> QED
    BY <1>1, <2>1, <2>2
<1>4. y \in Nat /\ y < 2 * half
  BY <1>1, <1>2, <1>3
<1>5. y % half = q /\ y \div half = p
  BY <1>1, <1>2, DivisionIsUnique
<1>6. (y % half) * 2 + y \div half = x
  BY <1>1, <1>5
<1> QED
  BY <1>4, <1>6 DEF p, q

\* The un-permutation of the Llama importer undoes Hugging Face's permutation of the rows of
\* the query and key projections, head by head, for any number of heads and any even head
\* dimension (train_llama3.py, adapt_llama_state_dict_keys_hf).
THEOREM UnpermuteUndoes ==
  ASSUME NEW E, NEW w \in Seq(E), NEW heads \in Nat \ {0}, NEW half \in Nat \ {0},
         Len(w) = heads * (2 * half)
  PROVE  Unpermute(HFPermuted(w, heads), heads) = w
<1> DEFINE hd == Len(w) \div heads
           n == Len(w)
           H(j) == (j - 1) \div hd
           X(j) == (j - 1) % hd
           from(j) == H(j) * hd + (X(j) % (hd \div 2)) * 2 + X(j) \div (hd \div 2) + 1
           back(j) == H(j) * hd + (X(j) % 2) * (hd \div 2) + X(j) \div 2 + 1
           u == HFPermuted(w, heads)
<1>1. hd = 2 * half /\ hd \div 2 = half /\ n = heads * hd
  <2> DEFINE d == 2 * half
  <2>1. d \in Nat \ {0} /\ n = heads * d
    OBVIOUS
  <2> HIDE DEF d
  <2>2. d * heads + 0 = heads * d
    BY <2>1
  <2>3. (d * heads + 0) \div heads = d
    BY <2>1, DivisionIsUnique
  <2>4. hd = d
    BY <2>1, <2>2, <2>3
  <2>5. (half * 2 + 0) \div 2 = half
    BY DivisionIsUnique
  <2>6. d = half * 2 + 0
    BY DEF d
  <2> QED
    BY <2>1, <2>4, <2>5, <2>6 DEF d
<1>2. u = [j \in 1 .. n |-> w[from(j)]]
  <2>1. DOMAIN w = 1 .. n
    OBVIOUS
  <2> QED
    BY <2>1, Zenon DEF HFPermuted
<1>3. Len(u) = n /\ DOMAIN u = 1 .. n
  BY <1>2
<1>4. Unpermute(u, heads) = [j \in 1 .. n |-> u[back(j)]]
  BY <1>3, Zenon DEF Unpermute
<1>5. hd \in Nat \ {0} /\ n \in Nat
  BY <1>1
<1> HIDE DEF u, hd, n
<1>6. ASSUME NEW j \in 1 .. n
      PROVE  back(j) \in 1 .. n /\ from(back(j)) = j
  <2> DEFINE h == H(j)
             x == X(j)
             y == (x % 2) * half + x \div 2
  <2>1. h \in Nat /\ x \in Nat /\ x < hd /\ j - 1 = h * hd + x
    <3>1. \A m \in Nat : \A v \in Nat \ {0} :
            m \div v \in Nat /\ m % v \in Nat /\ m % v < v /\ m = (m \div v) * v + (m % v)
      BY SMT
    <3>2. j - 1 \in Nat
      BY <1>5
    <3> QED
      BY <1>5, <3>1, <3>2
  <2>2. y \in Nat /\ y < hd /\ (y % half) * 2 + y \div half = x
    BY <1>1, <2>1, RowsOfAHead
  <2>3. back(j) = h * hd + y + 1
    <3>1. back(j) = h * hd + (x % 2) * half + x \div 2 + 1
      BY <1>1
    <3>2. h * hd \in Nat /\ (x % 2) * half \in Nat /\ x \div 2 \in Nat
      <4>1. x % 2 \in Nat /\ x \div 2 \in Nat
        BY <2>1, SMT
      <4> QED
        BY <1>5, <2>1, <4>1
    <3> DEFINE a == h * hd
               b == (x % 2) * half
               c == x \div 2
    <3>3. a \in Nat /\ b \in Nat /\ c \in Nat
      BY <3>2
    <3>4. back(j) = a + b + c + 1 /\ y = b + c
      BY <3>1
    <3> HIDE DEF a, b, c, y, back
    <3>5. back(j) = a + y + 1
      BY <3>3, <3>4
    <3> QED
      BY <3>5 DEF a
  <2> HIDE DEF h, x, y
  <2>4. h * hd \in Nat /\ h * hd + x \in Nat /\ h * hd + y \in Nat
    BY <1>5, <2>1, <2>2
  <2>5. h < heads
    <3>1. SUFFICES ASSUME heads <= h PROVE FALSE
      BY <2>1
    <3>2. \A m, k \in Nat : m <= k => m * hd <= k * hd
      BY <1>5, SMT
    <3>3. heads * hd <= h * hd
      BY <2>1, <3>1, <3>2
    <3>4. h * hd + x < n
      BY <1>5, <2>1
    <3> QED
      BY <1>1, <1>5, <2>1, <2>4, <3>3, <3>4
  <2>6. h * hd + hd <= n
    <3>1. \A m, k \in Nat : m <= k => m * hd <= k * hd
      BY <1>5, SMT
    <3>2. (h + 1) * hd <= heads * hd
      BY <2>1, <2>5, <3>1
    <3>3. (h + 1) * hd = h * hd + hd
      BY <1>5, <2>1
    <3> QED
      BY <1>1, <3>2, <3>3
  <2>7. h * hd + y + 1 \in 1 .. n
    <3> DEFINE a == h * hd
    <3>1. a \in Nat /\ a + hd <= n
      BY <2>4, <2>6
    <3> HIDE DEF a
    <3>2. a + y + 1 \in 1 .. n
      BY <1>5, <2>2, <3>1
    <3> QED
      BY <3>2 DEF a
  <2>8. H(h * hd + y + 1) = h /\ X(h * hd + y + 1) = y
    <3> DEFINE m == h * hd + y
    <3>1. (m + 1) - 1 = m
      BY <2>4
    <3>2. m \div hd = h /\ m % hd = y
      BY <1>5, <2>1, <2>2, DivisionIsUnique
    <3> HIDE DEF m
    <3> DEFINE k == m + 1
    <3>3. k - 1 = m
      BY <3>1
    <3> HIDE DEF k
    <3>4. H(k) = h /\ X(k) = y
      BY <3>2, <3>3
    <3> QED
      BY <3>4 DEF k, m
  <2>9. from(h * hd + y + 1) = h * hd + x + 1
    <3> DEFINE k == h * hd + y + 1
               a == h * hd
               b == (y % half) * 2
               c == y \div half
    <3>1. H(k) = h /\ X(k) = y
      BY <2>8
    <3>2. from(k) = a + b + c + 1
      <4> HIDE DEF k, H, X
      <4> QED
        BY <1>1, <3>1
    <3>3. a \in Nat /\ b \in Nat /\ c \in Nat /\ b + c = x
      <4>1. y % half \in Nat /\ y \div half \in Nat
        BY <2>2, SMT
      <4> QED
        BY <2>2, <2>4, <4>1
    <3> HIDE DEF from, k, b, c, a
    <3>4. from(k) = a + x + 1
      BY <2>1, <3>2, <3>3
    <3> QED
      BY <3>4 DEF k, a
  <2>10. j = h * hd + x + 1
    BY <2>1, <2>4
  <2> HIDE DEF back, from
  <2> QED
    BY <2>3, <2>7, <2>9, <2>10
<1> HIDE DEF back, from
<1>7. \A j \in 1 .. n : u[back(j)] = w[j]
  BY <1>2, <1>6
<1>8. w = [j \in 1 .. n |-> w[j]]
  BY DEF n
<1> QED
  BY <1>4, <1>7, <1>8 DEF u

-----------------------------------------------------------------------------
(***************************************************************************)
(* Where every parameter lies in a .bin file.                              *)
(***************************************************************************)
\* The part of the layers: the k-th kind takes the k-th L places of it.
LayerPart(order) == FlattenSeq([k \in DOMAIN order.layers |-> [i \in Layers |-> <<order.layers[k], i>>]])

LEMMA LayersAreNat == L \in Nat \ {0} /\ Layers = 1 .. L /\ Layers # {}
BY WeightsAssumption DEF Layers

LayersLieSo(S, names, part) ==
  LET m == Len(names)
  IN  /\ part \in Seq(S \X Nat) /\ Len(part) = m * L
      /\ \A k \in 1 .. m : \A i \in Layers :
           /\ (k - 1) * L + i \in 1 .. m * L
           /\ part[(k - 1) * L + i] = <<names[k], i>>
      /\ \A p \in 1 .. m * L : \E k \in 1 .. m : \E i \in Layers : p = (k - 1) * L + i

LEMMA LayerPlaces ==
  ASSUME NEW S, NEW order, order.layers \in Seq(S)
  PROVE  LayersLieSo(S, order.layers, LayerPart(order))
<1> DEFINE m == Len(order.layers)
           seqs == [k \in DOMAIN order.layers |-> [i \in Layers |-> <<order.layers[k], i>>]]
           E == S \X Nat
<1> USE LayersAreNat
<1>1. /\ seqs \in Seq(Seq(E)) /\ Len(seqs) = m /\ m \in Nat
      /\ \A k \in 1 .. m : Len(seqs[k]) = L /\ \A i \in Layers : seqs[k][i] = <<order.layers[k], i>>
  <2>1. DOMAIN order.layers = 1 .. m /\ m \in Nat
    OBVIOUS
  <2>2. ASSUME NEW k \in 1 .. m
        PROVE  LET s == [i \in Layers |-> <<order.layers[k], i>>]
               IN  s \in Seq(E) /\ Len(s) = L
    <3> DEFINE s == [i \in Layers |-> <<order.layers[k], i>>]
    <3>1. order.layers[k] \in S
      OBVIOUS
    <3>2. s \in [1 .. L -> E]
      BY <3>1
    <3> HIDE DEF s
    <3>3. s \in Seq(E) /\ Len(s) = L
      BY <3>2, SeqDef, LenProperties
    <3> QED
      BY <3>3 DEF s
  <2>3. seqs \in [1 .. m -> Seq(E)]
    BY <2>1, <2>2, Zenon
  <2>4. \A k \in 1 .. m : Len(seqs[k]) = L /\ \A i \in Layers : seqs[k][i] = <<order.layers[k], i>>
    BY <2>1, <2>2, Zenon
  <2> HIDE DEF seqs
  <2>5. seqs \in Seq(Seq(E)) /\ Len(seqs) = m
    BY <2>1, <2>3, SeqDef, LenProperties
  <2> QED
    BY <2>1, <2>4, <2>5
<1> HIDE DEF seqs, E
<1>2. \A n \in 0 .. m : FlattenFirst(seqs, n) \in Seq(E) /\ Len(FlattenFirst(seqs, n)) = n * L
  <2> DEFINE Q == {n \in Nat : n <= m => Len(FlattenFirst(seqs, n)) = n * L}
  <2>1. 0 \in Q
    BY <1>1, FlattenFirstStep
  <2>2. ASSUME NEW n \in Q PROVE n + 1 \in Q
    <3>1. SUFFICES ASSUME n + 1 <= m PROVE Len(FlattenFirst(seqs, n + 1)) = (n + 1) * L
      OBVIOUS
    <3>6. n \in 0 .. Len(seqs) - 1 /\ n \in 0 .. Len(seqs)
      BY <1>1, <3>1, <2>2
    <3>2. FlattenFirst(seqs, n) \in Seq(E) /\ Len(FlattenFirst(seqs, n)) = n * L
          /\ FlattenFirst(seqs, n + 1) = FlattenFirst(seqs, n) \o seqs[n + 1]
      <4>1. FlattenFirst(seqs, n) \in Seq(E)
            /\ FlattenFirst(seqs, n + 1) = FlattenFirst(seqs, n) \o seqs[n + 1]
        BY <1>1, <3>6, FlattenFirstStep, Zenon
      <4>2. n <= m
        BY <1>1, <3>6
      <4> QED
        BY <2>2, <4>1, <4>2
    <3>3. seqs[n + 1] \in Seq(E) /\ Len(seqs[n + 1]) = L
      BY <1>1, <3>1
    <3>4. Len(FlattenFirst(seqs, n + 1)) = n * L + L
      BY <3>2, <3>3, ConcatProperties
    <3>5. (n + 1) * L = n * L + L
      BY <2>2
    <3> QED
      BY <3>4, <3>5
  <2>3. Q \in SUBSET Nat
    OBVIOUS
  <2> HIDE DEF Q
  <2>4. Nat \subseteq Q
    BY <2>1, <2>2, <2>3, SetInduction
  <2> QED
    BY <1>1, <2>4, FlattenFirstStep DEF Q
<1>3. LayerPart(order) = FlattenFirst(seqs, m)
  <2>1. [k \in 1 .. m |-> seqs[k]] = seqs
    BY <1>1
  <2>2. LayerPart(order) = FlattenSeq(seqs)
    BY Zenon DEF LayerPart, seqs
  <2> QED
    BY <2>1, <2>2 DEF FlattenFirst
<1>4. FlattenPlacesUpTo(seqs, m)
  BY <1>1, FlattenPlaces
<1>5. /\ LayerPart(order) \in Seq(E) /\ Len(LayerPart(order)) = m * L
  <2>1. m \in 0 .. m
    BY <1>1
  <2> QED
    BY <1>2, <1>3, <2>1, Zenon
<1>6. ASSUME NEW k \in 1 .. m, NEW i \in Layers
      PROVE  /\ (k - 1) * L + i \in 1 .. m * L
             /\ LayerPart(order)[(k - 1) * L + i] = <<order.layers[k], i>>
  <2>1. k - 1 \in 0 .. m /\ Len(FlattenFirst(seqs, k - 1)) = (k - 1) * L
    <3>1. k - 1 \in 0 .. m
      BY <1>1
    <3> QED
      BY <1>1, <1>2, <3>1, Zenon
  <2>2. i \in 1 .. Len(seqs[k])
    BY <1>1
  <2>3. /\ Len(FlattenFirst(seqs, k - 1)) + i \in 1 .. Len(FlattenFirst(seqs, m))
        /\ FlattenFirst(seqs, m)[Len(FlattenFirst(seqs, k - 1)) + i] = seqs[k][i]
    BY <1>4, <2>2 DEF FlattenPlacesUpTo
  <2> QED
    BY <1>1, <1>3, <1>5, <2>1, <2>3
<1>7. ASSUME NEW p \in 1 .. m * L
      PROVE  \E k \in 1 .. m : \E i \in Layers : p = (k - 1) * L + i
  <2>1. PICK k \in 1 .. m : \E i \in 1 .. Len(seqs[k]) : p = Len(FlattenFirst(seqs, k - 1)) + i
    BY <1>3, <1>4, <1>5 DEF FlattenPlacesUpTo
  <2>2. k - 1 \in 0 .. m /\ Len(FlattenFirst(seqs, k - 1)) = (k - 1) * L /\ Len(seqs[k]) = L
    <3>1. k - 1 \in 0 .. m
      BY <1>1
    <3> QED
      BY <1>1, <1>2, <3>1, Zenon
  <2> QED
    BY <2>1, <2>2
<1> QED
  BY <1>5, <1>6, <1>7, Zenon DEF E, LayersLieSo

LEMMA ItemsOfSeq ==
  ASSUME NEW E, NEW w \in Seq(E)
  PROVE  \A x : x \in Range(w) <=> \E p \in 1 .. Len(w) : x = w[p]
<1>1. DOMAIN w = 1 .. Len(w)
  OBVIOUS
<1>2. ASSUME NEW x PROVE x \in Range(w) <=> \E p \in DOMAIN w : x = w[p]
  BY Zenon DEF Range
<1> QED
  BY <1>1, <1>2

Chained(E, a, b, c, w) ==
  /\ w \in Seq(E) /\ Len(w) = Len(a) + Len(b) + Len(c)
  /\ \A p \in 1 .. Len(a) : w[p] = a[p]
  /\ \A p \in 1 .. Len(b) : w[Len(a) + p] = b[p]
  /\ \A p \in 1 .. Len(c) : w[Len(a) + Len(b) + p] = c[p]
  /\ \A p \in 1 .. Len(w) :
       \/ p \in 1 .. Len(a)
       \/ \E q \in 1 .. Len(b) : p = Len(a) + q
       \/ \E q \in 1 .. Len(c) : p = Len(a) + Len(b) + q

LEMMA ThreeParts ==
  ASSUME NEW E, NEW a \in Seq(E), NEW b \in Seq(E), NEW c \in Seq(E)
  PROVE  Chained(E, a, b, c, a \o b \o c)
<1> DEFINE w == a \o b \o c
<1> DEFINE u == a \o b
<1>1. /\ u \in Seq(E) /\ Len(u) = Len(a) + Len(b)
      /\ \A p \in 1 .. Len(a) : u[p] = a[p]
      /\ \A p \in 1 .. Len(b) : u[Len(a) + p] = b[p]
  OBVIOUS
<1>2. w = u \o c
  OBVIOUS
<1> HIDE DEF u, w
<1>3. /\ w \in Seq(E) /\ Len(w) = Len(u) + Len(c)
      /\ \A p \in 1 .. Len(u) : w[p] = u[p]
      /\ \A p \in 1 .. Len(c) : w[Len(u) + p] = c[p]
  <2>1. u \in Seq(E)
    BY <1>1
  <2> QED
    BY <1>2, <2>1
<1>4. \A p \in 1 .. Len(a) : w[p] = a[p]
  BY <1>1, <1>3
<1>5. ASSUME NEW p \in 1 .. Len(b) PROVE w[Len(a) + p] = b[p]
  <2>1. Len(a) + p \in 1 .. Len(u)
    BY <1>1
  <2> QED
    BY <1>1, <1>3, <2>1
<1>6. \A p \in 1 .. Len(c) : w[Len(a) + Len(b) + p] = c[p]
  BY <1>1, <1>3
<1>7. ASSUME NEW p \in 1 .. Len(w)
      PROVE  \/ p \in 1 .. Len(a)
             \/ \E q \in 1 .. Len(b) : p = Len(a) + q
             \/ \E q \in 1 .. Len(c) : p = Len(a) + Len(b) + q
  <2>1. CASE p \in Len(a) + 1 .. Len(a) + Len(b)
    <3>1. p - Len(a) \in 1 .. Len(b) /\ p = Len(a) + (p - Len(a))
      BY <2>1
    <3> QED
      BY <3>1
  <2>2. CASE p > Len(a) + Len(b)
    <3>1. p - (Len(a) + Len(b)) \in 1 .. Len(c) /\ p = Len(a) + Len(b) + (p - (Len(a) + Len(b)))
      BY <1>1, <1>3, <2>2
    <3> QED
      BY <3>1
  <2> QED
    BY <1>3, <2>1, <2>2
<1>8. w \in Seq(E) /\ Len(w) = Len(a) + Len(b) + Len(c)
  BY <1>1, <1>3
<1>9. Chained(E, a, b, c, w)
  BY <1>4, <1>5, <1>6, <1>7, <1>8, Zenon DEF Chained
<1> QED
  BY <1>9 DEF w

\* The names outside the layers.
Outer(names) == [k \in DOMAIN names |-> <<names[k], 0>>]
LEMMA OuterNames ==
  ASSUME NEW S, NEW names \in Seq(S)
  PROVE  /\ Outer(names) \in Seq(S \X Nat) /\ Len(Outer(names)) = Len(names)
         /\ \A k \in 1 .. Len(names) : Outer(names)[k] = <<names[k], 0>>
<1>1. DOMAIN names = 1 .. Len(names) /\ Len(names) \in Nat
  OBVIOUS
<1>2. Outer(names) \in [1 .. Len(names) -> S \X Nat]
  BY <1>1 DEF Outer
<1>3. Outer(names) \in Seq(S \X Nat) /\ Len(Outer(names)) = Len(names)
  BY <1>1, <1>2, SeqDef, LenProperties
<1> QED
  BY <1>1, <1>3 DEF Outer

OrderLiesSo(S, f, m, e, order, w) ==
  /\ w \in Seq(S \X Nat) /\ Len(w) = f + m * L + e
  /\ \A k \in 1 .. f : w[k] = <<order.first[k], 0>>
  /\ \A k \in 1 .. m : \A i \in Layers : w[f + ((k - 1) * L + i)] = <<order.layers[k], i>>
  /\ \A k \in 1 .. e : w[f + m * L + k] = <<order.last[k], 0>>
  /\ \A x \in Range(w) :
       \/ \E k \in 1 .. f : x = <<order.first[k], 0>>
       \/ \E k \in 1 .. m : \E i \in Layers : x = <<order.layers[k], i>>
       \/ \E k \in 1 .. e : x = <<order.last[k], 0>>

LEMMA OrderPlaces ==
  ASSUME NEW S, NEW order, order.first \in Seq(S), order.layers \in Seq(S), order.last \in Seq(S)
  PROVE  OrderLiesSo(S, Len(order.first), Len(order.layers), Len(order.last), order, WriteOrder(order))
<1> DEFINE f == Len(order.first)
           m == Len(order.layers)
           e == Len(order.last)
           w == WriteOrder(order)
           E == S \X Nat
           a == Outer(order.first)
           b == LayerPart(order)
           c == Outer(order.last)
           n == m * L
           first == order.first
           layers == order.layers
           last == order.last
           at(k, i) == (k - 1) * L + i
<1>1. a \in Seq(E) /\ Len(a) = f /\ f \in Nat /\ \A k \in 1 .. f : a[k] = <<first[k], 0>>
  BY OuterNames, LenProperties, Zenon
<1>2. c \in Seq(E) /\ Len(c) = e /\ e \in Nat /\ \A k \in 1 .. e : c[k] = <<last[k], 0>>
  BY OuterNames, LenProperties, Zenon
<1>3. LayersLieSo(S, layers, b)
  BY LayerPlaces
<1>4. /\ b \in Seq(E) /\ Len(b) = n
      /\ \A k \in 1 .. m : \A i \in Layers : at(k, i) \in 1 .. n /\ b[at(k, i)] = <<layers[k], i>>
      /\ \A p \in 1 .. n : \E k \in 1 .. m : \E i \in Layers : p = at(k, i)
  BY <1>3, Zenon DEF LayersLieSo
<1>5. w = a \o b \o c
  BY Zenon DEF WriteOrder, LayerPart, Outer
<1> HIDE DEF a, b, c, n, m, e, f, w, E, at, first, layers, last
<1>6. /\ w \in Seq(E) /\ Len(w) = f + n + e
      /\ \A p \in 1 .. f : w[p] = a[p]
      /\ \A p \in 1 .. n : w[f + p] = b[p]
      /\ \A p \in 1 .. e : w[f + n + p] = c[p]
      /\ \A p \in 1 .. Len(w) :
           \/ p \in 1 .. f
           \/ \E q \in 1 .. n : p = f + q
           \/ \E q \in 1 .. e : p = f + n + q
  <2>1. Len(a) = f /\ Len(b) = n /\ Len(c) = e /\ a \in Seq(E) /\ b \in Seq(E) /\ c \in Seq(E)
    BY <1>1, <1>2, <1>4
  <2>2. Chained(E, a, b, c, w)
    BY <1>5, <2>1, ThreeParts, Zenon
  <2> QED
    BY <2>1, <2>2 DEF Chained
<1>7. n \in Nat
  BY <1>4
<1>8. \A k \in 1 .. f : w[k] = <<first[k], 0>> /\ k \in 1 .. Len(w)
  BY <1>1, <1>2, <1>6, <1>7
<1>9. ASSUME NEW k \in 1 .. e
      PROVE  w[f + n + k] = <<last[k], 0>> /\ f + n + k \in 1 .. Len(w)
  <2>1. w[f + n + k] = c[k]
    BY <1>6, Zenon
  <2>2. c[k] = <<last[k], 0>>
    BY <1>2, Zenon
  <2>3. f + n + k \in 1 .. Len(w)
    BY <1>1, <1>2, <1>6, <1>7
  <2> QED
    BY <2>1, <2>2, <2>3, Zenon
<1>10. ASSUME NEW k \in 1 .. m, NEW i \in Layers
      PROVE  w[f + at(k, i)] = <<layers[k], i>> /\ f + at(k, i) \in 1 .. Len(w)
  <2>1. at(k, i) \in 1 .. n /\ b[at(k, i)] = <<layers[k], i>>
    BY <1>4
  <2> QED
    BY <1>1, <1>2, <1>6, <1>7, <2>1
<1> DEFINE Is(x) == \/ \E k \in 1 .. f : x = <<first[k], 0>>
                    \/ \E k \in 1 .. m : \E i \in Layers : x = <<layers[k], i>>
                    \/ \E k \in 1 .. e : x = <<last[k], 0>>
<1>11. ASSUME NEW p \in 1 .. Len(w) PROVE Is(w[p])
  <2>1. CASE p \in 1 .. f
    BY <1>8, <2>1
  <2>2. ASSUME NEW q \in 1 .. n, p = f + q PROVE Is(w[p])
    <3>1. PICK k \in 1 .. m, i \in Layers : q = at(k, i)
      BY <1>4, Zenon
    <3>2. w[p] = <<layers[k], i>>
      BY <1>10, <2>2, <3>1, Zenon
    <3> QED
      BY <3>2, Zenon
  <2>3. ASSUME NEW q \in 1 .. e, p = f + n + q PROVE Is(w[p])
    BY <1>9, <2>3, Zenon
  <2> QED
    BY <1>6, <2>1, <2>2, <2>3, Zenon
<1>12. \A x : x \in Range(w) <=> \E p \in 1 .. Len(w) : x = w[p]
  BY <1>6, ItemsOfSeq
<1>13. ASSUME NEW x \in Range(w) PROVE Is(x)
  <2>1. PICK p \in 1 .. Len(w) : x = w[p]
    BY <1>12, Zenon
  <2>2. Is(w[p])
    BY <1>11, Zenon
  <2> HIDE DEF Is
  <2> QED
    BY <2>1, <2>2
<1>14. w \in Seq(S \X Nat) /\ Len(w) = f + m * L + e
  BY <1>6 DEF n, E
<1>15. \A k \in 1 .. f : w[k] = <<order.first[k], 0>>
  BY <1>8 DEF first
<1>16. \A k \in 1 .. m : \A i \in Layers : w[f + ((k - 1) * L + i)] = <<order.layers[k], i>>
  BY <1>10, Zenon DEF at, layers
<1>17. \A k \in 1 .. e : w[f + m * L + k] = <<order.last[k], 0>>
  BY <1>9, Zenon DEF n, last
<1>18. \A x \in Range(w) :
         \/ \E k \in 1 .. f : x = <<order.first[k], 0>>
         \/ \E k \in 1 .. m : \E i \in Layers : x = <<order.layers[k], i>>
         \/ \E k \in 1 .. e : x = <<order.last[k], 0>>
  BY <1>13, Zenon DEF first, layers, last
<1>19. OrderLiesSo(S, f, m, e, order, w)
  BY <1>14, <1>15, <1>16, <1>17, <1>18, Zenon DEF OrderLiesSo
<1> QED
  BY <1>19 DEF f, m, e, w

-----------------------------------------------------------------------------
(***************************************************************************)
(* GPT-2's names, and what is imported from the published weights.         *)
(***************************************************************************)
GPT2Kinds ==
  {"wte.weight", "wpe.weight", "ln_1.weight", "ln_1.bias", "attn.c_attn.weight", "attn.c_attn.bias",
   "attn.c_proj.weight", "attn.c_proj.bias", "ln_2.weight", "ln_2.bias", "mlp.c_fc.weight",
   "mlp.c_fc.bias", "mlp.c_proj.weight", "mlp.c_proj.bias", "ln_f.weight", "ln_f.bias"}
LlamaKinds ==
  {"wte.weight", "ln_1.weight", "attn.c_attn.weight", "attn.c_proj.weight", "ln_2.weight",
   "mlp.c_fc.weight", "mlp.c_fc2.weight", "mlp.c_proj.weight", "ln_f.weight", "lm_head.weight"}

LEMMA GPT2Places == OrderLiesSo(GPT2Kinds, 2, 12, 2, GPT2Order, WriteOrder(GPT2Order))
<1>1. /\ GPT2Order.first = <<"wte.weight", "wpe.weight">>
      /\ GPT2Order.layers = <<"ln_1.weight", "ln_1.bias", "attn.c_attn.weight", "attn.c_attn.bias",
                            "attn.c_proj.weight", "attn.c_proj.bias", "ln_2.weight", "ln_2.bias",
                            "mlp.c_fc.weight", "mlp.c_fc.bias", "mlp.c_proj.weight", "mlp.c_proj.bias">>
      /\ GPT2Order.last = <<"ln_f.weight", "ln_f.bias">>
  BY DEF GPT2Order
<1>2. GPT2Order.first \in Seq(GPT2Kinds) /\ Len(GPT2Order.first) = 2
  BY <1>1 DEF GPT2Kinds
<1>3. GPT2Order.layers \in Seq(GPT2Kinds) /\ Len(GPT2Order.layers) = 12
  BY <1>1 DEF GPT2Kinds
<1>4. GPT2Order.last \in Seq(GPT2Kinds) /\ Len(GPT2Order.last) = 2
  BY <1>1 DEF GPT2Kinds
<1> QED
  BY <1>2, <1>3, <1>4, OrderPlaces

LEMMA LlamaPlaces == OrderLiesSo(LlamaKinds, 1, 7, 2, LlamaOrder, WriteOrder(LlamaOrder))
<1>1. /\ LlamaOrder.first = <<"wte.weight">>
      /\ LlamaOrder.layers = <<"ln_1.weight", "attn.c_attn.weight", "attn.c_proj.weight", "ln_2.weight",
                             "mlp.c_fc.weight", "mlp.c_fc2.weight", "mlp.c_proj.weight">>
      /\ LlamaOrder.last = <<"ln_f.weight", "lm_head.weight">>
  BY DEF LlamaOrder
<1>2. LlamaOrder.first \in Seq(LlamaKinds) /\ Len(LlamaOrder.first) = 1
  BY <1>1 DEF LlamaKinds
<1>3. LlamaOrder.layers \in Seq(LlamaKinds) /\ Len(LlamaOrder.layers) = 7
  BY <1>1 DEF LlamaKinds
<1>4. LlamaOrder.last \in Seq(LlamaKinds) /\ Len(LlamaOrder.last) = 2
  BY <1>1 DEF LlamaKinds
<1> QED
  BY <1>2, <1>3, <1>4, OrderPlaces

LEMMA GPT2Count == TensorCount("gpt2") = 4 + 12 * L /\ TensorCount("gpt2") \in Nat
<1>1. Len(WriteOrder(GPT2Order)) = 2 + 12 * L + 2
  BY GPT2Places DEF OrderLiesSo
<1> QED
  BY <1>1, LayersAreNat DEF TensorCount, OrderOf

LEMMA ShapeIsAPair == \A kind : \E a, b \in Nat : Shape(kind) = <<a, b>>
BY WeightsAssumption DEF Shape, C

\* A tensor, field by field.
Tensor(of, n, dtype, shape, transposed) ==
  [of |-> of, step |-> n, dtype |-> dtype, shape |-> shape, transposed |-> transposed]

LEMMA TensorTurned ==
  ASSUME NEW of, NEW n, NEW dtype, NEW a, NEW b, NEW x, NEW y, (~x) = y
  PROVE  Transposed(Tensor(of, n, dtype, <<a, b>>, x)) = Tensor(of, n, dtype, <<b, a>>, y)
<1> DEFINE t == Tensor(of, n, dtype, <<a, b>>, x)
           z == ~t.transposed
           s == <<t.shape[2], t.shape[1]>>
<1>1. t.shape = <<a, b>>
  BY DEF Tensor
<1>2. t.transposed = x
  BY Zenon DEF Tensor
<1>3. s = <<b, a>>
  BY <1>1
<1>4. z = y
  BY <1>2, Zenon
<1>5. Transposed(t) = [[t EXCEPT !.shape = s] EXCEPT !.transposed = z]
  BY Zenon DEF Transposed
<1> HIDE DEF z, s
<1>6. Transposed(t) = [[t EXCEPT !.shape = <<b, a>>] EXCEPT !.transposed = y]
  BY <1>3, <1>4, <1>5, Zenon
<1>7. [t EXCEPT !.shape = <<b, a>>] = Tensor(of, n, dtype, <<b, a>>, x)
  BY DEF Tensor
<1>8. [Tensor(of, n, dtype, <<b, a>>, x) EXCEPT !.transposed = y] = Tensor(of, n, dtype, <<b, a>>, y)
  BY DEF Tensor
<1> HIDE DEF t
<1>9. Transposed(t) = Tensor(of, n, dtype, <<b, a>>, y)
  BY <1>6, <1>7, <1>8, Zenon
<1> QED
  BY <1>9 DEF t

\* In the layout the programs compute with, or turned against it.
Straight == FALSE
Turned == TRUE

LEMMA TransposedTwice ==
  ASSUME NEW a, NEW b, NEW of, NEW n, NEW dtype
  PROVE  /\ Transposed(Tensor(of, n, dtype, <<a, b>>, Straight)) = Tensor(of, n, dtype, <<b, a>>, Turned)
         /\ Transposed(Tensor(of, n, dtype, <<a, b>>, Turned)) = Tensor(of, n, dtype, <<b, a>>, Straight)
<1>1. (~Straight) = Turned /\ (~Turned) = Straight
  BY DEF Straight, Turned
<1> QED
  BY <1>1, TensorTurned

LEMMA GPT2IsImported == FromPretrained = [name \in Names("gpt2") |-> Linear(name, 0)]
<1>1. ASSUME NEW name
      PROVE  Transposed(Transposed(Linear(name, 0))) = Linear(name, 0)
  <2>1. PICK a, b \in Nat : Shape(name[1]) = <<a, b>>
    BY ShapeIsAPair
  <2> QED
    <3>1. Linear(name, 0) = Tensor(name, 0, "float32", <<a, b>>, Straight)
      BY <2>1, Zenon DEF Linear, Tensor, Straight
    <3>2. Transposed(Tensor(name, 0, "float32", <<a, b>>, Straight)) = Tensor(name, 0, "float32", <<b, a>>, Turned)
      BY TransposedTwice
    <3>3. Transposed(Tensor(name, 0, "float32", <<b, a>>, Turned)) = Tensor(name, 0, "float32", <<a, b>>, Straight)
      BY TransposedTwice
    <3> QED
      BY <3>1, <3>2, <3>3
<1>2. ToTranspose = ConvKinds
  BY DEF ToTranspose, ConvKinds
<1>3. ASSUME NEW name
      PROVE  (IF name[1] \in ToTranspose THEN Transposed(Published(name, 0)) ELSE Published(name, 0))
               = Linear(name, 0)
  BY <1>1, <1>2, Zenon DEF Published
<1> QED
  BY <1>3, Zenon DEF FromPretrained

LEMMA GPT2ImportComplete ==
  /\ ShapesAgree(Imported("gpt2"))
  /\ \A name \in Names("gpt2") : Imported("gpt2")[name] = Linear(name, 0)
<1>1. Imported("gpt2") = [name \in Names("gpt2") |-> Linear(name, 0)]
  BY GPT2IsImported DEF Imported
<1>2. \A name : Linear(name, 0).shape = Shape(name[1])
  BY DEF Linear
<1>3. \A name \in Names("gpt2") : Imported("gpt2")[name] = Linear(name, 0)
  BY <1>1, Zenon
<1>4. DOMAIN Imported("gpt2") = Names("gpt2")
  BY <1>1, Zenon
<1> QED
  BY <1>2, <1>3, <1>4, Zenon DEF ShapesAgree

-----------------------------------------------------------------------------
(***************************************************************************)
(* Llama's names.                                                          *)
(***************************************************************************)
\* A checkpoint renamed by a map that gives every name once.
LEMMA RenamedOnce ==
  ASSUME NEW checkpoint, NEW map, NEW qkv, NEW h \in DOMAIN map, NEW i,
         <<h, i>> \in DOMAIN checkpoint,
         \A n \in DOMAIN checkpoint : n = <<n[1], n[2]>>,
         map[h] # "attn.c_attn.weight",
         \A g \in DOMAIN map : map[g] = map[h] => g = h
  PROVE  /\ <<map[h], i>> \in DOMAIN Adapted(checkpoint, map, qkv)
         /\ Adapted(checkpoint, map, qkv)[<<map[h], i>>] = checkpoint[<<h, i>>]
<1> DEFINE renamed == {n \in DOMAIN checkpoint : n[1] \in DOMAIN map}
           names == {<<map[n[1]], n[2]>> : n \in renamed} \cup ({"attn.c_attn.weight"} \X Layers)
           name == <<map[h], i>>
           source_of(x) == CHOOSE n \in renamed : <<map[n[1]], n[2]>> = x
           value(x) == IF x[1] = "attn.c_attn.weight" THEN qkv[x[2]] ELSE checkpoint[source_of(x)]
<1>1. Adapted(checkpoint, map, qkv) = [x \in names |-> value(x)]
  BY Zenon DEF Adapted
<1>2. <<h, i>> \in renamed /\ <<map[(<<h, i>>)[1]], (<<h, i>>)[2]>> = name
  OBVIOUS
<1>3. \A n \in renamed : <<map[n[1]], n[2]>> = name => n = <<h, i>>
  OBVIOUS
<1> HIDE DEF renamed
<1>4. source_of(name) = <<h, i>>
  BY <1>2, <1>3, Zenon
<1>5. name \in names /\ name[1] # "attn.c_attn.weight"
  BY <1>2
<1> HIDE DEF source_of, names
<1>6. value(name) = checkpoint[<<h, i>>]
  BY <1>4, <1>5
<1> HIDE DEF value, name
<1> QED
  BY <1>1, <1>5, <1>6 DEF name

LEMMA RenamedProjections ==
  ASSUME NEW checkpoint, NEW map, NEW qkv, NEW i \in Layers
  PROVE  /\ <<"attn.c_attn.weight", i>> \in DOMAIN Adapted(checkpoint, map, qkv)
         /\ Adapted(checkpoint, map, qkv)[<<"attn.c_attn.weight", i>>] = qkv[i]
BY DEF Adapted

LEMMA MetaMapIsOnce ==
  /\ DOMAIN MetaMap = {"tok_embeddings", "norm", "output", "attention_norm", "ffn_norm", "wo", "w1", "w2", "w3"}
  /\ \A g, h \in DOMAIN MetaMap : MetaMap[g] = MetaMap[h] => g = h
  /\ \A h \in DOMAIN MetaMap : MetaMap[h] # "attn.c_attn.weight"
BY DEF MetaMap

LEMMA HFMapIsOnce ==
  /\ DOMAIN HFMap = {"embed_tokens", "norm", "lm_head", "input_layernorm", "post_attention_layernorm",
                     "o_proj", "gate_proj", "down_proj", "up_proj"}
  /\ \A g, h \in DOMAIN HFMap : HFMap[g] = HFMap[h] => g = h
  /\ \A h \in DOMAIN HFMap : HFMap[h] # "attn.c_attn.weight"
BY DEF HFMap

LEMMA MetaNames ==
  /\ DOMAIN MetaCheckpoint =
       {<<k, 0>> : k \in {"tok_embeddings", "norm", "output"}}
       \cup ({"attention_norm", "ffn_norm", "wq", "wk", "wv", "wo", "w1", "w2", "w3"} \X Layers)
  /\ \A n \in DOMAIN MetaCheckpoint : n = <<n[1], n[2]>>
<1>1. DOMAIN MetaCheckpoint =
        {<<k, 0>> : k \in {"tok_embeddings", "norm", "output"}}
        \cup ({"attention_norm", "ffn_norm", "wq", "wk", "wv", "wo", "w1", "w2", "w3"} \X Layers)
  BY Zenon DEF MetaCheckpoint
<1> QED
  BY <1>1

LEMMA HFCheckpointNames ==
  /\ DOMAIN HFCheckpoint =
       ({"embed_tokens", "norm", "lm_head"} \X {0})
       \cup ({"input_layernorm", "post_attention_layernorm", "q_proj", "k_proj", "v_proj", "o_proj",
              "gate_proj", "down_proj", "up_proj"} \X Layers)
  /\ \A n \in DOMAIN HFCheckpoint : n = <<n[1], n[2]>>
<1>1. DOMAIN HFNames \ {"embed_tokens", "norm", "lm_head"} =
        {"input_layernorm", "post_attention_layernorm", "q_proj", "k_proj", "v_proj", "o_proj",
         "gate_proj", "down_proj", "up_proj"}
  BY DEF HFNames
<1>2. DOMAIN HFCheckpoint =
        ({"embed_tokens", "norm", "lm_head"} \X {0})
        \cup ((DOMAIN HFNames \ {"embed_tokens", "norm", "lm_head"}) \X Layers)
  BY Zenon DEF HFCheckpoint
<1> QED
  BY <1>1, <1>2

LEMMA RowsAre ==
  ASSUME NEW matrix, NEW i, NEW n \in Nat
  PROVE  Rows(matrix, i, n) \in Seq({<<matrix, i, j>> : j \in 1 .. n}) /\ Len(Rows(matrix, i, n)) = n
<1> DEFINE E == {<<matrix, i, j>> : j \in 1 .. n}
           w == Rows(matrix, i, n)
<1>1. w \in [1 .. n -> E]
  BY Zenon DEF Rows
<1> HIDE DEF E, w
<1>2. w \in Seq(E) /\ Len(w) = n
  BY <1>1, SeqDef, LenProperties
<1> QED
  BY <1>2 DEF E, w

LEMMA MetaProjections ==
  ASSUME NEW i \in Layers
  PROVE  /\ MetaCheckpoint[<<"wq", i>>] = Rows("wq", i, NEmbd)
         /\ MetaCheckpoint[<<"wk", i>>] = Rows("wk", i, KVHeads * HeadDim)
         /\ MetaCheckpoint[<<"wv", i>>] = Rows("wv", i, KVHeads * HeadDim)
<1>1. <<"wq", i>> \in DOMAIN MetaCheckpoint /\ <<"wk", i>> \in DOMAIN MetaCheckpoint
      /\ <<"wv", i>> \in DOMAIN MetaCheckpoint
  BY MetaNames
<1>2. ASSUME NEW k, <<k, i>> \in DOMAIN MetaCheckpoint, k \in {"wq", "wk", "wv"}
      PROVE  MetaCheckpoint[<<k, i>>] = IF k = "wq" THEN Rows("wq", i, NEmbd) ELSE Rows(k, i, KVHeads * HeadDim)
  BY <1>2 DEF MetaCheckpoint
<1>3. "wq" # "wk" /\ "wq" # "wv"
  OBVIOUS
<1> QED
  BY <1>1, <1>2, <1>3, Zenon

LEMMA HeadDimIsEven ==
  /\ {Heads, KVHeads, HeadDim} \subseteq Nat \ {0}
  /\ \E half \in Nat \ {0} : HeadDim = 2 * half
<1>1. HeadDim \in Nat \ {0} /\ HeadDim % 2 = 0 /\ {Heads, KVHeads} \subseteq Nat \ {0}
  BY WeightsAssumption
<1>2. HeadDim = 2 * (HeadDim \div 2) /\ HeadDim \div 2 \in Nat \ {0}
  BY <1>1, SMT
<1> QED
  BY <1>1, <1>2

\* The importer of the Hugging Face form finds the rows of Meta's.
LEMMA HFProjections ==
  ASSUME NEW i \in Layers
  PROVE  /\ Unpermute(HFCheckpoint[<<"q_proj", i>>], Heads) = MetaCheckpoint[<<"wq", i>>]
         /\ Unpermute(HFCheckpoint[<<"k_proj", i>>], KVHeads) = MetaCheckpoint[<<"wk", i>>]
         /\ HFCheckpoint[<<"v_proj", i>>] = MetaCheckpoint[<<"wv", i>>]
<1>1. /\ <<"q_proj", i>> \in DOMAIN HFCheckpoint /\ <<"k_proj", i>> \in DOMAIN HFCheckpoint
      /\ <<"v_proj", i>> \in DOMAIN HFCheckpoint
  BY HFCheckpointNames
<1>2. ASSUME NEW g, <<g, i>> \in DOMAIN HFCheckpoint
      PROVE  HFCheckpoint[<<g, i>>] =
               LET w == MetaCheckpoint[<<HFNames[g], i>>]
               IN  IF g = "q_proj" THEN HFPermuted(w, Heads)
                   ELSE IF g = "k_proj" THEN HFPermuted(w, KVHeads) ELSE w
  BY <1>2 DEF HFCheckpoint
<1>3. HFNames["q_proj"] = "wq" /\ HFNames["k_proj"] = "wk" /\ HFNames["v_proj"] = "wv"
  BY DEF HFNames
<1>4. "q_proj" # "k_proj" /\ "q_proj" # "v_proj" /\ "k_proj" # "v_proj"
  OBVIOUS
<1>5. /\ HFCheckpoint[<<"q_proj", i>>] = HFPermuted(MetaCheckpoint[<<"wq", i>>], Heads)
      /\ HFCheckpoint[<<"k_proj", i>>] = HFPermuted(MetaCheckpoint[<<"wk", i>>], KVHeads)
      /\ HFCheckpoint[<<"v_proj", i>>] = MetaCheckpoint[<<"wv", i>>]
  BY <1>1, <1>2, <1>3, <1>4, Zenon
<1>6. PICK half \in Nat \ {0} : HeadDim = 2 * half
  BY HeadDimIsEven
<1>7. ASSUME NEW matrix, NEW heads \in Nat \ {0}
      PROVE  Unpermute(HFPermuted(Rows(matrix, i, heads * HeadDim), heads), heads)
               = Rows(matrix, i, heads * HeadDim)
  <2>1. heads * HeadDim \in Nat /\ heads * HeadDim = heads * (2 * half)
    BY <1>6
  <2>2. Rows(matrix, i, heads * HeadDim) \in Seq({<<matrix, i, j>> : j \in 1 .. heads * HeadDim})
        /\ Len(Rows(matrix, i, heads * HeadDim)) = heads * HeadDim
    BY <2>1, RowsAre
  <2> DEFINE w == Rows(matrix, i, heads * HeadDim)
             E == {<<matrix, i, j>> : j \in 1 .. heads * HeadDim}
  <2>3. w \in Seq(E) /\ Len(w) = heads * (2 * half)
    BY <2>1, <2>2
  <2> HIDE DEF w, E
  <2>4. Unpermute(HFPermuted(w, heads), heads) = w
    BY <2>3, UnpermuteUndoes
  <2> QED
    BY <2>4 DEF w
<1>8. Heads \in Nat \ {0} /\ KVHeads \in Nat \ {0}
  BY HeadDimIsEven
<1> QED
  BY <1>5, <1>7, <1>8, MetaProjections, Zenon DEF NEmbd

LEMMA LlamaNameIs ==
  ASSUME NEW name \in Names("llama3_meta")
  PROVE  \/ \E i \in Layers : name = <<"attn.c_attn.weight", i>>
         \/ \E h \in DOMAIN MetaMap : \E i : name = <<MetaMap[h], i>> /\ <<h, i>> \in DOMAIN MetaCheckpoint
<1>1. Names("llama3_meta") = Range(WriteOrder(LlamaOrder))
  BY DEF Names, OrderOf
<1>2. \/ \E k \in 1 .. 1 : name = <<LlamaOrder.first[k], 0>>
      \/ \E k \in 1 .. 7 : \E i \in Layers : name = <<LlamaOrder.layers[k], i>>
      \/ \E k \in 1 .. 2 : name = <<LlamaOrder.last[k], 0>>
  BY <1>1, LlamaPlaces, Zenon DEF OrderLiesSo
<1>3. /\ MetaMap["tok_embeddings"] = "wte.weight" /\ MetaMap["norm"] = "ln_f.weight"
      /\ MetaMap["output"] = "lm_head.weight" /\ MetaMap["attention_norm"] = "ln_1.weight"
      /\ MetaMap["ffn_norm"] = "ln_2.weight" /\ MetaMap["wo"] = "attn.c_proj.weight"
      /\ MetaMap["w1"] = "mlp.c_fc2.weight" /\ MetaMap["w2"] = "mlp.c_proj.weight"
      /\ MetaMap["w3"] = "mlp.c_fc.weight"
  BY DEF MetaMap
<1>4. CASE \E k \in 1 .. 1 : name = <<LlamaOrder.first[k], 0>>
  <2>1. name = <<"wte.weight", 0>>
    BY <1>4 DEF LlamaOrder
  <2>2. <<"tok_embeddings", 0>> \in DOMAIN MetaCheckpoint /\ "tok_embeddings" \in DOMAIN MetaMap
    BY MetaNames, MetaMapIsOnce
  <2> QED
    BY <1>3, <2>1, <2>2, Zenon
<1>5. CASE \E k \in 1 .. 2 : name = <<LlamaOrder.last[k], 0>>
  <2>1. name \in {<<"ln_f.weight", 0>>, <<"lm_head.weight", 0>>}
    BY <1>5 DEF LlamaOrder
  <2>2. /\ <<"norm", 0>> \in DOMAIN MetaCheckpoint /\ "norm" \in DOMAIN MetaMap
        /\ <<"output", 0>> \in DOMAIN MetaCheckpoint /\ "output" \in DOMAIN MetaMap
    BY MetaNames, MetaMapIsOnce
  <2> QED
    BY <1>3, <2>1, <2>2, Zenon
<1>6. CASE \E k \in 1 .. 7 : \E i \in Layers : name = <<LlamaOrder.layers[k], i>>
  <2>1. PICK i \in Layers : \E k \in 1 .. 7 : name = <<LlamaOrder.layers[k], i>>
    BY <1>6
  <2>2. name \in {<<"ln_1.weight", i>>, <<"attn.c_attn.weight", i>>, <<"attn.c_proj.weight", i>>,
                  <<"ln_2.weight", i>>, <<"mlp.c_fc.weight", i>>, <<"mlp.c_fc2.weight", i>>,
                  <<"mlp.c_proj.weight", i>>}
    BY <2>1 DEF LlamaOrder
  <2>3. \A h \in {"attention_norm", "ffn_norm", "wo", "w1", "w2", "w3"} :
          h \in DOMAIN MetaMap /\ <<h, i>> \in DOMAIN MetaCheckpoint
    BY MetaNames, MetaMapIsOnce
  <2> QED
    BY <1>3, <2>2, <2>3, Zenon
<1> QED
  BY <1>2, <1>4, <1>5, <1>6

LEMMA MetaImportComplete ==
  ASSUME NEW name \in Names("llama3_meta")
  PROVE  /\ name \in DOMAIN AdaptLlamaStateDictKeys
         /\ AdaptLlamaStateDictKeys[name] = LlamaReference(name)
<1> DEFINE qkv == [i \in Layers |-> MetaCheckpoint[<<"wq", i>>] \o MetaCheckpoint[<<"wk", i>>]
                                    \o MetaCheckpoint[<<"wv", i>>]]
           adapted == Adapted(MetaCheckpoint, MetaMap, qkv)
<1>1. AdaptLlamaStateDictKeys = adapted
  BY Zenon DEF AdaptLlamaStateDictKeys
<1>2. ASSUME NEW i \in Layers, name = <<"attn.c_attn.weight", i>>
      PROVE  name \in DOMAIN adapted /\ adapted[name] = LlamaReference(name)
  <2>1. qkv[i] = Rows("wq", i, NEmbd) \o Rows("wk", i, KVHeads * HeadDim) \o Rows("wv", i, KVHeads * HeadDim)
    BY MetaProjections, Zenon
  <2>2. name[1] = "attn.c_attn.weight" /\ name[2] = i
    BY <1>2
  <2>3. LlamaReference(name) = qkv[i]
    BY <2>1, <2>2, Zenon DEF LlamaReference
  <2> HIDE DEF qkv
  <2> QED
    <3>1. <<"attn.c_attn.weight", i>> \in DOMAIN adapted /\ adapted[<<"attn.c_attn.weight", i>>] = qkv[i]
      BY RenamedProjections
    <3> HIDE DEF adapted
    <3> QED
      BY <1>2, <2>3, <3>1
<1>3. ASSUME NEW h \in DOMAIN MetaMap, NEW i, name = <<MetaMap[h], i>>, <<h, i>> \in DOMAIN MetaCheckpoint
      PROVE  name \in DOMAIN adapted /\ adapted[name] = LlamaReference(name)
  <2> HIDE DEF qkv
  <2>1. MetaMap[h] # "attn.c_attn.weight" /\ \A g \in DOMAIN MetaMap : MetaMap[g] = MetaMap[h] => g = h
    BY MetaMapIsOnce, Zenon
  <2>2. name \in DOMAIN adapted /\ adapted[name] = MetaCheckpoint[<<h, i>>]
    <3>1. \A n \in DOMAIN MetaCheckpoint : n = <<n[1], n[2]>>
      BY MetaNames
    <3>2. <<MetaMap[h], i>> \in DOMAIN adapted /\ adapted[<<MetaMap[h], i>>] = MetaCheckpoint[<<h, i>>]
      BY <1>3, <2>1, <3>1, RenamedOnce
    <3> HIDE DEF adapted
    <3> QED
      BY <1>3, <3>2
  <2>3. name[1] = MetaMap[h] /\ name[2] = i
    BY <1>3
  <2>4. (CHOOSE k \in DOMAIN MetaMap : MetaMap[k] = MetaMap[h]) = h
    BY <2>1, Zenon
  <2>5. LlamaReference(name) = MetaCheckpoint[<<h, i>>]
    BY <2>1, <2>3, <2>4, Zenon DEF LlamaReference
  <2> QED
    BY <2>2, <2>5
<1> QED
  BY <1>1, <1>2, <1>3, LlamaNameIs, Zenon

\* The other form has another name for each of Meta's, which is given the same name of ours.
LEMMA HFNameFor ==
  ASSUME NEW h \in DOMAIN MetaMap, NEW i, <<h, i>> \in DOMAIN MetaCheckpoint
  PROVE  \E g \in DOMAIN HFMap :
           /\ HFMap[g] = MetaMap[h] /\ <<g, i>> \in DOMAIN HFCheckpoint
           /\ HFNames[g] = h /\ g # "q_proj" /\ g # "k_proj"
<1>1. \/ h \in {"tok_embeddings", "norm", "output"} /\ i = 0
      \/ h \in {"attention_norm", "ffn_norm", "wo", "w1", "w2", "w3"} /\ i \in Layers
  BY MetaNames, MetaMapIsOnce
<1> DEFINE Fits(g, x) == g \in DOMAIN HFMap /\ HFMap[g] = MetaMap[x] /\ HFNames[g] = x
                         /\ g # "q_proj" /\ g # "k_proj"
<1>2. /\ Fits("embed_tokens", "tok_embeddings") /\ Fits("norm", "norm") /\ Fits("lm_head", "output")
      /\ Fits("input_layernorm", "attention_norm") /\ Fits("post_attention_layernorm", "ffn_norm")
      /\ Fits("o_proj", "wo") /\ Fits("gate_proj", "w1") /\ Fits("down_proj", "w2") /\ Fits("up_proj", "w3")
  BY DEF HFMap, MetaMap, HFNames
<1> HIDE DEF Fits
<1>3. CASE i = 0 /\ h \in {"tok_embeddings", "norm", "output"}
  <2>1. \A g \in {"embed_tokens", "norm", "lm_head"} : <<g, i>> \in DOMAIN HFCheckpoint
    BY <1>3, HFCheckpointNames
  <2>2. \E g \in {"embed_tokens", "norm", "lm_head"} : Fits(g, h)
    BY <1>2, <1>3, Zenon
  <2> QED
    BY <2>1, <2>2, Zenon DEF Fits
<1>4. CASE i \in Layers /\ h \in {"attention_norm", "ffn_norm", "wo", "w1", "w2", "w3"}
  <2> DEFINE gs == {"input_layernorm", "post_attention_layernorm", "o_proj", "gate_proj", "down_proj", "up_proj"}
  <2>1. \A g \in gs : <<g, i>> \in DOMAIN HFCheckpoint
    BY <1>4, HFCheckpointNames
  <2>2. \E g \in gs : Fits(g, h)
    BY <1>2, <1>4, Zenon
  <2> QED
    BY <2>1, <2>2, Zenon DEF Fits
<1> QED
  BY <1>1, <1>3, <1>4, Zenon

LEMMA HFImportComplete ==
  ASSUME NEW name \in Names("llama3_meta")
  PROVE  /\ name \in DOMAIN AdaptLlamaStateDictKeysHF
         /\ AdaptLlamaStateDictKeysHF[name] = LlamaReference(name)
<1> DEFINE qkv == [i \in Layers |-> Unpermute(HFCheckpoint[<<"q_proj", i>>], Heads)
                                    \o Unpermute(HFCheckpoint[<<"k_proj", i>>], KVHeads)
                                    \o HFCheckpoint[<<"v_proj", i>>]]
           adapted == Adapted(HFCheckpoint, HFMap, qkv)
<1>1. AdaptLlamaStateDictKeysHF = adapted
  BY Zenon DEF AdaptLlamaStateDictKeysHF
<1>2. ASSUME NEW i \in Layers, name = <<"attn.c_attn.weight", i>>
      PROVE  name \in DOMAIN adapted /\ adapted[name] = LlamaReference(name)
  <2>1. qkv[i] = Rows("wq", i, NEmbd) \o Rows("wk", i, KVHeads * HeadDim) \o Rows("wv", i, KVHeads * HeadDim)
    BY HFProjections, MetaProjections, Zenon
  <2>2. name[1] = "attn.c_attn.weight" /\ name[2] = i
    BY <1>2
  <2>3. LlamaReference(name) = qkv[i]
    BY <2>1, <2>2, Zenon DEF LlamaReference
  <2> HIDE DEF qkv
  <2> QED
    <3>1. <<"attn.c_attn.weight", i>> \in DOMAIN adapted /\ adapted[<<"attn.c_attn.weight", i>>] = qkv[i]
      BY RenamedProjections
    <3> HIDE DEF adapted
    <3> QED
      BY <1>2, <2>3, <3>1
<1>3. ASSUME NEW h \in DOMAIN MetaMap, NEW i, name = <<MetaMap[h], i>>, <<h, i>> \in DOMAIN MetaCheckpoint
      PROVE  name \in DOMAIN adapted /\ adapted[name] = LlamaReference(name)
  <2> HIDE DEF qkv
  <2>1. PICK g \in DOMAIN HFMap :
          /\ HFMap[g] = MetaMap[h] /\ <<g, i>> \in DOMAIN HFCheckpoint
          /\ HFNames[g] = h /\ g # "q_proj" /\ g # "k_proj"
    BY <1>3, HFNameFor, Zenon
  <2>2. HFMap[g] # "attn.c_attn.weight" /\ \A x \in DOMAIN HFMap : HFMap[x] = HFMap[g] => x = g
    BY HFMapIsOnce, Zenon
  <2>3. name = <<HFMap[g], i>>
    BY <1>3, <2>1
  <2>4. name \in DOMAIN adapted /\ adapted[name] = HFCheckpoint[<<g, i>>]
    <3>1. \A n \in DOMAIN HFCheckpoint : n = <<n[1], n[2]>>
      BY HFCheckpointNames
    <3>2. <<HFMap[g], i>> \in DOMAIN adapted /\ adapted[<<HFMap[g], i>>] = HFCheckpoint[<<g, i>>]
      BY <2>1, <2>2, <3>1, RenamedOnce
    <3> HIDE DEF adapted
    <3> QED
      BY <2>3, <3>2
  <2>5. HFCheckpoint[<<g, i>>] = MetaCheckpoint[<<h, i>>]
    <3> DEFINE value(n) ==
          LET w == MetaCheckpoint[<<HFNames[n[1]], n[2]>>]
          IN  IF n[1] = "q_proj" THEN HFPermuted(w, Heads)
              ELSE IF n[1] = "k_proj" THEN HFPermuted(w, KVHeads) ELSE w
    <3>1. \A n \in DOMAIN HFCheckpoint : HFCheckpoint[n] = value(n)
      BY Zenon DEF HFCheckpoint
    <3>2. value(<<g, i>>) = MetaCheckpoint[<<h, i>>]
      BY <2>1
    <3> QED
      BY <2>1, <3>1, <3>2, Zenon
  <2>6. name[1] = MetaMap[h] /\ name[2] = i
    BY <1>3
  <2>7. MetaMap[h] # "attn.c_attn.weight" /\ \A x \in DOMAIN MetaMap : MetaMap[x] = MetaMap[h] => x = h
    BY MetaMapIsOnce, Zenon
  <2>8. (CHOOSE k \in DOMAIN MetaMap : MetaMap[k] = MetaMap[h]) = h
    BY <2>7, Zenon
  <2>9. LlamaReference(name) = MetaCheckpoint[<<h, i>>]
    BY <2>6, <2>7, <2>8, Zenon DEF LlamaReference
  <2> QED
    BY <2>4, <2>5, <2>9
<1> QED
  BY <1>1, <1>2, <1>3, LlamaNameIs, Zenon

LEMMA LoadedOf ==
  ASSUME NEW checkpoint, NEW name \in Names("llama3_meta"), name \in DOMAIN checkpoint
  PROVE  Loaded(checkpoint)[name].of = checkpoint[name]
<1>1. Loaded(checkpoint)[name] = [of |-> checkpoint[name], step |-> 0, dtype |-> "bfloat16"]
  BY Zenon DEF Loaded
<1> QED
  BY <1>1

(***************************************************************************)
(* ImportIsComplete: GPT-2 is imported in the layout the programs compute  *)
(* with, and both published forms of Llama are imported as the same model, *)
(* no parameter of it random and every projection's rows in Meta's order.  *)
(***************************************************************************)
THEOREM ImportsAreComplete == Spec => []ImportIsComplete
<1>1. Init => source \in Sources
  BY DEF Init
<1>2. source \in Sources /\ [Next]_ckptVars => (source \in Sources)'
  BY DEF Next, ckptVars, importVars, PythonWrites, StartAfresh, Resume, RankNext, Loop, WriteModelFile,
         SaveState, Barrier, WriteDone, DeleteModel, DeleteState, DeleteDone, TrainStep, Crash
<1>3. source \in Sources => ImportIsComplete
  <2>1. SUFFICES ASSUME source \in Sources, NEW name \in Names(source)
                 PROVE  IF source = "gpt2"
                        THEN ShapesAgree(Imported(source)) /\ Imported(source)[name] = Linear(name, 0)
                        ELSE Imported(source)[name].of = LlamaReference(name)
    BY Zenon DEF ImportIsComplete
  <2>2. source \in {"gpt2", "llama3_meta", "llama3_hf"}
    BY <2>1, CheckpointAssumption
  <2>3. CASE source = "gpt2"
    BY <2>1, <2>3, GPT2ImportComplete
  <2>4. CASE source \in {"llama3_meta", "llama3_hf"}
    <3>1. "gpt2" # "llama3_meta" /\ "gpt2" # "llama3_hf" /\ "llama3_meta" # "llama3_hf"
      OBVIOUS
    <3>2. Names(source) = Names("llama3_meta")
      BY <2>4, <3>1, Zenon DEF Names, OrderOf
    <3>3. CASE source = "llama3_meta"
      <4>1. Imported(source) = Loaded(AdaptLlamaStateDictKeys)
        BY <3>1, <3>3 DEF Imported
      <4> QED
        BY <2>1, <3>1, <3>2, <3>3, <4>1, MetaImportComplete, LoadedOf, Zenon
    <3>4. CASE source = "llama3_hf"
      <4>1. Imported(source) = Loaded(AdaptLlamaStateDictKeysHF)
        BY <3>1, <3>4 DEF Imported
      <4> QED
        BY <2>1, <3>1, <3>2, <3>4, <4>1, HFImportComplete, LoadedOf, Zenon
    <3> QED
      BY <2>4, <3>3, <3>4
  <2> QED
    BY <2>2, <2>3, <2>4
<1> QED
  BY <1>1, <1>2, <1>3, PTL DEF Spec

-----------------------------------------------------------------------------
(***************************************************************************)
(* The exporter's keys.                                                    *)
(***************************************************************************)
GPT2Keys ==
  <<"wte.weight", "wpe.weight", "ln_1.weight", "ln_1.bias", "attn.c_attn.weight", "attn.c_attn.bias",
    "attn.c_proj.weight", "attn.c_proj.bias", "ln_2.weight", "ln_2.bias", "mlp.c_fc.weight",
    "mlp.c_fc.bias", "mlp.c_proj.weight", "mlp.c_proj.bias", "ln_f.weight", "ln_f.bias">>

\* A key of all layers goes with each layer, another with 0.
KeyOf(k, i) == k \in 1 .. 16 /\ IF k \in 3 .. 14 THEN i \in Layers ELSE i = 0

KeyNumber(kind) ==
  CASE kind = "wte.weight" -> 1 [] kind = "wpe.weight" -> 2 [] kind = "ln_1.weight" -> 3
    [] kind = "ln_1.bias" -> 4 [] kind = "attn.c_attn.weight" -> 5 [] kind = "attn.c_attn.bias" -> 6
    [] kind = "attn.c_proj.weight" -> 7 [] kind = "attn.c_proj.bias" -> 8 [] kind = "ln_2.weight" -> 9
    [] kind = "ln_2.bias" -> 10 [] kind = "mlp.c_fc.weight" -> 11 [] kind = "mlp.c_fc.bias" -> 12
    [] kind = "mlp.c_proj.weight" -> 13 [] kind = "mlp.c_proj.bias" -> 14 [] kind = "ln_f.weight" -> 15
    [] kind = "ln_f.bias" -> 16

LEMMA KeysAre ==
  /\ GPT2Keys[1] = "wte.weight" /\ GPT2Keys[2] = "wpe.weight" /\ GPT2Keys[3] = "ln_1.weight"
  /\ GPT2Keys[4] = "ln_1.bias" /\ GPT2Keys[5] = "attn.c_attn.weight" /\ GPT2Keys[6] = "attn.c_attn.bias"
  /\ GPT2Keys[7] = "attn.c_proj.weight" /\ GPT2Keys[8] = "attn.c_proj.bias" /\ GPT2Keys[9] = "ln_2.weight"
  /\ GPT2Keys[10] = "ln_2.bias" /\ GPT2Keys[11] = "mlp.c_fc.weight" /\ GPT2Keys[12] = "mlp.c_fc.bias"
  /\ GPT2Keys[13] = "mlp.c_proj.weight" /\ GPT2Keys[14] = "mlp.c_proj.bias"
  /\ GPT2Keys[15] = "ln_f.weight" /\ GPT2Keys[16] = "ln_f.bias"
BY DEF GPT2Keys

LEMMA KeysAreOnce ==
  \A k \in 1 .. 16 : KeyNumber(GPT2Keys[k]) = k
<1>1. \A k \in 1 .. 16 : k \in {1, 2, 3, 4, 5, 6, 7, 8, 9, 10, 11, 12, 13, 14, 15, 16}
  OBVIOUS
<1>2. /\ KeyNumber("wte.weight") = 1 /\ KeyNumber("wpe.weight") = 2 /\ KeyNumber("ln_1.weight") = 3
      /\ KeyNumber("ln_1.bias") = 4 /\ KeyNumber("attn.c_attn.weight") = 5 /\ KeyNumber("attn.c_attn.bias") = 6
      /\ KeyNumber("attn.c_proj.weight") = 7 /\ KeyNumber("attn.c_proj.bias") = 8 /\ KeyNumber("ln_2.weight") = 9
      /\ KeyNumber("ln_2.bias") = 10 /\ KeyNumber("mlp.c_fc.weight") = 11 /\ KeyNumber("mlp.c_fc.bias") = 12
      /\ KeyNumber("mlp.c_proj.weight") = 13 /\ KeyNumber("mlp.c_proj.bias") = 14
      /\ KeyNumber("ln_f.weight") = 15 /\ KeyNumber("ln_f.bias") = 16
  BY DEF KeyNumber
<1> QED
  BY <1>1, <1>2, KeysAre

KeyShape(k) == IF k = 1 THEN <<Vp, C>> ELSE Shape(GPT2Keys[k])

LEMMA ReadsKeys ==
  ASSUME NEW dtype, NEW k \in 1 .. 16
  PROVE  ReadKinds(Header(dtype))[k] = <<GPT2Keys[k], KeyShape(k)>>
<1> DEFINE h == Header(dtype)
<1>1. h.Vp = Vp /\ h.maxT = MaxT
  BY DEF Header
<1> HIDE DEF h
<1>2. k \in {1, 2, 3, 4, 5, 6, 7, 8, 9, 10, 11, 12, 13, 14, 15, 16}
  OBVIOUS
<1>3. /\ ReadKinds(h)[1] = <<"wte.weight", <<Vp, C>>>> /\ ReadKinds(h)[2] = <<"wpe.weight", <<MaxT, C>>>>
      /\ ReadKinds(h)[3] = <<"ln_1.weight", <<C, 1>>>> /\ ReadKinds(h)[4] = <<"ln_1.bias", <<C, 1>>>>
      /\ ReadKinds(h)[5] = <<"attn.c_attn.weight", <<3 * C, C>>>>
      /\ ReadKinds(h)[6] = <<"attn.c_attn.bias", <<3 * C, 1>>>>
      /\ ReadKinds(h)[7] = <<"attn.c_proj.weight", <<C, C>>>>
      /\ ReadKinds(h)[8] = <<"attn.c_proj.bias", <<C, 1>>>>
      /\ ReadKinds(h)[9] = <<"ln_2.weight", <<C, 1>>>> /\ ReadKinds(h)[10] = <<"ln_2.bias", <<C, 1>>>>
      /\ ReadKinds(h)[11] = <<"mlp.c_fc.weight", <<4 * C, C>>>>
      /\ ReadKinds(h)[12] = <<"mlp.c_fc.bias", <<4 * C, 1>>>>
      /\ ReadKinds(h)[13] = <<"mlp.c_proj.weight", <<C, 4 * C>>>>
      /\ ReadKinds(h)[14] = <<"mlp.c_proj.bias", <<C, 1>>>>
      /\ ReadKinds(h)[15] = <<"ln_f.weight", <<C, 1>>>> /\ ReadKinds(h)[16] = <<"ln_f.bias", <<C, 1>>>>
  BY <1>1 DEF ReadKinds
<1>4. /\ Shape("wpe.weight") = <<MaxT, C>> /\ Shape("attn.c_attn.weight") = <<3 * C, C>>
      /\ Shape("attn.c_attn.bias") = <<3 * C, 1>> /\ Shape("attn.c_proj.weight") = <<C, C>>
      /\ Shape("mlp.c_fc.weight") = <<4 * C, C>> /\ Shape("mlp.c_fc.bias") = <<4 * C, 1>>
      /\ Shape("mlp.c_proj.weight") = <<C, 4 * C>>
      /\ \A kind \in {"ln_1.weight", "ln_1.bias", "attn.c_proj.bias", "ln_2.weight", "ln_2.bias",
                      "mlp.c_proj.bias", "ln_f.weight", "ln_f.bias"} : Shape(kind) = <<C, 1>>
  BY DEF Shape
<1>5. KeyShape(1) = <<Vp, C>> /\ \A j \in 2 .. 16 : KeyShape(j) = Shape(GPT2Keys[j])
  BY DEF KeyShape
<1>6. /\ KeyShape(2) = <<MaxT, C>> /\ KeyShape(3) = <<C, 1>> /\ KeyShape(4) = <<C, 1>>
      /\ KeyShape(5) = <<3 * C, C>> /\ KeyShape(6) = <<3 * C, 1>> /\ KeyShape(7) = <<C, C>>
      /\ KeyShape(8) = <<C, 1>> /\ KeyShape(9) = <<C, 1>> /\ KeyShape(10) = <<C, 1>>
      /\ KeyShape(11) = <<4 * C, C>> /\ KeyShape(12) = <<4 * C, 1>> /\ KeyShape(13) = <<C, 4 * C>>
      /\ KeyShape(14) = <<C, 1>> /\ KeyShape(15) = <<C, 1>> /\ KeyShape(16) = <<C, 1>>
  BY <1>4, <1>5, KeysAre
<1> DEFINE R(j) == ReadKinds(h)[j] = <<GPT2Keys[j], KeyShape(j)>>
<1>7. /\ R(1) /\ R(2) /\ R(3) /\ R(4) /\ R(5) /\ R(6) /\ R(7) /\ R(8)
      /\ R(9) /\ R(10) /\ R(11) /\ R(12) /\ R(13) /\ R(14) /\ R(15) /\ R(16)
  BY <1>3, <1>5, <1>6, KeysAre
<1> HIDE DEF R
<1>8. R(k)
  BY <1>2, <1>7
<1> QED
  BY <1>8 DEF h, R

LEMMA KeysFollowTheOrder ==
  /\ \A j \in 1 .. 2 : GPT2Order.first[j] = GPT2Keys[j]
  /\ \A j \in 1 .. 12 : GPT2Order.layers[j] = GPT2Keys[j + 2]
  /\ \A j \in 1 .. 2 : GPT2Order.last[j] = GPT2Keys[j + 14]
<1>1. /\ GPT2Order.first[1] = GPT2Keys[1] /\ GPT2Order.first[2] = GPT2Keys[2]
      /\ GPT2Order.last[1] = GPT2Keys[15] /\ GPT2Order.last[2] = GPT2Keys[16]
  BY DEF GPT2Order, GPT2Keys
<1>2. /\ GPT2Order.layers[1] = GPT2Keys[3] /\ GPT2Order.layers[2] = GPT2Keys[4]
      /\ GPT2Order.layers[3] = GPT2Keys[5] /\ GPT2Order.layers[4] = GPT2Keys[6]
      /\ GPT2Order.layers[5] = GPT2Keys[7] /\ GPT2Order.layers[6] = GPT2Keys[8]
      /\ GPT2Order.layers[7] = GPT2Keys[9] /\ GPT2Order.layers[8] = GPT2Keys[10]
      /\ GPT2Order.layers[9] = GPT2Keys[11] /\ GPT2Order.layers[10] = GPT2Keys[12]
      /\ GPT2Order.layers[11] = GPT2Keys[13] /\ GPT2Order.layers[12] = GPT2Keys[14]
  BY DEF GPT2Order, GPT2Keys
<1>3. \A j \in 1 .. 12 : j \in {1, 2, 3, 4, 5, 6, 7, 8, 9, 10, 11, 12}
  OBVIOUS
<1>4. \A j \in 1 .. 2 : j \in {1, 2}
  OBVIOUS
<1> QED
  BY <1>1, <1>2, <1>3, <1>4

LEMMA KeyPlaces ==
  ASSUME NEW k, NEW i, KeyOf(k, i)
  PROVE  /\ Place(k, i) \in 1 .. 4 + 12 * L
         /\ WriteOrder(GPT2Order)[Place(k, i)] = <<GPT2Keys[k], i>>
         /\ <<GPT2Keys[k], i>> \in Names("gpt2")
<1> DEFINE w == WriteOrder(GPT2Order)
<1>1. /\ w \in Seq(GPT2Kinds \X Nat) /\ Len(w) = 2 + 12 * L + 2
      /\ \A j \in 1 .. 2 : w[j] = <<GPT2Order.first[j], 0>>
      /\ \A j \in 1 .. 12 : \A x \in Layers : w[2 + ((j - 1) * L + x)] = <<GPT2Order.layers[j], x>>
      /\ \A j \in 1 .. 2 : w[2 + 12 * L + j] = <<GPT2Order.last[j], 0>>
  BY GPT2Places, Zenon DEF OrderLiesSo
<1> HIDE DEF w
<1>3. Len(w) = 4 + 12 * L
  BY <1>1, LayersAreNat
<1>4. /\ \A j \in 1 .. 2 : GPT2Order.first[j] = GPT2Keys[j]
      /\ \A j \in 1 .. 12 : GPT2Order.layers[j] = GPT2Keys[j + 2]
      /\ \A j \in 1 .. 2 : GPT2Order.last[j] = GPT2Keys[j + 14]
  BY KeysFollowTheOrder
<1>5. w[Place(k, i)] = <<GPT2Keys[k], i>> /\ Place(k, i) \in 1 .. Len(w)
  <2>1. CASE k \in 1 .. 2
    <3>1. i = 0 /\ Place(k, i) = k
      BY <2>1 DEF KeyOf, Place
    <3>2. w[k] = <<GPT2Order.first[k], 0>> /\ GPT2Order.first[k] = GPT2Keys[k]
      BY <1>1, <1>4, <2>1, Zenon
    <3>3. k \in 1 .. Len(w)
      BY <1>3, <2>1, LayersAreNat
    <3> QED
      BY <3>1, <3>2, <3>3
  <2>2. CASE k \in 3 .. 14
    <3>1. i \in Layers /\ i \in Nat /\ i <= L /\ i >= 1 /\ Place(k, i) = 2 + (k - 3) * L + i
      BY <2>2, LayersAreNat DEF KeyOf, Place
    <3> DEFINE j == k - 2
    <3>2. j \in 1 .. 12 /\ j - 1 = k - 3 /\ j + 2 = k /\ (j - 1) * L \in Nat
      BY <2>2, LayersAreNat
    <3>3. Place(k, i) = 2 + ((j - 1) * L + i)
      BY <3>1, <3>2
    <3>4. (j - 1) * L <= 11 * L
      <4>1. \A a, b \in Nat : a <= b => a * L <= b * L
        BY LayersAreNat, SMT
      <4> QED
        BY <3>2, <4>1
    <3> HIDE DEF j
    <3> DEFINE a == (j - 1) * L
    <3>5. a \in Nat /\ a <= 11 * L /\ Place(k, i) = 2 + (a + i)
      BY <3>2, <3>3, <3>4
    <3> HIDE DEF a
    <3>6. Place(k, i) \in 1 .. Len(w)
      BY <1>3, <3>1, <3>5, LayersAreNat
    <3>7. w[2 + ((j - 1) * L + i)] = <<GPT2Order.layers[j], i>> /\ GPT2Order.layers[j] = GPT2Keys[j + 2]
      BY <1>1, <1>4, <3>1, <3>2, Zenon
    <3> QED
      BY <3>2, <3>3, <3>6, <3>7
  <2>3. CASE k \in 15 .. 16
    <3>1. i = 0 /\ Place(k, i) = 2 + 12 * L + (k - 14)
      BY <2>3 DEF KeyOf, Place
    <3>2. k - 14 \in 1 .. 2 /\ (k - 14) + 14 = k
      BY <2>3
    <3> QED
      <4> DEFINE j == k - 14
      <4>1. w[2 + 12 * L + j] = <<GPT2Order.last[j], 0>> /\ GPT2Order.last[j] = GPT2Keys[j + 14]
        BY <1>1, <1>4, <3>2, Zenon
      <4>2. Place(k, i) \in 1 .. Len(w)
        BY <1>3, <3>1, <3>2, LayersAreNat
      <4> QED
        BY <3>1, <3>2, <4>1, <4>2
  <2> QED
    BY <2>1, <2>2, <2>3 DEF KeyOf
<1>6. <<GPT2Keys[k], i>> \in Range(w)
  BY <1>1, <1>5, ItemsOfSeq
<1> QED
  BY <1>3, <1>5, <1>6, Zenon DEF w, Names, OrderOf

LEMMA GPT2NameIs ==
  ASSUME NEW name \in Names("gpt2")
  PROVE  \E k, i : KeyOf(k, i) /\ name = <<GPT2Keys[k], i>>
<1>1. Names("gpt2") = Range(WriteOrder(GPT2Order))
  BY DEF Names, OrderOf
<1>2. \/ \E k \in 1 .. 2 : name = <<GPT2Order.first[k], 0>>
      \/ \E k \in 1 .. 12 : \E i \in Layers : name = <<GPT2Order.layers[k], i>>
      \/ \E k \in 1 .. 2 : name = <<GPT2Order.last[k], 0>>
  BY <1>1, GPT2Places, Zenon DEF OrderLiesSo
<1>3. /\ \A j \in 1 .. 2 : GPT2Order.first[j] = GPT2Keys[j]
      /\ \A j \in 1 .. 12 : GPT2Order.layers[j] = GPT2Keys[j + 2]
      /\ \A j \in 1 .. 2 : GPT2Order.last[j] = GPT2Keys[j + 14]
  BY KeysFollowTheOrder
<1>4. ASSUME NEW k \in 1 .. 2, name = <<GPT2Order.first[k], 0>>
      PROVE  KeyOf(k, 0) /\ name = <<GPT2Keys[k], 0>>
  BY <1>3, <1>4 DEF KeyOf
<1>5. ASSUME NEW k \in 1 .. 12, NEW i \in Layers, name = <<GPT2Order.layers[k], i>>
      PROVE  KeyOf(k + 2, i) /\ name = <<GPT2Keys[k + 2], i>>
  BY <1>3, <1>5 DEF KeyOf
<1>6. ASSUME NEW k \in 1 .. 2, name = <<GPT2Order.last[k], 0>>
      PROVE  KeyOf(k + 14, 0) /\ name = <<GPT2Keys[k + 14], 0>>
  BY <1>3, <1>6 DEF KeyOf
<1> QED
  BY <1>2, <1>4, <1>5, <1>6, Zenon

-----------------------------------------------------------------------------
(***************************************************************************)
(* The .bin file and what the exporter reads of it.                        *)
(***************************************************************************)
\* The padded vocabulary is the next multiple: the code's two ways to say it.
LEMMA PaddedVocabulary == Vp = (V \div PadTo + 1) * PadTo /\ Vp \notin {MaxT, C}
<1> DEFINE q == V \div PadTo
           r == V % PadTo
<1>1. V \in Nat \ {0} /\ PadTo \in Nat \ {0} /\ r # 0
  BY WeightsAssumption
<1>2. q \in Nat /\ r \in Nat /\ r < PadTo /\ V = q * PadTo + r
  <2>1. \A m \in Nat : \A w \in Nat \ {0} :
          m \div w \in Nat /\ m % w \in Nat /\ m % w < w /\ m = (m \div w) * w + (m % w)
    BY SMT
  <2> QED
    BY <1>1, <2>1
<1>3. (q + 1) * PadTo = q * PadTo + PadTo /\ q * PadTo \in Nat
  BY <1>1, <1>2
<1> HIDE DEF q, r
<1>4. V + PadTo - 1 = (q + 1) * PadTo + (r - 1)
  <2> DEFINE a == q * PadTo
             b == (q + 1) * PadTo
  <2>1. V = a + r /\ b = a + PadTo /\ a \in Nat
    BY <1>2, <1>3
  <2> HIDE DEF a, b
  <2>2. V + PadTo - 1 = b + (r - 1)
    BY <1>1, <1>2, <2>1
  <2> QED
    BY <2>2 DEF b
<1>5. r - 1 \in Nat /\ r - 1 < PadTo /\ q + 1 \in Nat
  BY <1>1, <1>2
<1>6. (V + PadTo - 1) \div PadTo = q + 1
  BY <1>1, <1>4, <1>5, DivisionIsUnique
<1>7. Vp = (q + 1) * PadTo
  BY <1>6 DEF Vp
<1>8. (V \div PadTo + 1) * PadTo \notin {L, MaxT, Channels}
  BY WeightsAssumption
<1> QED
  BY <1>7, <1>8 DEF q, C

\* The precision after a cast.
CastTo(dtype, into) == IF into = "bfloat16" THEN into ELSE dtype

LEMMA TensorCast ==
  ASSUME NEW of, NEW n, NEW dtype, NEW s, NEW x, NEW into
  PROVE  Cast(Tensor(of, n, dtype, s, x), into) = Tensor(of, n, CastTo(dtype, into), s, x)
<1> DEFINE t == Tensor(of, n, dtype, s, x)
<1>1. ASSUME NEW d PROVE [t EXCEPT !.dtype = d] = Tensor(of, n, d, s, x)
  BY DEF Tensor
<1>2. t.dtype = dtype
  BY Zenon DEF Tensor
<1> HIDE DEF t
<1>3. Cast(t, into) = [t EXCEPT !.dtype = CastTo(t.dtype, into)]
  BY Zenon DEF Cast, CastTo
<1>4. Cast(t, into) = Tensor(of, n, CastTo(dtype, into), s, x)
  BY <1>1, <1>2, <1>3, Zenon
<1> QED
  BY <1>4 DEF t

LEMMA TensorReshaped ==
  ASSUME NEW of, NEW n, NEW dtype, NEW s, NEW x, NEW u
  PROVE  [Tensor(of, n, dtype, s, x) EXCEPT !.shape = u] = Tensor(of, n, dtype, u, x)
BY DEF Tensor

LEMMA TensorShape ==
  ASSUME NEW of, NEW n, NEW dtype, NEW s, NEW x
  PROVE  Tensor(of, n, dtype, s, x).shape = s
BY DEF Tensor

LEMMA LinearIs ==
  ASSUME NEW name, NEW n
  PROVE  Linear(name, n) = Tensor(name, n, "float32", Shape(name[1]), Straight)
BY Zenon DEF Linear, Tensor, Straight

LEMMA TrainedIs ==
  ASSUME NEW name \in Names("gpt2"), NEW n
  PROVE  TrainedTo(n)[name] = Tensor(name, n, "float32", Shape(name[1]), Straight)
<1>1. TrainedTo(n)[name] = [Imported("gpt2")[name] EXCEPT !.step = n]
  BY Zenon DEF TrainedTo
<1>2. Imported("gpt2")[name] = Tensor(name, 0, "float32", Shape(name[1]), Straight)
  BY GPT2ImportComplete, LinearIs, Zenon
<1>3. [Tensor(name, 0, "float32", Shape(name[1]), Straight) EXCEPT !.step = n]
        = Tensor(name, n, "float32", Shape(name[1]), Straight)
  BY DEF Tensor
<1> QED
  BY <1>1, <1>2, <1>3, Zenon

\* The shape on disk: only the embedding's is padded.
LEMMA WrittenTensor ==
  ASSUME NEW n, NEW dtype, NEW k, NEW i, KeyOf(k, i)
  PROVE  WriteModel("gpt2", TrainedTo(n), dtype, 4 + 12 * L).tensors[Place(k, i)]
           = Tensor(<<GPT2Keys[k], i>>, n, CastTo("float32", dtype), KeyShape(k), Straight)
<1> DEFINE order == WriteOrder(OrderOf("gpt2"))
           total == 4 + 12 * L
           name == <<GPT2Keys[k], i>>
           p == Place(k, i)
           content(j) == LET t == Cast(TrainedTo(n)[order[j]], dtype)
                         IN  IF "gpt2" = "gpt2" /\ order[j][1] = "wte.weight" THEN PadVocab(t) ELSE t
           tensors == WriteModel("gpt2", TrainedTo(n), dtype, total).tensors
           t0 == Tensor(name, n, CastTo("float32", dtype), Shape(GPT2Keys[k]), Straight)
<1>1. p \in 1 .. total /\ order[p] = name /\ name \in Names("gpt2")
  BY KeyPlaces DEF OrderOf
<1>2. tensors = [j \in 1 .. total |-> content(j)]
  BY DEF WriteModel
<1>3. tensors[p] = content(p)
  BY <1>1, <1>2, Zenon
<1>4. Cast(TrainedTo(n)[name], dtype) = t0
  <2>1. name[1] = GPT2Keys[k]
    OBVIOUS
  <2>2. TrainedTo(n)[name] = Tensor(name, n, "float32", Shape(GPT2Keys[k]), Straight)
    BY <1>1, <2>1, TrainedIs
  <2> HIDE DEF name
  <2> QED
    <3>1. Cast(Tensor(name, n, "float32", Shape(GPT2Keys[k]), Straight), dtype) = t0
      BY TensorCast
    <3> QED
      BY <2>2, <3>1, Zenon
<1>5. order[p][1] = GPT2Keys[k]
  BY <1>1
<1>6. k = 1 <=> GPT2Keys[k] = "wte.weight"
  BY KeysAre, KeysAreOnce DEF KeyOf
<1> HIDE DEF order, name, p, tensors, total
<1>7. CASE k = 1
  <2>1. content(p) = PadVocab(t0)
    BY <1>1, <1>4, <1>5, <1>6, <1>7, Zenon
  <2>2. Shape(GPT2Keys[k]) = <<V, C>>
    BY <1>6, <1>7 DEF Shape
  <2>3. t0.shape = <<V, C>>
    BY <2>2, TensorShape
  <2>4. <<Vp, t0.shape[2]>> = <<Vp, C>>
    BY <2>3
  <2>5. PadVocab(t0) = [t0 EXCEPT !.shape = <<Vp, t0.shape[2]>>]
    BY Zenon DEF PadVocab
  <2>6. PadVocab(t0) = [t0 EXCEPT !.shape = <<Vp, C>>]
    BY <2>4, <2>5, Zenon
  <2>7. [t0 EXCEPT !.shape = <<Vp, C>>] = Tensor(name, n, CastTo("float32", dtype), <<Vp, C>>, Straight)
    BY TensorReshaped
  <2>8. KeyShape(k) = <<Vp, C>>
    BY <1>7 DEF KeyShape
  <2>9. tensors[p] = Tensor(name, n, CastTo("float32", dtype), KeyShape(k), Straight)
    BY <1>3, <2>1, <2>6, <2>7, <2>8, Zenon
  <2> QED
    BY <2>9 DEF tensors, name, p, total
<1>8. CASE k # 1
  <2>1. content(p) = t0
    BY <1>1, <1>4, <1>5, <1>6, <1>8, Zenon
  <2>2. KeyShape(k) = Shape(GPT2Keys[k])
    BY <1>8 DEF KeyShape
  <2>3. tensors[p] = Tensor(name, n, CastTo("float32", dtype), KeyShape(k), Straight)
    BY <1>3, <2>1, <2>2, Zenon
  <2> QED
    BY <2>3 DEF tensors, name, p, total
<1> QED
  BY <1>7, <1>8

\* What the exporter makes of a key, before it turns the Conv1D weights.
LEMMA ReadBack ==
  ASSUME NEW n, NEW dtype, NEW k, NEW i, KeyOf(k, i)
  PROVE  LET file == WriteModel("gpt2", TrainedTo(n), dtype, 4 + 12 * L)
         IN  DropPadding(Read(file, k, i), k, file.header)
               = Tensor(<<GPT2Keys[k], i>>, n, CastTo("float32", dtype), Shape(GPT2Keys[k]), Straight)
<1> DEFINE file == WriteModel("gpt2", TrainedTo(n), dtype, 4 + 12 * L)
           name == <<GPT2Keys[k], i>>
           d == CastTo("float32", dtype)
           t == Tensor(name, n, d, KeyShape(k), Straight)
<1>1. file.header = Header(dtype)
  BY DEF WriteModel
<1>2. file.tensors[Place(k, i)] = t
  BY WrittenTensor
<1>3. ReadKinds(file.header)[k][2] = KeyShape(k)
  BY <1>1, ReadsKeys DEF KeyOf
<1>4. t.shape = KeyShape(k)
  BY TensorShape
<1> HIDE DEF file, name, d
<1>5. Read(file, k, i) = t
  BY <1>2, <1>3, <1>4, Zenon DEF Read
<1>6. Header(dtype).Vp = Vp /\ Header(dtype).V = V
  BY DEF Header
<1>7. CASE k = 1
  <2>1. KeyShape(k) = <<Vp, C>> /\ Shape(GPT2Keys[k]) = <<V, C>>
    <3>1. GPT2Keys[k] = "wte.weight"
      BY <1>7, KeysAre
    <3> QED
      BY <1>7, <3>1 DEF KeyShape, Shape
  <2>2. t.shape[1] = Vp /\ <<V, t.shape[2]>> = <<V, C>>
    BY <1>4, <2>1
  <2>3. k \notin 3 .. 14
    BY <1>7
  <2>4. DropPadding(t, k, file.header) = [t EXCEPT !.shape = <<Header(dtype).V, t.shape[2]>>]
    BY <1>1, <1>6, <2>2, <2>3, Zenon DEF DropPadding
  <2>5. DropPadding(t, k, file.header) = [t EXCEPT !.shape = <<V, C>>]
    BY <1>6, <2>2, <2>4, Zenon
  <2>6. [t EXCEPT !.shape = <<V, C>>] = Tensor(name, n, d, <<V, C>>, Straight)
    BY TensorReshaped
  <2>7. DropPadding(Read(file, k, i), k, file.header) = Tensor(name, n, d, Shape(GPT2Keys[k]), Straight)
    BY <1>5, <2>1, <2>5, <2>6, Zenon
  <2> QED
    BY <2>7 DEF file, name, d
<1>8. CASE k # 1
  <2>1. KeyShape(k) = Shape(GPT2Keys[k])
    BY <1>8 DEF KeyShape
  <2>2. k \in 3 .. 14 \/ t.shape[1] # Vp
    <3>1. SUFFICES ASSUME k \in {2, 15, 16} PROVE t.shape[1] # Vp
      BY <1>8 DEF KeyOf
    <3>2. GPT2Keys[k] \in {"wpe.weight", "ln_f.weight", "ln_f.bias"}
      BY <3>1, KeysAre
    <3>3. Shape(GPT2Keys[k]) \in {<<MaxT, C>>, <<C, 1>>}
      BY <3>2 DEF Shape
    <3>4. t.shape[1] \in {MaxT, C}
      BY <1>4, <2>1, <3>3
    <3> QED
      BY <3>4, PaddedVocabulary
  <2>3. DropPadding(t, k, file.header) = t
    BY <1>1, <1>6, <2>2, Zenon DEF DropPadding
  <2>4. DropPadding(Read(file, k, i), k, file.header) = Tensor(name, n, d, Shape(GPT2Keys[k]), Straight)
    BY <1>5, <2>1, <2>3, Zenon
  <2> QED
    BY <2>4 DEF file, name, d
<1> QED
  BY <1>7, <1>8

KeyChosenFor(header, kind) == CHOOSE j \in 1 .. 16 : ReadKinds(header)[j][1] = kind

LEMMA KeyChosen ==
  ASSUME NEW dtype, NEW k \in 1 .. 16
  PROVE  KeyChosenFor(Header(dtype), GPT2Keys[k]) = k
<1> DEFINE P(j) == ReadKinds(Header(dtype))[j][1] = GPT2Keys[k]
<1>1. ASSUME NEW j \in 1 .. 16 PROVE ReadKinds(Header(dtype))[j][1] = GPT2Keys[j]
  BY ReadsKeys
<1>2. P(k)
  BY <1>1
<1>3. \A j \in 1 .. 16 : P(j) => j = k
  BY <1>1, KeysAreOnce
<1> HIDE DEF P
<1>4. (CHOOSE j \in 1 .. 16 : P(j)) = k
  BY <1>2, <1>3, Zenon
<1> QED
  BY <1>4, Zenon DEF P, KeyChosenFor

LEMMA PublishedCast ==
  ASSUME NEW name, NEW n, NEW dtype
  PROVE  LET t == Tensor(name, n, CastTo("float32", dtype), Shape(name[1]), Straight)
         IN  Cast(Published(name, n), dtype) = IF name[1] \in ConvKinds THEN Transposed(t) ELSE t
<1> DEFINE d == CastTo("float32", dtype)
<1>1. PICK a, b \in Nat : Shape(name[1]) = <<a, b>>
  BY ShapeIsAPair
<1> DEFINE t == Tensor(name, n, d, <<a, b>>, Straight)
<1>2. Linear(name, n) = Tensor(name, n, "float32", <<a, b>>, Straight)
  BY <1>1, LinearIs
<1>3. Cast(Linear(name, n), dtype) = t
  BY <1>2, TensorCast
<1>4. Transposed(Linear(name, n)) = Tensor(name, n, "float32", <<b, a>>, Turned)
  BY <1>2, TransposedTwice
<1>5. Cast(Transposed(Linear(name, n)), dtype) = Tensor(name, n, d, <<b, a>>, Turned)
  BY <1>4, TensorCast
<1>6. Transposed(t) = Tensor(name, n, d, <<b, a>>, Turned)
  BY TransposedTwice
<1> HIDE DEF d
<1>7. Cast(Published(name, n), dtype) = IF name[1] \in ConvKinds THEN Transposed(t) ELSE t
  BY <1>3, <1>5, <1>6, Zenon DEF Published
<1> QED
  BY <1>1, <1>7 DEF d

ExportIsRight(n, dtype, tensors) ==
  LET file == WriteModel("gpt2", TrainedTo(n), dtype, tensors)
  IN  /\ ConvertAccepts(file) <=> tensors = TensorCount("gpt2")
      /\ ConvertAccepts(file) =>
           \A out_dtype \in DTypes :
             Convert(file, out_dtype) =
               [name \in Names("gpt2") |-> Cast(Cast(Published(name, n), dtype), out_dtype)]

LEMMA ExportsTheModel ==
  ASSUME NEW n, NEW dtype, NEW tensors \in Nat
  PROVE  ExportIsRight(n, dtype, tensors)
<1> DEFINE file == WriteModel("gpt2", TrainedTo(n), dtype, tensors)
<1>1. Len(file.tensors) = tensors
  <2> DEFINE order == WriteOrder(OrderOf("gpt2"))
             content(j) == LET t == Cast(TrainedTo(n)[order[j]], dtype)
                           IN  IF "gpt2" = "gpt2" /\ order[j][1] = "wte.weight" THEN PadVocab(t) ELSE t
  <2>1. file.tensors = [j \in 1 .. tensors |-> content(j)]
    BY DEF WriteModel
  <2> HIDE DEF content
  <2>2. Len([j \in 1 .. tensors |-> content(j)]) = tensors
    OBVIOUS
  <2> HIDE DEF file
  <2> QED
    BY <2>1, <2>2
<1>2. ConvertAccepts(file) <=> tensors = TensorCount("gpt2")
  BY <1>1, GPT2Count, Zenon DEF ConvertAccepts
<1>3. ASSUME tensors = 4 + 12 * L, NEW out_dtype, NEW name \in Names("gpt2")
      PROVE  Cast(ModelDict(file)[name], out_dtype) = Cast(Cast(Published(name, n), dtype), out_dtype)
  <2>1. PICK k, i : KeyOf(k, i) /\ name = <<GPT2Keys[k], i>>
    BY GPT2NameIs
  <2>2. name[1] = GPT2Keys[k] /\ name[2] = i /\ k \in 1 .. 16
    BY <2>1 DEF KeyOf
  <2>3. file.header = Header(dtype)
    BY DEF WriteModel
  <2> DEFINE t == Tensor(name, n, CastTo("float32", dtype), Shape(name[1]), Straight)
  <2>4. file = WriteModel("gpt2", TrainedTo(n), dtype, 4 + 12 * L)
    BY <1>3
  <2> HIDE DEF file
  <2>5. DropPadding(Read(file, k, i), k, file.header) = t
    <3>1. DropPadding(Read(file, k, i), k, file.header)
            = Tensor(<<GPT2Keys[k], i>>, n, CastTo("float32", dtype), Shape(GPT2Keys[k]), Straight)
      BY <2>1, <2>4, ReadBack, Zenon
    <3> QED
      BY <2>1, <2>2, <3>1, Zenon
  <2>6. KeyChosenFor(file.header, name[1]) = k
    BY <2>2, <2>3, KeyChosen
  <2>7. ModelDict(file)[name] = IF name[1] \in ConvKinds THEN Transposed(t) ELSE t
    <3> DEFINE value(x) ==
          LET j == KeyChosenFor(file.header, x[1])
              u == DropPadding(Read(file, j, x[2]), j, file.header)
          IN  IF x[1] \in ConvKinds THEN Transposed(u) ELSE u
    <3>1. ModelDict(file) = [x \in Names("gpt2") |-> value(x)]
      BY Zenon DEF ModelDict, KeyChosenFor
    <3>2. value(name) = IF name[1] \in ConvKinds THEN Transposed(t) ELSE t
      BY <2>2, <2>5, <2>6, Zenon
    <3> HIDE DEF value, t
    <3> QED
      BY <3>1, <3>2
  <2>8. Cast(Published(name, n), dtype) = IF name[1] \in ConvKinds THEN Transposed(t) ELSE t
    BY PublishedCast, Zenon
  <2> HIDE DEF t
  <2> QED
    BY <2>7, <2>8, Zenon
<1>4. ASSUME tensors = 4 + 12 * L, NEW out_dtype
      PROVE  Convert(file, out_dtype) =
               [name \in Names("gpt2") |-> Cast(Cast(Published(name, n), dtype), out_dtype)]
  <2> HIDE DEF file
  <2> QED
    BY <1>3, <1>4, Zenon DEF Convert
<1>5. ConvertAccepts(file) => tensors = 4 + 12 * L
  BY <1>1 DEF ConvertAccepts
<1>6. ConvertAccepts(file) =>
        \A out_dtype \in DTypes :
          Convert(file, out_dtype) =
            [name \in Names("gpt2") |-> Cast(Cast(Published(name, n), dtype), out_dtype)]
  BY <1>4, <1>5, Zenon
<1> QED
  BY <1>2, <1>6, Zenon DEF ExportIsRight

\* Of a .bin file some number of tensors is on disk, or it does not exist.
WrittenInv == written \in [DTypes -> Nat \cup {-1}]

(***************************************************************************)
(* ExportIsTheModel: the exporter takes the whole files and no others, and *)
(* gives the published form of the weights in them.                        *)
(***************************************************************************)
THEOREM ExportsAreTheModel == Spec => []ExportIsTheModel
<1>1. Init => WrittenInv
  BY DEF Init, WrittenInv
<1>2. WrittenInv /\ [Next]_ckptVars => WrittenInv'
  <2>1. SUFFICES ASSUME WrittenInv, [Next]_ckptVars PROVE WrittenInv'
    OBVIOUS
  <2>2. ASSUME NEW dtype \in DTypes, PythonWrites(dtype) PROVE WrittenInv'
    <3>1. source = "gpt2" \/ TensorCount(source) \in Nat \ {0}
      <4>1. TensorCount("llama3_meta") \in Nat \ {0}
        <5>1. Len(WriteOrder(LlamaOrder)) = 1 + 7 * L + 2
          BY LlamaPlaces DEF OrderLiesSo
        <5>2. TensorCount("llama3_meta") = Len(WriteOrder(LlamaOrder))
          BY DEF TensorCount, OrderOf
        <5> QED
          BY <5>1, <5>2, LayersAreNat
      <4> QED
        BY <4>1, Zenon DEF TensorCount, OrderOf
    <3>2. TensorCount(source) \in Nat \ {0}
      BY <3>1, GPT2Count, LayersAreNat
    <3>3. PICK m \in IF compiled THEN {0} ELSE {1, TensorCount(source) - 1, TensorCount(source)} :
            written' = [written EXCEPT ![dtype] = m]
      BY <2>2 DEF PythonWrites
    <3>4. m \in Nat
      BY <3>2, <3>3
    <3> QED
      BY <2>1, <3>3, <3>4 DEF WrittenInv
  <2>3. CASE UNCHANGED written
    BY <2>1, <2>3 DEF WrittenInv
  <2>4. (\E dtype \in DTypes : PythonWrites(dtype)) \/ UNCHANGED written
    BY <2>1 DEF Next, ckptVars, importVars, StartAfresh, Resume, RankNext, Loop, WriteModelFile,
                SaveState, Barrier, WriteDone, DeleteModel, DeleteState, DeleteDone, TrainStep, Crash
  <2> QED
    BY <2>2, <2>3, <2>4
<1>3. WrittenInv => ExportIsTheModel
  <2>1. SUFFICES ASSUME WrittenInv, NEW f \in FilesOnDisk
                 PROVE  ExportIsRight(f.n, f.dtype, f.tensors)
    BY Zenon DEF ExportIsTheModel, ExportIsRight
  <2>2. f.tensors \in Nat
    <3>1. TensorCount("gpt2") \in Nat \ {0}
      BY GPT2Count, LayersAreNat
    <3>2. CASE f \in {[n |-> 0, dtype |-> dtype, tensors |-> written[dtype]] : dtype \in {d \in DTypes : written[d] # -1}}
      <4>1. PICK dtype \in DTypes : written[dtype] # -1 /\ f = [n |-> 0, dtype |-> dtype, tensors |-> written[dtype]]
        BY <3>2
      <4> QED
        BY <2>1, <4>1 DEF WrittenInv
    <3>3. CASE f \in {[n |-> Len(models[k].weights), dtype |-> args.precision,
                       tensors |-> TensorCount("gpt2") - (IF models[k].whole THEN 0 ELSE 1)] : k \in DOMAIN models}
      <4>1. PICK k \in DOMAIN models :
              f = [n |-> Len(models[k].weights), dtype |-> args.precision,
                   tensors |-> TensorCount("gpt2") - (IF models[k].whole THEN 0 ELSE 1)]
        BY <3>3
      <4>2. f.tensors = TensorCount("gpt2") - (IF models[k].whole THEN 0 ELSE 1)
        BY <4>1
      <4>3. (IF models[k].whole THEN 0 ELSE 1) \in {0, 1}
        BY Zenon
      <4> QED
        BY <3>1, <4>2, <4>3
    <3> QED
      BY <2>1, <3>2, <3>3, Zenon DEF FilesOnDisk
  <2> QED
    BY <2>2, ExportsTheModel
<1> QED
  BY <1>1, <1>2, <1>3, PTL DEF Spec

-----------------------------------------------------------------------------
(***************************************************************************)
(* Multiple-choice evaluation.  First the file: where the words of an      *)
(* example are in its part of the stream, and where that part is.          *)
(***************************************************************************)
Words(e) == [k \in DOMAIN e.endings |-> <<Len(e.endings[k])>> \o e.endings[k]]
EndingPlace(e, k) == Len(FlattenFirst(Words(e), k - 1))

LEMMA ExampleParts ==
  ASSUME NEW e \in Examples
  PROVE  /\ e.ctx \in Seq(Nat) /\ Len(e.ctx) \in Nat \ {0} /\ e.label \in Nat
         /\ DOMAIN e.endings = 1 .. NumCompletions
         /\ \A k \in 1 .. NumCompletions : e.endings[k] \in Seq(Nat) /\ Len(e.endings[k]) \in Nat \ {0}
<1>1. /\ e.ctx \in Seq(Nat) \ {<< >>} /\ e.label \in 0 .. NumCompletions - 1
      /\ e.endings \in Seq(Seq(Nat) \ {<< >>}) /\ Len(e.endings) = NumCompletions
  BY EvaluationAssumption
<1>2. \A s \in Seq(Nat) \ {<< >>} : Len(s) \in Nat \ {0}
  OBVIOUS
<1> DEFINE x == e.endings
           c == e.ctx
           m == e.label
<1>3. c \in Seq(Nat) \ {<< >>} /\ m \in 0 .. NumCompletions - 1 /\ x \in Seq(Seq(Nat) \ {<< >>}) /\ Len(x) = NumCompletions
  BY <1>1
<1> HIDE DEF x, c, m
<1>4. DOMAIN x = 1 .. NumCompletions /\ \A k \in 1 .. NumCompletions : x[k] \in Seq(Nat) \ {<< >>}
  BY <1>3
<1>5. m \in Nat
  BY <1>3, EvaluationAssumption
<1> QED
  BY <1>2, <1>3, <1>4, <1>5 DEF x, c, m

LEMMA WordsOf ==
  ASSUME NEW e \in Examples
  PROVE  /\ Words(e) \in Seq(Seq(Nat)) /\ Len(Words(e)) = NumCompletions
         /\ \A k \in 1 .. NumCompletions :
              /\ Len(Words(e)[k]) = 1 + Len(e.endings[k]) /\ Words(e)[k][1] = Len(e.endings[k])
              /\ \A j \in 1 .. Len(e.endings[k]) : Words(e)[k][1 + j] = e.endings[k][j]
<1>1. NumCompletions \in Nat
  BY EvaluationAssumption
<1>2. Words(e) = [k \in 1 .. NumCompletions |-> <<Len(e.endings[k])>> \o e.endings[k]]
  BY ExampleParts, Zenon DEF Words
<1>3. ASSUME NEW k \in 1 .. NumCompletions
      PROVE  /\ Words(e)[k] \in Seq(Nat)
             /\ Len(Words(e)[k]) = 1 + Len(e.endings[k]) /\ Words(e)[k][1] = Len(e.endings[k])
             /\ \A j \in 1 .. Len(e.endings[k]) : Words(e)[k][1 + j] = e.endings[k][j]
  <2> DEFINE x == e.endings[k]
             w == Words(e)[k]
  <2>1. x \in Seq(Nat) /\ Len(x) \in Nat \ {0}
    BY ExampleParts
  <2>2. w = <<Len(x)>> \o x
    BY <1>2, Zenon
  <2> HIDE DEF x, w
  <2>3. w \in Seq(Nat) /\ Len(w) = 1 + Len(x) /\ w[1] = Len(x) /\ \A j \in 1 .. Len(x) : w[1 + j] = x[j]
    <3>1. <<Len(x)>> \in Seq(Nat) /\ Len(<<Len(x)>>) = 1 /\ <<Len(x)>>[1] = Len(x)
      BY <2>1
    <3> DEFINE a == <<Len(x)>>
    <3> HIDE DEF a
    <3>2. /\ a \o x \in Seq(Nat) /\ Len(a \o x) = Len(a) + Len(x)
          /\ \A i \in 1 .. Len(a) + Len(x) : (a \o x)[i] = IF i <= Len(a) THEN a[i] ELSE x[i - Len(a)]
      BY <2>1, <3>1, ConcatProperties DEF a
    <3>3. Len(a) = 1 /\ a[1] = Len(x) /\ w = a \o x
      BY <2>2, <3>1 DEF a
    <3> QED
      BY <2>1, <3>2, <3>3
  <2> QED
    BY <2>3 DEF x, w
<1>4. Words(e) \in Seq(Seq(Nat)) /\ Len(Words(e)) = NumCompletions
  <2> DEFINE f == Words(e)
  <2>1. f = [k \in 1 .. NumCompletions |-> f[k]]
    BY <1>2
  <2>2. \A k \in 1 .. NumCompletions : f[k] \in Seq(Nat)
    BY <1>3
  <2> HIDE DEF f
  <2> QED
    BY <1>1, <2>1, <2>2 DEF f
<1> QED
  BY <1>3, <1>4

\* All first sequences are all sequences.
LEMMA FlattenFirstAll ==
  ASSUME NEW E, NEW seqs \in Seq(E)
  PROVE  FlattenFirst(seqs, Len(seqs)) = FlattenSeq(seqs)
<1>1. [i \in 1 .. Len(seqs) |-> seqs[i]] = seqs
  OBVIOUS
<1> QED
  BY <1>1, Zenon DEF FlattenFirst

\* The words of the endings, and where each ending is among them.
EndingsLie(e) ==
  /\ FlattenSeq(Words(e)) \in Seq(Nat)
  /\ EndingPlace(e, 1) = 0
  /\ \A k \in 1 .. NumCompletions :
       /\ EndingPlace(e, k) \in Nat
       /\ EndingPlace(e, k) + 1 + Len(e.endings[k]) <= Len(FlattenSeq(Words(e)))
       /\ FlattenSeq(Words(e))[EndingPlace(e, k) + 1] = Len(e.endings[k])
       /\ \A j \in 1 .. Len(e.endings[k]) :
            FlattenSeq(Words(e))[EndingPlace(e, k) + 1 + j] = e.endings[k][j]
       /\ EndingPlace(e, k + 1) = EndingPlace(e, k) + 1 + Len(e.endings[k])

LEMMA EndingsOf ==
  ASSUME NEW e \in Examples
  PROVE  EndingsLie(e)
<1> DEFINE w == Words(e)
           n == NumCompletions
           tail == FlattenSeq(w)
           first(k) == FlattenFirst(w, k)
<1>0. n \in Nat \ {0} /\ \A k \in 1 .. n : Len(e.endings[k]) \in Nat \ {0}
  BY EvaluationAssumption, ExampleParts, Zenon
<1>1. /\ w \in Seq(Seq(Nat)) /\ Len(w) = n
      /\ \A k \in 1 .. n : /\ Len(w[k]) = 1 + Len(e.endings[k]) /\ w[k][1] = Len(e.endings[k])
                           /\ \A j \in 1 .. Len(e.endings[k]) : w[k][1 + j] = e.endings[k][j]
  BY WordsOf
<1>2. \A k : EndingPlace(e, k) = Len(first(k - 1))
  BY DEF EndingPlace
<1> HIDE DEF w, n
<1>3. /\ first(0) = << >> /\ \A k \in 0 .. n : first(k) \in Seq(Nat)
      /\ \A k \in 0 .. n - 1 : first(k + 1) = first(k) \o w[k + 1]
  BY <1>1, FlattenFirstStep, Zenon
<1>4. tail = first(n)
  BY <1>1, FlattenFirstAll
<1>5. \A i \in 1 .. n : \A j \in 1 .. Len(w[i]) :
        /\ Len(first(i - 1)) + j \in 1 .. Len(first(n)) /\ first(n)[Len(first(i - 1)) + j] = w[i][j]
  <2>1. FlattenPlacesUpTo(w, n)
    BY <1>0, <1>1, FlattenPlaces
  <2> QED
    BY <2>1 DEF FlattenPlacesUpTo
<1> HIDE DEF tail, first
<1>6. ASSUME NEW k \in 1 .. n
      PROVE  /\ EndingPlace(e, k) \in Nat
             /\ EndingPlace(e, k) + 1 + Len(e.endings[k]) <= Len(tail)
             /\ tail[EndingPlace(e, k) + 1] = Len(e.endings[k])
             /\ \A j \in 1 .. Len(e.endings[k]) : tail[EndingPlace(e, k) + 1 + j] = e.endings[k][j]
             /\ EndingPlace(e, k + 1) = EndingPlace(e, k) + 1 + Len(e.endings[k])
  <2> DEFINE p == EndingPlace(e, k)
             m == Len(e.endings[k])
  <2>1. p \in Nat /\ p = Len(first(k - 1))
    <3>1. k - 1 \in 0 .. n
      BY <1>0
    <3> QED
      BY <3>1, <1>2, <1>3
  <2>2. m \in Nat \ {0} /\ Len(w[k]) = 1 + m /\ w[k][1] = m /\ \A j \in 1 .. m : w[k][1 + j] = e.endings[k][j]
    BY <1>0, <1>1
  <2>3. \A j \in 1 .. 1 + m : p + j \in 1 .. Len(tail) /\ tail[p + j] = w[k][j]
    BY <1>4, <1>5, <2>1, <2>2
  <2>4. EndingPlace(e, k + 1) = p + 1 + m
    <3>1. k - 1 \in 0 .. n - 1 /\ k - 1 \in 0 .. n /\ k - 1 + 1 = k /\ k + 1 - 1 = k
      <4>1. n \in Nat /\ k \in 1 .. n
        BY <1>0
      <4> HIDE DEF n
      <4> QED
        BY <4>1
    <3>2. first(k) = first(k - 1) \o w[k] /\ first(k - 1) \in Seq(Nat) /\ w[k] \in Seq(Nat)
      <4> DEFINE q == k - 1
      <4>1. q \in 0 .. n - 1 /\ q \in 0 .. n /\ q + 1 = k
        BY <3>1
      <4>2. w[k] \in Seq(Nat)
        BY <1>1
      <4> HIDE DEF q
      <4>3. first(q + 1) = first(q) \o w[q + 1] /\ first(q) \in Seq(Nat)
        BY <1>3, <4>1
      <4> QED
        BY <4>1, <4>2, <4>3, Zenon DEF q
    <3>3. Len(first(k)) = Len(first(k - 1)) + Len(w[k])
      BY <3>2
    <3>4. EndingPlace(e, k + 1) = Len(first(k))
      BY <1>2, <3>1
    <3>5. Len(first(k)) = p + (1 + m)
      BY <2>1, <2>2, <3>3
    <3> HIDE DEF p, m
    <3>6. p + (1 + m) = p + 1 + m
      BY <2>1, <2>2
    <3> QED
      BY <3>4, <3>5, <3>6
  <2> HIDE DEF p, m
  <2>5. p + 1 + m <= Len(tail) /\ tail[p + 1] = m /\ \A j \in 1 .. m : tail[p + 1 + j] = e.endings[k][j]
    <3>1. p + (1 + m) \in 1 .. Len(tail)
      BY <2>2, <2>3
    <3>2. tail[p + 1] = m
      BY <2>2, <2>3
    <3>3. ASSUME NEW j \in 1 .. m PROVE tail[p + 1 + j] = e.endings[k][j]
      <4>1. 1 + j \in 1 .. 1 + m /\ p + (1 + j) = p + 1 + j
        BY <2>1, <2>2
      <4> QED
        BY <2>2, <2>3, <4>1
    <3> QED
      BY <2>1, <2>2, <3>1, <3>2, <3>3
  <2> QED
    BY <2>1, <2>4, <2>5, Zenon DEF p, m
<1>7. EndingPlace(e, 1) = 0
  <2>1. first(1 - 1) = << >>
    BY <1>3
  <2> QED
    BY <1>2, <2>1
<1>8. tail \in Seq(Nat)
  BY <1>0, <1>3, <1>4
<1> QED
  BY <1>6, <1>7, <1>8, Zenon DEF EndingsLie, tail, n, w
-----------------------------------------------------------------------------
\* x begins with the m words of a and goes on with those of b.
Joins(x, a, b, m) ==
  /\ x \in Seq(Nat) /\ Len(x) = m + Len(b)
  /\ \A i \in 1 .. m : x[i] = a[i]
  /\ \A j \in 1 .. Len(b) : x[m + j] = b[j]

LEMMA CatJoins ==
  ASSUME NEW a \in Seq(Nat), NEW b \in Seq(Nat), NEW m \in Nat, Len(a) = m
  PROVE  Joins(a \o b, a, b, m)
<1>1. /\ a \o b \in Seq(Nat) /\ Len(a \o b) = Len(a) + Len(b)
      /\ \A i \in 1 .. Len(a) + Len(b) : (a \o b)[i] = IF i <= Len(a) THEN a[i] ELSE b[i - Len(a)]
  BY ConcatProperties, Zenon
<1> DEFINE c == a \o b
           n == Len(b)
<1>2. n \in Nat
  OBVIOUS
<1> HIDE DEF c, n
<1>3. /\ c \in Seq(Nat) /\ Len(c) = m + n
      /\ \A i \in 1 .. m + n : c[i] = IF i <= m THEN a[i] ELSE b[i - m]
  BY <1>1 DEF c, n
<1>4. \A i \in 1 .. m : c[i] = a[i]
  BY <1>2, <1>3
<1>5. \A j \in 1 .. n : c[m + j] = b[j]
  <2>1. \A j \in 1 .. n : m + j \in 1 .. m + n /\ ~ (m + j <= m) /\ (m + j) - m = j
    BY <1>2
  <2> QED
    BY <1>3, <2>1
<1> QED
  BY <1>3, <1>4, <1>5, Zenon DEF Joins, c, n

LEMMA StreamOfExample ==
  ASSUME NEW e \in Examples, NEW idx \in Nat
  PROVE  LET s == ExampleStream(idx, e)
             n == Len(e.ctx)
             tail == FlattenSeq(Words(e))
         IN  /\ s \in Seq(Nat) /\ Len(s) = 6 + n + Len(tail) /\ s[2] = 2 * Len(s)
             /\ s[4] = e.label /\ s[6] = n
             /\ \A j \in 1 .. n : s[6 + j] = e.ctx[j]
             /\ \A j \in 1 .. Len(tail) : s[6 + n + j] = tail[j]
<1> DEFINE s == ExampleStream(idx, e)
           c == e.ctx
           n == Len(c)
           tail == FlattenSeq(Words(e))
           head == <<idx, e.label, NumCompletions, n>>
           body == head \o c \o tail
           first == <<StartExample, 2 * (Len(body) + 2)>>
<1>1. s = first \o body
  BY Zenon DEF ExampleStream, Words
<1>2. head \in Seq(Nat) /\ Len(head) = 4 /\ head[2] = e.label /\ head[4] = n
  BY ExampleParts, EvaluationAssumption
<1>3. c \in Seq(Nat) /\ n \in Nat
  BY ExampleParts
<1>4. tail \in Seq(Nat) /\ Len(tail) \in Nat
  <2>1. tail \in Seq(Nat)
    BY EndingsOf DEF EndingsLie
  <2> HIDE DEF tail
  <2> QED
    BY <2>1
<1>5. n = Len(c)
  OBVIOUS
<1> HIDE DEF head, c, tail, n
<1> DEFINE hc == head \o c
<1>6. /\ hc \in Seq(Nat) /\ Len(hc) = 4 + n
      /\ \A i \in 1 .. 4 : hc[i] = head[i]
      /\ \A j \in 1 .. n : hc[4 + j] = c[j]
  <2>1. Joins(hc, head, c, 4)
    BY <1>2, <1>3, CatJoins, Zenon
  <2> QED
    BY <1>5, <2>1, Zenon DEF Joins
<1> HIDE DEF hc
<1> DEFINE m == 4 + n
<1>7. /\ body \in Seq(Nat) /\ Len(body) = m + Len(tail)
      /\ \A i \in 1 .. m : body[i] = hc[i]
      /\ \A j \in 1 .. Len(tail) : body[m + j] = tail[j]
  <2>1. body = hc \o tail
    BY DEF hc
  <2>2. m \in Nat
    BY <1>3
  <2> HIDE DEF body, m
  <2>3. Joins(hc \o tail, hc, tail, m)
    <3>1. hc \in Seq(Nat) /\ tail \in Seq(Nat) /\ Len(hc) = m
      BY <1>4, <1>6 DEF m
    <3> QED
      BY <2>2, <3>1, CatJoins
  <2> QED
    BY <2>1, <2>3, Zenon DEF Joins
<1> HIDE DEF body
<1>8. first \in Seq(Nat) /\ Len(first) = 2 /\ first[2] = 2 * (Len(body) + 2)
  BY <1>3, <1>4, <1>7 DEF StartExample
<1> HIDE DEF first
<1>9. /\ s \in Seq(Nat) /\ Len(s) = 2 + Len(body)
      /\ \A i \in 1 .. 2 : s[i] = first[i]
      /\ \A j \in 1 .. Len(body) : s[2 + j] = body[j]
  <2>1. Joins(first \o body, first, body, 2)
    BY <1>7, <1>8, CatJoins, Zenon
  <2> QED
    BY <1>1, <2>1, Zenon DEF Joins
<1> HIDE DEF s
<1>10. Len(s) = 6 + n + Len(tail)
  BY <1>3, <1>4, <1>7, <1>9
<1>11. s[2] = 2 * Len(s)
  BY <1>3, <1>4, <1>7, <1>8, <1>9
<1>12. \A i \in 1 .. 4 : s[2 + i] = head[i]
  <2>1. ASSUME NEW i \in 1 .. 4 PROVE s[2 + i] = head[i]
    <3>1. i \in 1 .. m /\ i \in 1 .. Len(body)
      BY <1>3, <1>4, <1>7
    <3> QED
      BY <1>6, <1>7, <1>9, <3>1, Zenon
  <2> QED
    BY <2>1
<1>13. s[4] = e.label /\ s[6] = n
  BY <1>2, <1>12
<1>14. ASSUME NEW j \in 1 .. n PROVE s[6 + j] = c[j]
  <2>1. 4 + j \in 1 .. m /\ 4 + j \in 1 .. Len(body) /\ 6 + j = 2 + (4 + j)
    BY <1>3, <1>4, <1>7
  <2>2. s[2 + (4 + j)] = body[4 + j]
    BY <1>9, <2>1, Zenon
  <2>3. body[4 + j] = hc[4 + j]
    BY <1>7, <2>1
  <2> QED
    BY <1>6, <2>1, <2>2, <2>3
<1>15. ASSUME NEW j \in 1 .. Len(tail) PROVE s[6 + n + j] = tail[j]
  <2>1. m + j \in 1 .. Len(body) /\ 6 + n + j = 2 + (m + j)
    BY <1>3, <1>4, <1>7
  <2>2. s[2 + (m + j)] = body[m + j]
    BY <1>9, <2>1, Zenon
  <2> QED
    BY <1>7, <2>1, <2>2
<1> QED
  BY <1>9, <1>10, <1>11, <1>13, <1>14, <1>15, Zenon DEF s, n, tail, c

\* The file: the example after the first i begins at ExampleAt.
Streams(datas) == [i \in DOMAIN datas |-> ExampleStream(i - 1, datas[i])]
ExampleAt(datas, i) == Len(FlattenFirst(Streams(datas), i)) + 1
Stream(datas) == FlattenSeq(Streams(datas))

LEMMA FileIs ==
  \A datas : /\ WriteEvalFile(datas).num_examples = Len(datas)
             /\ WriteEvalFile(datas).stream = Stream(datas)
BY Zenon DEF WriteEvalFile, Stream, Streams

\* The example after the first i is there word by word.
ExampleLies(datas, i) ==
  LET s == ExampleStream(i, datas[i + 1])
  IN  /\ ExampleAt(datas, i + 1) = ExampleAt(datas, i) + Len(s)
      /\ \A j \in 1 .. Len(s) :
           /\ ExampleAt(datas, i) + j - 1 \in DOMAIN Stream(datas)
           /\ Stream(datas)[ExampleAt(datas, i) + j - 1] = s[j]

LEMMA PlacesInStream ==
  ASSUME NEW n \in Nat \ {0}, NEW datas \in [1 .. n -> Examples]
  PROVE  /\ Len(datas) = n
         /\ Stream(datas) \in Seq(Nat)
         /\ ExampleAt(datas, 0) = 1 /\ ExampleAt(datas, n) = Len(Stream(datas)) + 1
         /\ \A i \in 0 .. n : ExampleAt(datas, i) \in Nat \ {0}
         /\ \A i \in 0 .. n - 1 : ExampleLies(datas, i)
<1> DEFINE w == Streams(datas)
           first(i) == FlattenFirst(w, i)
<1>1. w = [i \in 1 .. n |-> ExampleStream(i - 1, datas[i])]
  BY Zenon DEF Streams
<1>2. \A i \in 1 .. n : w[i] = ExampleStream(i - 1, datas[i]) /\ w[i] \in Seq(Nat)
  <2>1. ASSUME NEW i \in 1 .. n PROVE w[i] = ExampleStream(i - 1, datas[i]) /\ w[i] \in Seq(Nat)
    <3>1. i - 1 \in Nat /\ datas[i] \in Examples
      OBVIOUS
    <3>2. ExampleStream(i - 1, datas[i]) \in Seq(Nat)
      BY <3>1, StreamOfExample
    <3>3. w[i] = ExampleStream(i - 1, datas[i])
      BY <1>1
    <3> QED
      BY <3>2, <3>3
  <2> QED
    BY <2>1
<1>3. w = [i \in 1 .. n |-> w[i]]
  BY <1>1
<1> HIDE DEF w
<1>4. w \in Seq(Seq(Nat)) /\ Len(w) = n
  BY <1>2, <1>3
<1>5. /\ first(0) = << >> /\ \A i \in 0 .. n : first(i) \in Seq(Nat)
      /\ \A i \in 0 .. n - 1 : first(i + 1) = first(i) \o w[i + 1]
  BY <1>4, FlattenFirstStep, Zenon
<1>6. first(n) = Stream(datas)
  BY <1>4, FlattenFirstAll DEF Stream, w
<1>7. \A i \in 1 .. n : \A j \in 1 .. Len(w[i]) :
        /\ Len(first(i - 1)) + j \in 1 .. Len(first(n)) /\ first(n)[Len(first(i - 1)) + j] = w[i][j]
  <2>1. FlattenPlacesUpTo(w, n)
    BY <1>4, FlattenPlaces
  <2> QED
    BY <2>1 DEF FlattenPlacesUpTo
<1>8. \A i : ExampleAt(datas, i) = Len(first(i)) + 1
  BY DEF ExampleAt, w
<1> HIDE DEF first
<1>9. \A i \in 0 .. n : Len(first(i)) \in Nat
  BY <1>5
<1>10. ASSUME NEW i \in 0 .. n - 1
       PROVE  ExampleLies(datas, i)
  <2> DEFINE s == ExampleStream(i, datas[i + 1])
             p == ExampleAt(datas, i)
             q == Len(first(i))
  <2>1. i + 1 \in 1 .. n /\ i + 1 - 1 = i /\ i \in 0 .. n
    OBVIOUS
  <2>2. s = w[i + 1] /\ s \in Seq(Nat)
    BY <1>2, <2>1
  <2>3. q \in Nat /\ p = q + 1
    BY <1>8, <1>9, <2>1
  <2>4. ExampleAt(datas, i + 1) = Len(first(i + 1)) + 1
    BY <1>8
  <2>5. first(i + 1) = first(i) \o s /\ first(i) \in Seq(Nat)
    BY <1>5, <2>1, <2>2, Zenon
  <2>6. \A j \in 1 .. Len(s) : q + j \in 1 .. Len(Stream(datas)) /\ Stream(datas)[q + j] = s[j]
    BY <1>6, <1>7, <2>1, <2>2
  <2>7. Stream(datas) \in Seq(Nat)
    BY <1>5, <1>6, <2>1
  <2> HIDE DEF s, p
  <2>8. Len(first(i + 1)) = q + Len(s)
    BY <2>2, <2>5
  <2> HIDE DEF q
  <2>9. ExampleAt(datas, i + 1) = p + Len(s)
    <3>1. Len(s) \in Nat
      BY <2>2
    <3>2. q + Len(s) + 1 = p + Len(s)
      BY <2>3, <3>1
    <3> QED
      BY <2>4, <2>8, <3>2
  <2>10. ASSUME NEW j \in 1 .. Len(s)
         PROVE  p + j - 1 \in DOMAIN Stream(datas) /\ Stream(datas)[p + j - 1] = s[j]
    <3>1. p + j - 1 = q + j
      BY <2>2, <2>3
    <3> QED
      BY <2>6, <2>7, <3>1
  <2> QED
    BY <2>9, <2>10 DEF s, p, ExampleLies
<1>11. ExampleAt(datas, 0) = 1 /\ ExampleAt(datas, n) = Len(Stream(datas)) + 1
  BY <1>5, <1>6, <1>8
<1>12. \A i \in 0 .. n : ExampleAt(datas, i) \in Nat \ {0}
  BY <1>8, <1>9
<1>13. Stream(datas) \in Seq(Nat) /\ Len(datas) = n
  BY <1>5, <1>6
<1> QED
  BY <1>10, <1>11, <1>12, <1>13

LEMMA SliceIs ==
  ASSUME NEW x, NEW p \in Nat, NEW c \in Seq(Nat), \A j \in 1 .. Len(c) : x[p + j] = c[j]
  PROVE  SubSeq(x, p + 1, p + Len(c)) = c
<1> DEFINE m == Len(c)
           y == SubSeq(x, p + 1, p + m)
<1>1. m \in Nat
  OBVIOUS
<1>2. \A i \in p + 1 .. p + m : x[i] \in Nat
  <2>1. ASSUME NEW i \in p + 1 .. p + m PROVE x[i] \in Nat
    <3>1. i - p \in 1 .. m /\ p + (i - p) = i
      BY <1>1
    <3>2. x[p + (i - p)] = c[i - p] /\ c[i - p] \in Nat
      BY <3>1
    <3> QED
      BY <3>1, <3>2
  <2> QED
    BY <2>1
<1>3. /\ y \in Seq(Nat) /\ Len(y) = IF p + 1 <= p + m THEN p + m - (p + 1) + 1 ELSE 0
      /\ \A i \in 1 .. p + m - (p + 1) + 1 : y[i] = x[p + 1 + i - 1]
  <2> DEFINE a == p + 1
             b == p + m
  <2>1. a \in Int /\ b \in Int /\ \A i \in a .. b : x[i] \in Nat
    BY <1>1, <1>2
  <2> HIDE DEF a, b
  <2>2. /\ SubSeq(x, a, b) \in Seq(Nat) /\ Len(SubSeq(x, a, b)) = IF a <= b THEN b - a + 1 ELSE 0
        /\ \A i \in 1 .. b - a + 1 : SubSeq(x, a, b)[i] = x[a + i - 1]
    BY <2>1, SubSeqProperties
  <2> QED
    BY <2>2 DEF a, b
<1> HIDE DEF y
<1>4. Len(y) = m
  BY <1>1, <1>3
<1>5. ASSUME NEW i \in 1 .. m PROVE y[i] = c[i]
  <2>1. i \in 1 .. p + m - (p + 1) + 1 /\ p + 1 + i - 1 = p + i
    BY <1>1
  <2>2. y[i] = x[p + i]
    BY <1>3, <2>1, Zenon
  <2> QED
    BY <2>2
<1>6. y = c
  <2>1. y \in Seq(Nat) /\ c \in Seq(Nat) /\ Len(y) = Len(c) /\ \A i \in 1 .. Len(y) : y[i] = c[i]
    BY <1>3, <1>4, <1>5
  <2> QED
    BY <2>1, SeqEqual, Zenon
<1> QED
  BY <1>6 DEF y

\* What evalloader_next_example_ reads is what was written.
ReadsIt(datas, i) ==
  LET r == ReadExample(Stream(datas), ExampleAt(datas, i))
      e == datas[i + 1]
  IN  r.label = e.label /\ r.ctx = e.ctx /\ r.endings = [k \in 1 .. NumCompletions |-> e.endings[k]]

LEMMA ReadsTheExample ==
  ASSUME NEW n \in Nat \ {0}, NEW datas \in [1 .. n -> Examples], NEW i \in 0 .. n - 1
  PROVE  ReadsIt(datas, i)
<1> DEFINE e == datas[i + 1]
           at == ExampleAt(datas, i)
           x == Stream(datas)
           s == ExampleStream(i, e)
           tail == FlattenSeq(Words(e))
           n0 == Len(e.ctx)
           N == NumCompletions
           place(k) == EndingPlace(e, k)
           iterates(f) == f = [k \in 1 .. N |-> IF k = 1 THEN at + 6 + x[at + 5]
                                                ELSE f[k - 1] + 1 + x[f[k - 1]]]
           iter == CHOOSE f : iterates(f)
           read == ReadExample(x, at)
<1>1. /\ read.label = x[at + 3]
      /\ read.ctx = SubSeq(x, at + 6, at + 5 + x[at + 5])
      /\ read.endings = [k \in 1 .. N |-> SubSeq(x, iter[k] + 1, iter[k] + x[iter[k]])]
  BY Zenon DEF ReadExample
<1>2. e \in Examples /\ i \in Nat /\ N \in Nat \ {0}
  BY EvaluationAssumption
<1>3. /\ s \in Seq(Nat) /\ Len(s) = 6 + n0 + Len(tail) /\ s[4] = e.label /\ s[6] = n0
      /\ \A j \in 1 .. n0 : s[6 + j] = e.ctx[j]
      /\ \A j \in 1 .. Len(tail) : s[6 + n0 + j] = tail[j]
  BY <1>2, StreamOfExample, Zenon
<1>4. /\ at \in Nat \ {0} /\ x \in Seq(Nat)
      /\ \A j \in 1 .. Len(s) : at + j - 1 \in DOMAIN x /\ x[at + j - 1] = s[j]
  <2>1. ExampleLies(datas, i) /\ i \in 0 .. n
    BY PlacesInStream
  <2>2. at \in Nat \ {0} /\ x \in Seq(Nat)
    BY <2>1, PlacesInStream
  <2> QED
    BY <2>1, <2>2 DEF ExampleLies
<1>5. /\ e.ctx \in Seq(Nat) /\ n0 \in Nat \ {0}
      /\ \A k \in 1 .. N : e.endings[k] \in Seq(Nat) /\ Len(e.endings[k]) \in Nat \ {0}
  BY <1>2, ExampleParts, Zenon
<1>6. /\ tail \in Seq(Nat) /\ Len(tail) \in Nat /\ place(1) = 0
      /\ \A k \in 1 .. N : /\ place(k) \in Nat /\ place(k) + 1 + Len(e.endings[k]) <= Len(tail)
                           /\ tail[place(k) + 1] = Len(e.endings[k])
                           /\ \A j \in 1 .. Len(e.endings[k]) : tail[place(k) + 1 + j] = e.endings[k][j]
                           /\ place(k + 1) = place(k) + 1 + Len(e.endings[k])
  <2>1. EndingsLie(e)
    BY <1>2, EndingsOf
  <2>2. /\ tail \in Seq(Nat) /\ place(1) = 0
        /\ \A k \in 1 .. N : /\ place(k) \in Nat /\ place(k) + 1 + Len(e.endings[k]) <= Len(tail)
                             /\ tail[place(k) + 1] = Len(e.endings[k])
                             /\ \A j \in 1 .. Len(e.endings[k]) : tail[place(k) + 1 + j] = e.endings[k][j]
                             /\ place(k + 1) = place(k) + 1 + Len(e.endings[k])
    BY <2>1, Zenon DEF EndingsLie
  <2> HIDE DEF tail
  <2>3. Len(tail) \in Nat
    BY <2>2
  <2> QED
    BY <2>2, <2>3
<1>0. n0 = Len(e.ctx)
  OBVIOUS
<1> HIDE DEF at, x, s, tail, N, place, read, n0, e, iter
\* A word of the example, counted from the one at its place.
<1>7. ASSUME NEW j \in Nat, j + 1 \in 1 .. Len(s) PROVE x[at + j] = s[j + 1] /\ at + j \in DOMAIN x
  <2>1. at + (j + 1) - 1 = at + j
    BY <1>4, <1>7
  <2> QED
    BY <1>4, <1>7, <2>1
<1>8. x[at + 3] = e.label /\ x[at + 5] = n0
  <2>1. 3 + 1 \in 1 .. Len(s) /\ 5 + 1 \in 1 .. Len(s)
    BY <1>3, <1>5, <1>6
  <2>2. x[at + 3] = s[3 + 1] /\ x[at + 5] = s[5 + 1]
    BY <1>7, <2>1
  <2> QED
    BY <1>3, <2>2
<1> DEFINE size == Len(s)
           rest == Len(tail)
<1>30. at \in Nat /\ n0 \in Nat /\ rest \in Nat /\ size = 6 + n0 + rest
  BY <1>3, <1>4, <1>5, <1>6
<1> HIDE DEF size, rest
<1>9. \A j \in 1 .. n0 : x[at + 5 + j] = e.ctx[j]
  <2>1. ASSUME NEW j \in 1 .. n0 PROVE x[at + 5 + j] = e.ctx[j]
    <3>0. 5 + j \in Nat /\ 5 + j + 1 \in 1 .. size /\ at + (5 + j) = at + 5 + j /\ 5 + j + 1 = 6 + j
      BY <1>30
    <3>1. 5 + j \in Nat /\ 5 + j + 1 \in 1 .. Len(s) /\ at + (5 + j) = at + 5 + j /\ 5 + j + 1 = 6 + j
      BY <3>0 DEF size
    <3>2. x[at + (5 + j)] = s[5 + j + 1]
      BY <1>7, <3>1
    <3> QED
      BY <1>3, <3>1, <3>2, Zenon
  <2> QED
    BY <2>1
<1>10. \A j \in 1 .. Len(tail) : x[at + 5 + n0 + j] = tail[j]
  <2>1. ASSUME NEW j \in 1 .. Len(tail) PROVE x[at + 5 + n0 + j] = tail[j]
    <3>0. j \in 1 .. rest
      BY DEF rest
    <3>2. /\ 5 + n0 + j \in Nat /\ 5 + n0 + j + 1 \in 1 .. size
          /\ at + (5 + n0 + j) = at + 5 + n0 + j /\ 5 + n0 + j + 1 = 6 + n0 + j
      BY <1>30, <3>0
    <3>1. /\ 5 + n0 + j \in Nat /\ 5 + n0 + j + 1 \in 1 .. Len(s)
          /\ at + (5 + n0 + j) = at + 5 + n0 + j /\ 5 + n0 + j + 1 = 6 + n0 + j
      BY <3>2 DEF size
    <3>3. x[at + (5 + n0 + j)] = s[5 + n0 + j + 1]
      BY <1>7, <3>1
    <3> QED
      BY <1>3, <3>1, <3>3
  <2> QED
    BY <2>1
<1>11. read.label = e.label
  BY <1>1, <1>8
<1>12. read.ctx = e.ctx
  <2> DEFINE q == at + 5
  <2>1. q \in Nat /\ at + 6 = q + 1 /\ at + 5 + n0 = q + n0
    BY <1>4, <1>5
  <2>2. \A j \in 1 .. n0 : x[q + j] = e.ctx[j]
    BY <1>9
  <2> HIDE DEF q
  <2>3. SubSeq(x, q + 1, q + Len(e.ctx)) = e.ctx
    BY <1>0, <1>5, <2>1, <2>2, SliceIs
  <2> QED
    BY <1>0, <1>1, <1>8, <2>1, <2>3, Zenon
<1> DEFINE base == at + 6 + n0
           g == [k \in 1 .. N |-> base + place(k)]
<1>13. base \in Nat /\ \A k \in 1 .. N : g[k] = base + place(k) /\ g[k] \in Nat
  BY <1>4, <1>5, <1>6
<1>18. at + 6 + x[at + 5] = base
  BY <1>8
<1>20. g = [k \in 1 .. N |-> g[k]]
  OBVIOUS
<1> HIDE DEF g, base
<1>14. \A k \in 1 .. N : x[g[k]] = Len(e.endings[k])
  <2>1. ASSUME NEW k \in 1 .. N PROVE x[g[k]] = Len(e.endings[k])
    <3>1. place(k) + 1 \in 1 .. Len(tail) /\ at + 5 + n0 + (place(k) + 1) = base + place(k)
      <4>1. place(k) \in Nat /\ place(k) + 1 + Len(e.endings[k]) <= Len(tail) /\ Len(e.endings[k]) \in Nat
        BY <1>5, <1>6
      <4>2. \A a, m, l \in Nat : m # 0 /\ a + 1 + m <= l => a + 1 \in 1 .. l
        OBVIOUS
      <4>3. \A a \in Nat : at + 5 + n0 + (a + 1) = base + a
        BY <1>30 DEF base
      <4>4. Len(e.endings[k]) # 0 /\ Len(tail) \in Nat
        BY <1>5, <1>6
      <4> QED
        BY <4>1, <4>2, <4>3, <4>4, Zenon
    <3>2. x[at + 5 + n0 + (place(k) + 1)] = tail[place(k) + 1]
      BY <1>10, <3>1, Zenon
    <3>3. tail[place(k) + 1] = Len(e.endings[k]) /\ g[k] = base + place(k)
      BY <1>6, <1>13
    <3> QED
      BY <3>1, <3>2, <3>3, Zenon
  <2> QED
    BY <2>1
<1>15. \A k \in 1 .. N : k + 1 \in 1 .. N => g[k + 1] = g[k] + 1 + x[g[k]]
  <2>1. ASSUME NEW k \in 1 .. N, k + 1 \in 1 .. N PROVE g[k + 1] = g[k] + 1 + x[g[k]]
    <3>1. g[k + 1] = base + place(k + 1) /\ g[k] = base + place(k) /\ x[g[k]] = Len(e.endings[k])
      BY <1>13, <1>14, <2>1
    <3>2. place(k + 1) = place(k) + 1 + Len(e.endings[k]) /\ place(k) \in Nat /\ Len(e.endings[k]) \in Nat
      BY <1>5, <1>6
    <3>3. \A a, m \in Nat : base + (a + 1 + m) = base + a + 1 + m
      BY <1>13
    <3> QED
      BY <3>1, <3>2, <3>3, Zenon
  <2> QED
    BY <2>1
<1>16. g[1] = base
  BY <1>2, <1>6, <1>13
<1> DEFINE value(f, k) == IF k = 1 THEN at + 6 + x[at + 5] ELSE f[k - 1] + 1 + x[f[k - 1]]
<1>17. \A f : iterates(f) <=> f = [k \in 1 .. N |-> value(f, k)]
  BY Zenon
<1>19. \A k \in 1 .. N : g[k] = value(g, k)
  <2>1. ASSUME NEW k \in 1 .. N PROVE g[k] = value(g, k)
    <3>1. CASE k = 1
      BY <1>16, <1>18, <3>1
    <3>2. CASE k # 1
      <4>1. k - 1 \in 1 .. N /\ k - 1 + 1 = k
        BY <1>2, <3>2
      <4> QED
        BY <1>15, <3>2, <4>1
    <3> QED
      BY <3>1, <3>2
  <2> QED
    BY <2>1
<1>21. g = [k \in 1 .. N |-> value(g, k)]
  BY <1>19, <1>20, Zenon
<1>22. iterates(iter)
  <2>1. \E f : iterates(f)
    BY <1>17, <1>21, Zenon
  <2> QED
    BY <2>1, Zenon DEF iter
<1>23. \A k \in 1 .. N : iter[k] = value(iter, k)
  BY <1>17, <1>22, Zenon
<1> HIDE DEF iterates
<1> DEFINE S == {k \in Nat : k + 1 \in 1 .. N => iter[k + 1] = g[k + 1]}
<1>24. 0 \in S
  <2>1. 1 \in 1 .. N
    BY <1>2
  <2>2. iter[1] = base
    BY <1>18, <1>23, <2>1
  <2> QED
    BY <1>16, <2>2
<1>25. ASSUME NEW k \in Nat, k \in S PROVE k + 1 \in S
  <2>1. SUFFICES ASSUME k + 1 + 1 \in 1 .. N PROVE iter[k + 1 + 1] = g[k + 1 + 1]
    BY <1>25
  <2>2. k + 1 \in 1 .. N /\ k + 1 + 1 # 1 /\ k + 1 + 1 - 1 = k + 1
    BY <1>2, <2>1
  <2>3. iter[k + 1] = g[k + 1]
    BY <1>25, <2>2
  <2>4. iter[k + 1 + 1] = iter[k + 1] + 1 + x[iter[k + 1]]
    BY <1>23, <2>1, <2>2
  <2> QED
    BY <1>15, <2>1, <2>2, <2>3, <2>4
<1> HIDE DEF S
<1>26. Nat \subseteq S
  BY <1>24, <1>25, SetInduction
<1>27. \A k \in 1 .. N : iter[k] = g[k]
  <2>1. ASSUME NEW k \in 1 .. N PROVE iter[k] = g[k]
    <3>1. k - 1 \in Nat /\ k - 1 + 1 = k
      BY <1>2
    <3>2. k - 1 \in S
      BY <1>26, <3>1
    <3> QED
      BY <3>1, <3>2 DEF S
  <2> QED
    BY <2>1
<1>28. ASSUME NEW k \in 1 .. N
       PROVE  SubSeq(x, iter[k] + 1, iter[k] + x[iter[k]]) = e.endings[k]
  <2> DEFINE c == e.endings[k]
             q == g[k]
  <2>1. c \in Seq(Nat) /\ q \in Nat /\ q = base + place(k)
    BY <1>5, <1>13
  <2>5. ASSUME NEW j \in 1 .. Len(c) PROVE x[q + j] = c[j]
    <3>1. place(k) \in Nat /\ place(k) + 1 + Len(c) <= Len(tail) /\ Len(c) \in Nat /\ Len(tail) \in Nat
      BY <1>5, <1>6
    <3>0. \A a, b, d \in Nat : a + 1 + b <= d => \A y \in 1 .. b : a + 1 + y \in 1 .. d
      OBVIOUS
    <3>2. place(k) + 1 + j \in 1 .. Len(tail)
      BY <3>0, <3>1, Zenon
    <3>3. at + 5 + n0 + (place(k) + 1 + j) = q + j
      BY <1>4, <1>5, <2>1, <3>1 DEF base
    <3> QED
      BY <1>6, <1>10, <3>2, <3>3, Zenon
  <2>2. \A j \in 1 .. Len(c) : x[q + j] = c[j]
    BY <2>5
  <2>3. iter[k] = q /\ x[iter[k]] = Len(c)
    BY <1>14, <1>27
  <2> HIDE DEF c, q
  <2>6. q \in Nat /\ c \in Seq(Nat)
    BY <2>1
  <2>4. SubSeq(x, q + 1, q + Len(c)) = c
    BY <2>2, <2>6, SliceIs
  <2> QED
    BY <2>3, <2>4 DEF c
<1>29. read.endings = [k \in 1 .. N |-> e.endings[k]]
  BY <1>1, <1>28
<1> QED
  BY <1>11, <1>12, <1>29 DEF ReadsIt, read, x, at, e, N
-----------------------------------------------------------------------------
(***************************************************************************)
(* The seek: from an example to the next one, up to the end of the file.   *)
(***************************************************************************)
Onward(x, p) == IF p \in DOMAIN x THEN p + x[p + 1] \div 2 ELSE 0

LEMMA NextExampleAt ==
  ASSUME NEW n \in Nat \ {0}, NEW datas \in [1 .. n -> Examples], NEW i \in 0 .. n - 1
  PROVE  /\ ExampleAt(datas, i) \in DOMAIN Stream(datas)
         /\ ExampleAt(datas, i + 1) = ExampleAt(datas, i) + Stream(datas)[ExampleAt(datas, i) + 1] \div 2
<1> DEFINE e == datas[i + 1]
           s == ExampleStream(i, e)
           at == ExampleAt(datas, i)
           x == Stream(datas)
<1>1. e \in Examples /\ i \in Nat
  OBVIOUS
<1>2. s \in Seq(Nat) /\ Len(s) = 6 + Len(e.ctx) + Len(FlattenSeq(Words(e))) /\ s[2] = 2 * Len(s)
  BY <1>1, StreamOfExample, Zenon
<1>3. Len(e.ctx) \in Nat /\ Len(FlattenSeq(Words(e))) \in Nat
  <2>1. Len(e.ctx) \in Nat
    BY <1>1, ExampleParts
  <2>2. FlattenSeq(Words(e)) \in Seq(Nat)
    BY <1>1, EndingsOf DEF EndingsLie
  <2> QED
    BY <2>1, <2>2
<1>4. at \in Nat \ {0}
  <2>1. i \in 0 .. n
    OBVIOUS
  <2> QED
    BY <2>1, PlacesInStream
<1>5. ExampleLies(datas, i)
  BY PlacesInStream
<1>6. /\ ExampleAt(datas, i + 1) = at + Len(s)
      /\ \A j \in 1 .. Len(s) : at + j - 1 \in DOMAIN x /\ x[at + j - 1] = s[j]
  BY <1>5, Zenon DEF ExampleLies
<1>0. Len(s) \in Nat
  <2> HIDE DEF s
  <2>1. s \in Seq(Nat)
    BY <1>2
  <2> QED
    BY <2>1
<1> HIDE DEF s, at, x
<1>7. 1 \in 1 .. Len(s) /\ 2 \in 1 .. Len(s) /\ at + 1 - 1 = at /\ at + 2 - 1 = at + 1
  <2> DEFINE a == Len(e.ctx)
             b == Len(FlattenSeq(Words(e)))
  <2> HIDE DEF a, b
  <2>1. Len(s) = 6 + a + b /\ a \in Nat /\ b \in Nat
    BY <1>2, <1>3 DEF a, b
  <2> QED
    BY <1>4, <2>1
<1>8. at \in DOMAIN x /\ x[at + 1] = 2 * Len(s)
  BY <1>2, <1>6, <1>7, Zenon
<1>9. x[at + 1] \div 2 = Len(s)
  BY <1>0, <1>8
<1> QED
  BY <1>6, <1>8, <1>9 DEF at, x

LEMMA SkipIs ==
  ASSUME NEW n \in Nat \ {0}, NEW datas \in [1 .. n -> Examples], NEW m \in Nat
  PROVE  Skip(WriteEvalFile(datas), m) = IF m <= n THEN ExampleAt(datas, m) ELSE 0
<1> DEFINE file == WriteEvalFile(datas)
           x == Stream(datas)
           start(i) == IF i <= n THEN ExampleAt(datas, i) ELSE 0
           g == [i \in 0 .. m |-> start(i)]
           value(f, i) == IF i = 0 THEN 1 ELSE Onward(x, f[i - 1])
           iterates(f) == f = [i \in 0 .. m |-> value(f, i)]
           at == CHOOSE f : iterates(f)
<1>1. Skip(file, m) = at[m]
  <2>1. file.stream = x
    BY FileIs
  <2> QED
    BY <2>1, Zenon DEF Skip, Onward
<1>2. /\ x \in Seq(Nat) /\ ExampleAt(datas, 0) = 1 /\ ExampleAt(datas, n) = Len(x) + 1
  BY PlacesInStream
<1>3. \A i \in Nat : start(i + 1) = Onward(x, start(i))
  <2>1. ASSUME NEW i \in Nat PROVE start(i + 1) = Onward(x, start(i))
    <3>1. CASE i < n
      <4>1. i \in 0 .. n - 1
        BY <3>1
      <4>2. /\ ExampleAt(datas, i) \in DOMAIN x
            /\ ExampleAt(datas, i + 1) = ExampleAt(datas, i) + x[ExampleAt(datas, i) + 1] \div 2
        BY <4>1, NextExampleAt
      <4>3. start(i) = ExampleAt(datas, i) /\ start(i + 1) = ExampleAt(datas, i + 1)
        BY <4>1
      <4> HIDE DEF start, x
      <4> QED
        BY <4>2, <4>3 DEF Onward
    <3>2. CASE i >= n
      <4>1. start(i + 1) = 0
        BY <3>2
      <4>2. start(i) \notin DOMAIN x
        <5>1. DOMAIN x = 1 .. Len(x) /\ Len(x) \in Nat
          BY <1>2
        <5>2. start(i) = 0 \/ start(i) = Len(x) + 1
          BY <1>2, <3>2
        <5> HIDE DEF start, x
        <5> QED
          BY <5>1, <5>2
      <4> HIDE DEF start, x
      <4> QED
        BY <4>1, <4>2 DEF Onward
    <3> QED
      BY <3>1, <3>2
  <2> QED
    BY <2>1
<1>4. start(0) = 1
  BY <1>2
<1>5. g = [i \in 0 .. m |-> g[i]] /\ \A i \in 0 .. m : g[i] = start(i)
  OBVIOUS
<1> HIDE DEF g, start, x
<1>6. \A i \in 0 .. m : g[i] = value(g, i)
  <2>1. ASSUME NEW i \in 0 .. m PROVE g[i] = value(g, i)
    <3>1. CASE i = 0
      BY <1>4, <1>5, <3>1
    <3>2. CASE i # 0
      <4>1. i - 1 \in 0 .. m /\ i - 1 \in Nat /\ i - 1 + 1 = i
        BY <3>2
      <4>2. start(i) = Onward(x, start(i - 1))
        BY <1>3, <4>1
      <4> QED
        BY <1>5, <3>2, <4>1, <4>2
    <3> QED
      BY <3>1, <3>2
  <2> QED
    BY <2>1
<1>7. iterates(at)
  <2>1. iterates(g)
    BY <1>5, <1>6, Zenon
  <2> QED
    BY <2>1, Zenon
<1>8. \A i \in 0 .. m : at[i] = value(at, i)
  <2> HIDE DEF at
  <2> QED
    BY <1>7
<1> HIDE DEF at
<1> DEFINE S == {i \in Nat : i <= m => at[i] = start(i)}
<1>9. 0 \in S
  BY <1>4, <1>8
<1>10. ASSUME NEW i \in Nat, i \in S PROVE i + 1 \in S
  <2>1. SUFFICES ASSUME i + 1 <= m PROVE at[i + 1] = start(i + 1)
    BY <1>10
  <2>2. i + 1 \in 0 .. m /\ i + 1 # 0 /\ i + 1 - 1 = i /\ at[i] = start(i)
    BY <1>10, <2>1
  <2>3. at[i + 1] = Onward(x, at[i])
    BY <1>8, <2>2
  <2> QED
    BY <1>3, <2>2, <2>3
<1> HIDE DEF S
<1>11. Nat \subseteq S
  BY <1>9, <1>10, SetInduction
<1>12. at[m] = start(m)
  <2>1. m \in S
    BY <1>11
  <2> QED
    BY <2>1 DEF S
<1> QED
  BY <1>1, <1>12 DEF start

-----------------------------------------------------------------------------
(***************************************************************************)
(* A row of the batch that holds an example's ending scores what the       *)
(* Python script scores.                                                   *)
(***************************************************************************)
EndingText(e, k) == e.ctx \o e.endings[k]
\* The row holds the text and its mask.
RowHolds(l, b, e, k, T) ==
  LET n == Len(e.ctx)
      m == Len(EndingText(e, k))
  IN  /\ DOMAIN l.mask[b] = 1 .. T
      /\ \A t \in 1 .. T : l.mask[b][t] = (n <= t /\ t < m)
      /\ \A t \in 1 .. m : l.inputs[b][t] = EndingText(e, k)[t]
      /\ \A t \in n .. m - 1 : l.targets[b][t] = EndingText(e, k)[t + 1]
LEMMA PrefixSame ==
  ASSUME NEW x, NEW y \in Seq(Nat), NEW j \in 0 .. Len(y), \A i \in 1 .. j : x[i] = y[i]
  PROVE  SubSeq(x, 1, j) = SubSeq(y, 1, j)
<1>1. 1 \in Int /\ j \in Int /\ (\A i \in 1 .. j : x[i] \in Nat) /\ \A i \in 1 .. j : y[i] \in Nat
  OBVIOUS
<1>2. /\ SubSeq(x, 1, j) \in Seq(Nat) /\ Len(SubSeq(x, 1, j)) = IF 1 <= j THEN j - 1 + 1 ELSE 0
      /\ \A i \in 1 .. j - 1 + 1 : SubSeq(x, 1, j)[i] = x[1 + i - 1]
  BY <1>1, SubSeqProperties
<1>3. /\ SubSeq(y, 1, j) \in Seq(Nat) /\ Len(SubSeq(y, 1, j)) = IF 1 <= j THEN j - 1 + 1 ELSE 0
      /\ \A i \in 1 .. j - 1 + 1 : SubSeq(y, 1, j)[i] = y[1 + i - 1]
  BY <1>1, SubSeqProperties
<1> DEFINE a == SubSeq(x, 1, j)
           b == SubSeq(y, 1, j)
<1>4. j - 1 + 1 = j /\ j \in Nat
  OBVIOUS
<1> HIDE DEF a, b
<1>5. a \in Seq(Nat) /\ b \in Seq(Nat) /\ Len(a) = j /\ Len(b) = j
  BY <1>2, <1>3, <1>4 DEF a, b
<1>6. \A i \in 1 .. j : 1 + i - 1 = i /\ i \in 1 .. j - 1 + 1
  OBVIOUS
<1>7. \A i \in 1 .. j : a[i] = b[i]
  BY <1>2, <1>3, <1>6 DEF a, b
<1>8. a = b
  BY <1>5, <1>7, SeqEqual
<1> QED
  BY <1>8 DEF a, b

LEMMA TextIs ==
  ASSUME NEW e \in Examples, NEW k \in 1 .. NumCompletions
  PROVE  /\ EndingText(e, k) \in Seq(Nat)
         /\ Len(EndingText(e, k)) = Len(e.ctx) + Len(e.endings[k])
         /\ Len(e.ctx) \in Nat \ {0} /\ Len(e.endings[k]) \in Nat \ {0}
         /\ Len(EndingText(e, k)) \in Nat /\ Len(e.ctx) < Len(EndingText(e, k))
<1> DEFINE c == e.ctx
           d == e.endings[k]
<1>1. c \in Seq(Nat) /\ d \in Seq(Nat) /\ Len(c) \in Nat \ {0} /\ Len(d) \in Nat \ {0}
  BY ExampleParts
<1> HIDE DEF c, d
<1>2. c \o d \in Seq(Nat) /\ Len(c \o d) = Len(c) + Len(d)
  BY <1>1
<1>3. Len(c) + Len(d) \in Nat /\ Len(c) < Len(c) + Len(d)
  BY <1>1
<1> QED
  BY <1>1, <1>2, <1>3, Zenon DEF EndingText, c, d

\* The losses of an ending's tokens and how many they are.
LossAfter(s, t) == Loss(SubSeq(s, 1, t), s[t + 1])
ScoredPlaces(e, k) == Len(e.ctx) .. Len(EndingText(e, k)) - 1
EndingScore(e, k) ==
  <<SumOf([t \in ScoredPlaces(e, k) |-> LossAfter(EndingText(e, k), t)]), Cardinality(ScoredPlaces(e, k))>>

LEMMA RowScores ==
  ASSUME NEW e \in Examples, NEW k \in 1 .. NumCompletions, NEW T \in Nat,
         Len(e.ctx) + Len(e.endings[k]) < T, NEW l, NEW b, RowHolds(l, b, e, k, T)
  PROVE  /\ RowAverage(l, b) = EndingScore(e, k)
         /\ TRUE \in Range(l.mask[b])
<1> DEFINE n == Len(e.ctx)
           s == EndingText(e, k)
           m == Len(s)
           P == ScoredPlaces(e, k)
           scored == {t \in DOMAIN l.mask[b] : l.mask[b][t]}
           after(t) == Loss(SubSeq(l.inputs[b], 1, t), l.targets[b][t])
           loss == [t \in scored |-> after(t)]
<1>1. s \in Seq(Nat) /\ m \in Nat /\ n \in Nat \ {0} /\ n < m /\ m < T
  BY TextIs, Zenon
<1>2. /\ DOMAIN l.mask[b] = 1 .. T
      /\ \A t \in 1 .. T : l.mask[b][t] = (n <= t /\ t < m)
      /\ \A t \in 1 .. m : l.inputs[b][t] = s[t]
      /\ \A t \in n .. m - 1 : l.targets[b][t] = s[t + 1]
  BY Zenon DEF RowHolds
<1>3. P = n .. m - 1
  BY DEF ScoredPlaces
<1>4. RowAverage(l, b) = IF scored = {} THEN <<0, 1>> ELSE <<SumOf(loss), Cardinality(scored)>>
  BY Zenon DEF RowAverage
<1> HIDE DEF s, P, n, m
<1>5. scored = P
  <2>1. scored = {t \in 1 .. T : n <= t /\ t < m}
    BY <1>2, Zenon
  <2>2. {t \in 1 .. T : n <= t /\ t < m} = n .. m - 1
    BY <1>1
  <2> QED
    BY <1>3, <2>1, <2>2
<1>6. \A t \in P : after(t) = LossAfter(s, t)
  <2>1. ASSUME NEW t \in P PROVE after(t) = LossAfter(s, t)
    <3>1. t \in n .. m - 1 /\ t \in 0 .. Len(s) /\ \A i \in 1 .. t : i \in 1 .. m
      BY <1>1, <1>3 DEF m
    <3>2. SubSeq(l.inputs[b], 1, t) = SubSeq(s, 1, t)
      BY <1>1, <1>2, <3>1, PrefixSame
    <3>3. l.targets[b][t] = s[t + 1]
      BY <1>2, <3>1
    <3> QED
      BY <3>2, <3>3, Zenon DEF LossAfter
  <2> QED
    BY <2>1
<1> HIDE DEF scored, after
<1>7. loss = [t \in P |-> LossAfter(s, t)]
  BY <1>5, <1>6
<1>8. P # {}
  <2>1. n \in n .. m - 1
    BY <1>1
  <2> QED
    BY <1>3, <2>1
<1> HIDE DEF loss
<1>9. RowAverage(l, b) = <<SumOf([t \in P |-> LossAfter(s, t)]), Cardinality(P)>>
  BY <1>4, <1>5, <1>7, <1>8
<1>10. TRUE \in Range(l.mask[b])
  <2>1. n \in 1 .. T /\ n <= n /\ n < m
    BY <1>1
  <2>2. n \in DOMAIN l.mask[b] /\ l.mask[b][n] = TRUE
    BY <1>2, <2>1, Zenon
  <2> QED
    BY <2>2, Zenon DEF Range
<1> QED
  BY <1>9, <1>10, Zenon DEF EndingScore, P, s

LEMMA RenderedScores ==
  ASSUME NEW e \in Examples, NEW k \in 1 .. NumCompletions
  PROVE  AvgLoss(Rendered(e).tokens[k], Rendered(e).mask[k]) = EndingScore(e, k)
<1> DEFINE N == NumCompletions
           row == [i \in 1 .. N |-> EndingText(e, i)]
           lengths == {Len(row[i]) : i \in DOMAIN row}
           width == CHOOSE w \in lengths : \A i \in DOMAIN row : Len(row[i]) <= w
           s == EndingText(e, k)
           n == Len(e.ctx)
           m == Len(s)
           padded == [j \in 1 .. width |-> IF j <= m THEN s[j] ELSE 0]
           mask == [j \in 1 .. width |-> j > n /\ j <= m]
<1>1. Rendered(e).tokens[k] = padded /\ Rendered(e).mask[k] = mask
  <2> DEFINE allTokens == [i \in DOMAIN row |-> [j \in 1 .. width |-> IF j <= Len(row[i]) THEN row[i][j] ELSE 0]]
             allMask == [i \in DOMAIN row |-> [j \in 1 .. width |-> j > n /\ j <= Len(row[i])]]
  <2>1. Rendered(e) = [tokens |-> allTokens, mask |-> allMask]
    BY Zenon DEF Rendered, EndingText
  <2>2. k \in DOMAIN row /\ row[k] = s
    OBVIOUS
  <2> HIDE DEF row, width, s, n
  <2>3. allTokens[k] = padded /\ allMask[k] = mask
    BY <2>2 DEF m
  <2> HIDE DEF allTokens, allMask, padded, mask
  <2> QED
    BY <2>1, <2>3
<1>2. s \in Seq(Nat) /\ m \in Nat /\ n \in Nat \ {0} /\ n < m
  BY TextIs, Zenon
<1>3. width \in Nat /\ m <= width
  <2>1. DOMAIN row = 1 .. N /\ N \in Nat \ {0} /\ \A i \in 1 .. N : row[i] = EndingText(e, i) /\ Len(row[i]) \in Nat
    <3>1. \A i \in 1 .. N : Len(EndingText(e, i)) \in Nat
      BY TextIs
    <3> QED
      BY <3>1, EvaluationAssumption
  <2>2. row[k] = s
    OBVIOUS
  <2> DEFINE len == [i \in 1 .. N |-> Len(row[i])]
  <2> HIDE DEF row, N
  <2>3. \E w \in lengths : \A i \in DOMAIN row : Len(row[i]) <= w
    <3>1. N \in Nat \ {0} /\ \A i \in 1 .. N : len[i] = Len(row[i]) /\ len[i] \in Nat
      BY <2>1
    <3> HIDE DEF len
    <3>2. \E i \in 1 .. N : \A j \in 1 .. N : len[j] <= len[i]
      BY <3>1, LongestExists, Zenon
    <3> QED
      BY <2>1, <3>1, <3>2, Zenon
  <2> HIDE DEF lengths
  <2>4. width \in lengths /\ \A i \in DOMAIN row : Len(row[i]) <= width
    BY <2>3, Zenon DEF width
  <2> HIDE DEF width
  <2>5. width \in Nat
    BY <2>1, <2>4 DEF lengths
  <2> QED
    BY <2>1, <2>2, <2>4, <2>5 DEF N
<1> HIDE DEF width, row, lengths
<1> DEFINE scored == {j \in 1 .. Len(padded) - 1 : mask[j + 1]}
           loss(j) == Loss(SubSeq(padded, 1, j), padded[j + 1])
           P == ScoredPlaces(e, k)
<1>4. AvgLoss(padded, mask) = <<SumOf([j \in scored |-> loss(j)]), Cardinality(scored)>>
  BY Zenon DEF AvgLoss
<1>5. P = n .. m - 1
  BY DEF ScoredPlaces
<1> HIDE DEF s, n, m, P
<1>6. Len(padded) = width
  BY <1>3
<1>7. \A j \in 1 .. m : padded[j] = s[j]
  BY <1>2, <1>3
<1>8. \A j \in 1 .. width : mask[j] = (j > n /\ j <= m)
  OBVIOUS
<1> HIDE DEF padded, mask
<1>9. scored = P
  <2>1. \A j \in 1 .. Len(padded) - 1 : j + 1 \in 1 .. width
    BY <1>3, <1>6
  <2>2. scored = {j \in 1 .. Len(padded) - 1 : j + 1 > n /\ j + 1 <= m}
    BY <1>8, <2>1, Zenon
  <2>3. {j \in 1 .. width - 1 : j + 1 > n /\ j + 1 <= m} = n .. m - 1
    BY <1>2, <1>3
  <2> QED
    BY <1>5, <1>6, <2>2, <2>3
<1>10. \A j \in P : loss(j) = LossAfter(s, j)
  <2>1. ASSUME NEW j \in P PROVE loss(j) = LossAfter(s, j)
    <3>1. j \in 0 .. Len(s) /\ j + 1 \in 1 .. m /\ \A i \in 1 .. j : i \in 1 .. m
      BY <1>2, <1>5 DEF m
    <3>2. SubSeq(padded, 1, j) = SubSeq(s, 1, j)
      BY <1>2, <1>7, <3>1, PrefixSame
    <3> QED
      BY <1>7, <3>1, <3>2, Zenon DEF LossAfter
  <2> QED
    BY <2>1
<1> HIDE DEF scored, loss
<1>11. [j \in scored |-> loss(j)] = [t \in P |-> LossAfter(s, t)]
  BY <1>9, <1>10
<1>12. AvgLoss(padded, mask) = <<SumOf([t \in P |-> LossAfter(s, t)]), Cardinality(P)>>
  BY <1>4, <1>9, <1>11
<1> QED
  BY <1>1, <1>12 DEF EndingScore, P, s
-----------------------------------------------------------------------------
(***************************************************************************)
(* The score of an example, and the rows of a place of the batch.          *)
(***************************************************************************)
Right(e) == PredNorm(e) = e.label

LEMMA PredictionIs ==
  ASSUME NEW e \in Examples
  PROVE  PredNorm(e) = FirstLeast([k \in 1 .. NumCompletions |-> EndingScore(e, k)]) - 1
<1> DEFINE score(k) == AvgLoss(Rendered(e).tokens[k], Rendered(e).mask[k])
<1>1. PredNorm(e) = FirstLeast([k \in 1 .. NumCompletions |-> score(k)]) - 1
  BY Zenon DEF PredNorm
<1>2. \A k \in 1 .. NumCompletions : score(k) = EndingScore(e, k)
  BY RenderedScores
<1> HIDE DEF score
<1>3. [k \in 1 .. NumCompletions |-> score(k)] = [k \in 1 .. NumCompletions |-> EndingScore(e, k)]
  BY <1>2
<1> QED
  BY <1>1, <1>3, Zenon

LEMMA ConfParts ==
  ASSUME NEW conf \in EvalConfigs
  PROVE  /\ conf.B \in Nat \ {0} /\ conf.T \in Nat \ {0} /\ conf.num_processes \in Nat \ {0}
         /\ NumCompletions \in Nat \ {0}
         /\ CanFitExamples(conf) \in Nat /\ CanFitExamples(conf) * NumCompletions <= conf.B
<1>1. /\ conf.B \in Nat \ {0} /\ conf.T \in Nat \ {0} /\ conf.num_processes \in Nat \ {0}
      /\ NumCompletions \in Nat \ {0}
  BY EvaluationAssumption
<1>2. \A m \in Nat : \A w \in Nat \ {0} : m \div w \in Nat /\ (m \div w) * w <= m
  BY SMT
<1> QED
  BY <1>1, <1>2, Zenon DEF CanFitExamples

RowOf(i, a) == (i - 1) * NumCompletions + a
RowsOf(i) == (i - 1) * NumCompletions + 1 .. i * NumCompletions

LEMMA RowsApart ==
  ASSUME NEW conf \in EvalConfigs, NEW i \in 1 .. CanFitExamples(conf), NEW a \in 1 .. NumCompletions
  PROVE  /\ RowOf(i, a) \in 1 .. conf.B /\ RowOf(i, a) \in RowsOf(i)
         /\ RowOf(i, a) - (i - 1) * NumCompletions = a
         /\ \A j \in 1 .. CanFitExamples(conf) : j # i => RowOf(i, a) \notin RowsOf(j)
<1> DEFINE can == CanFitExamples(conf)
           N == NumCompletions
           p == (i - 1) * N
           q == i * N
           r == can * N
<1>1. can \in Nat /\ N \in Nat \ {0} /\ conf.B \in Nat /\ r <= conf.B
  BY ConfParts
<1> HIDE DEF can, N
<1>2. i \in 1 .. can /\ a \in 1 .. N
  BY DEF can, N
<1>3. \A x, y \in Nat : x <= y => x * N <= y * N /\ x * N \in Nat /\ y * N \in Nat
  BY <1>1
<1>4. q = p + N /\ p \in Nat /\ q \in Nat /\ r \in Nat /\ q <= r
  <2>1. i - 1 \in Nat /\ i \in Nat /\ i <= can /\ i - 1 <= i
    BY <1>1, <1>2
  <2>2. i * N = (i - 1) * N + N
    BY <1>1, <2>1
  <2> QED
    BY <1>1, <1>3, <2>1, <2>2
<1>5. ASSUME NEW j \in 1 .. can, j # i PROVE p + a \notin (j - 1) * N + 1 .. j * N
  <2>1. j - 1 \in Nat /\ j \in Nat /\ i - 1 \in Nat /\ i \in Nat
    BY <1>1, <1>2
  <2> DEFINE u == (j - 1) * N
             v == j * N
  <2>2. CASE j < i
    <3>1. j <= i - 1
      BY <2>1, <2>2
    <3>2. v <= p /\ v \in Nat
      BY <1>3, <2>1, <3>1
    <3>3. u \in Nat
      BY <1>3, <2>1
    <3> HIDE DEF u, v, p
    <3>4. p + a \notin u + 1 .. v
      BY <1>2, <1>4, <3>2, <3>3
    <3> QED
      BY <3>4 DEF u, v, p
  <2>3. CASE j > i
    <3>1. i <= j - 1
      BY <2>1, <2>3
    <3>2. q <= u /\ u \in Nat
      BY <1>3, <2>1, <3>1
    <3>3. v \in Nat
      BY <1>3, <2>1
    <3> HIDE DEF u, v, p, q
    <3>4. p + a \notin u + 1 .. v
      BY <1>1, <1>2, <1>4, <3>2, <3>3
    <3> QED
      BY <3>4 DEF u, v, p
  <2> QED
    BY <1>5, <2>1, <2>2, <2>3
<1>6. \A j \in 1 .. can : j # i => RowOf(i, a) \notin RowsOf(j)
  <2> HIDE DEF p, q, r
  <2>1. RowOf(i, a) = p + a
    BY DEF RowOf, p, N
  <2>2. \A j : RowsOf(j) = (j - 1) * N + 1 .. j * N
    BY DEF RowsOf, N
  <2> QED
    BY <1>5, <2>1, <2>2, Zenon
<1> HIDE DEF p, q, r
<1>7. p + a \in 1 .. conf.B /\ p + a \in p + 1 .. q /\ (p + a) - p = a
  BY <1>1, <1>2, <1>4
<1>8. RowOf(i, a) = p + a /\ RowsOf(i) = p + 1 .. q
  BY DEF RowOf, RowsOf, p, q, N
<1>9. RowOf(i, a) - p = a
  BY <1>7, <1>8, Zenon
<1>10. RowOf(i, a) - (i - 1) * NumCompletions = a
  BY <1>9 DEF p, N
<1> QED
  BY <1>6, <1>7, <1>8, <1>10 DEF can

-----------------------------------------------------------------------------
(***************************************************************************)
(* The two recursions of a process: the places of a batch, and the batches *)
(* of an evaluation.                                                       *)
(***************************************************************************)
FillPlace(conf, file, rank, last, i) ==
  IF last.current < EndIndex(conf, file, rank) THEN NextExample(last, file, i) ELSE last
Evaluated(conf, file, rank, last) ==
  LET batch == NextBatch(conf, file, rank, last.loader)
  IN  [loader |-> batch, correct |-> last.correct + StatLosses(conf, batch)]
Step(filling, conf, file, rank, last, i) ==
  IF filling THEN FillPlace(conf, file, rank, last, i) ELSE Evaluated(conf, file, rank, last)

Iterates(f, filling, conf, file, rank, x, n) ==
  f = [i \in 0 .. n |-> IF i = 0 THEN x ELSE Step(filling, conf, file, rank, f[i - 1], i)]

LEMMA IteratesValues ==
  ASSUME NEW f, NEW filling, NEW conf, NEW file, NEW rank, NEW x, NEW n
  PROVE  Iterates(f, filling, conf, file, rank, x, n) <=>
           /\ f = [i \in 0 .. n |-> f[i]]
           /\ \A i \in 0 .. n : f[i] = IF i = 0 THEN x ELSE Step(filling, conf, file, rank, f[i - 1], i)
<1> DEFINE value(i) == IF i = 0 THEN x ELSE Step(filling, conf, file, rank, f[i - 1], i)
<1>1. Iterates(f, filling, conf, file, rank, x, n) <=> f = [i \in 0 .. n |-> value(i)]
  BY Zenon DEF Iterates
<1> HIDE DEF value
<1>2. f = [i \in 0 .. n |-> value(i)] <=>
        f = [i \in 0 .. n |-> f[i]] /\ \A i \in 0 .. n : f[i] = value(i)
  BY Zenon
<1> QED
  BY <1>1, <1>2 DEF value

LEMMA IteratesExist ==
  ASSUME NEW filling, NEW conf, NEW file, NEW rank, NEW x, NEW n \in Nat
  PROVE  \E f : Iterates(f, filling, conf, file, rank, x, n)
<1> DEFINE onto(y, i) == Step(filling, conf, file, rank, y, i)
           UpTo(f, k) == f = [i \in 0 .. k |-> f[i]] /\ \A i \in 0 .. k : f[i] = IF i = 0 THEN x ELSE onto(f[i - 1], i)
           S == {k \in Nat : \E f : UpTo(f, k)}
<1>0. \A f, k : Iterates(f, filling, conf, file, rank, x, k) <=> UpTo(f, k)
  <2>1. ASSUME NEW f, NEW k PROVE Iterates(f, filling, conf, file, rank, x, k) <=> UpTo(f, k)
    BY IteratesValues, Zenon
  <2> QED
    BY <2>1
<1> HIDE DEF onto
<1>1. 0 \in S
  <2> DEFINE g == [i \in 0 .. 0 |-> x]
  <2>1. \A i \in 0 .. 0 : i = 0 /\ g[i] = x
    OBVIOUS
  <2> HIDE DEF g
  <2>2. g = [i \in 0 .. 0 |-> g[i]]
    BY DEF g
  <2>3. UpTo(g, 0)
    BY <2>1, <2>2
  <2> QED
    BY <2>3
<1>2. ASSUME NEW k \in Nat, k \in S
      PROVE  k + 1 \in S
  <2>1. PICK f : UpTo(f, k)
    BY <1>2
  <2> DEFINE g == [i \in 0 .. (k + 1) |-> IF i <= k THEN f[i] ELSE onto(f[i - 1], i)]
  <2>2. ASSUME NEW i \in 0 .. (k + 1)
        PROVE  g[i] = IF i = 0 THEN x ELSE onto(g[i - 1], i)
    <3>1. CASE i <= k
      <4>1. g[i] = f[i] /\ (i # 0 => g[i - 1] = f[i - 1])
        BY <3>1
      <4>0. i \in 0 .. k /\ \A j \in 0 .. k : f[j] = IF j = 0 THEN x ELSE onto(f[j - 1], j)
        <5>1. i \in 0 .. k
          BY <3>1
        <5> QED
          BY <2>1, <5>1, Zenon
      <4>2. f[i] = IF i = 0 THEN x ELSE onto(f[i - 1], i)
        BY <4>0
      <4> HIDE DEF g
      <4> QED
        BY <4>1, <4>2
    <3>2. CASE i = k + 1
      <4>1. g[i] = onto(f[i - 1], i) /\ g[i - 1] = f[i - 1] /\ i # 0
        BY <3>2
      <4> HIDE DEF g
      <4> QED
        BY <4>1
    <3> QED
      BY <3>1, <3>2
  <2>3. UpTo(g, k + 1)
    <3> HIDE DEF g
    <3>1. g = [i \in 0 .. (k + 1) |-> g[i]]
      BY DEF g
    <3> QED
      BY <2>2, <3>1, Zenon
  <2>4. k + 1 \in Nat
    OBVIOUS
  <2> HIDE DEF UpTo, g
  <2> QED
    BY <2>3, <2>4
<1> HIDE DEF S
<1>3. Nat \subseteq S
  BY <1>1, <1>2, SetInduction
<1>4. \E f : UpTo(f, n)
  BY <1>3 DEF S
<1> HIDE DEF UpTo
<1> QED
  BY <1>0, <1>4

Stepwise(f, filling, conf, file, rank, x, n) ==
  f[0] = x /\ \A i \in 1 .. n : f[i] = Step(filling, conf, file, rank, f[i - 1], i)

LEMMA StepsOf ==
  ASSUME NEW f, NEW filling, NEW conf, NEW file, NEW rank, NEW x, NEW n \in Nat,
         Iterates(f, filling, conf, file, rank, x, n)
  PROVE  Stepwise(f, filling, conf, file, rank, x, n)
<1> DEFINE onto(y, i) == Step(filling, conf, file, rank, y, i)
<1>1. \A i \in 0 .. n : f[i] = IF i = 0 THEN x ELSE onto(f[i - 1], i)
  BY IteratesValues, Zenon
<1>2. 0 \in 0 .. n /\ \A i \in 1 .. n : i \in 0 .. n /\ i # 0
  OBVIOUS
<1> HIDE DEF onto
<1>3. f[0] = x /\ \A i \in 1 .. n : f[i] = onto(f[i - 1], i)
  BY <1>1, <1>2
<1> QED
  BY <1>3 DEF onto, Stepwise

LEMMA BatchIs ==
  ASSUME NEW conf, NEW file, NEW rank, NEW loader, CanFitExamples(conf) \in Nat
  PROVE  \E f : /\ f[0] = loader
                /\ \A i \in 1 .. CanFitExamples(conf) : f[i] = FillPlace(conf, file, rank, f[i - 1], i)
                /\ BatchOf(conf, file, rank, loader) = f[CanFitExamples(conf)]
<1> DEFINE n == CanFitExamples(conf)
           fills(f) == f = [i \in 0 .. n |-> IF i = 0 THEN loader ELSE FillPlace(conf, file, rank, f[i - 1], i)]
           g == CHOOSE f : fills(f)
<1>1. BatchOf(conf, file, rank, loader) = g[n]
  BY Zenon DEF BatchOf, FillPlace
<1>2. \A y, i : Step(TRUE, conf, file, rank, y, i) = FillPlace(conf, file, rank, y, i)
  BY DEF Step
<1>3. \A f : fills(f) <=> Iterates(f, TRUE, conf, file, rank, loader, n)
  BY Zenon DEF Iterates, Step
<1>4. fills(g)
  <2>1. \E f : fills(f)
    BY <1>3, IteratesExist, Zenon
  <2> HIDE DEF fills
  <2> QED
    BY <2>1, Zenon
<1> HIDE DEF g, fills, n
<1>5. g[0] = loader /\ \A i \in 1 .. n : g[i] = Step(TRUE, conf, file, rank, g[i - 1], i)
  <2>1. n \in Nat
    BY DEF n
  <2>2. Iterates(g, TRUE, conf, file, rank, loader, n)
    BY <1>3, <1>4, Zenon
  <2>3. Stepwise(g, TRUE, conf, file, rank, loader, n)
    BY <2>1, <2>2, StepsOf, Zenon
  <2> QED
    BY <2>3, Zenon DEF Stepwise
<1> QED
  BY <1>1, <1>2, <1>5, Zenon DEF n

LEMMA EvaluateIs ==
  ASSUME NEW conf, NEW file, NEW rank, NEW loader, EvalNumBatches(conf, file) \in Nat
  PROVE  \E f : /\ f[0] = [loader |-> ResetEval(conf, file, rank, loader), correct |-> 0]
                /\ \A i \in 1 .. EvalNumBatches(conf, file) : f[i] = Evaluated(conf, file, rank, f[i - 1])
                /\ Evaluate(conf, file, rank, loader) = f[EvalNumBatches(conf, file)]
<1> DEFINE n == EvalNumBatches(conf, file)
           x == [loader |-> ResetEval(conf, file, rank, loader), correct |-> 0]
           runs(f) == f = [i \in 0 .. n |-> IF i = 0 THEN x ELSE Evaluated(conf, file, rank, f[i - 1])]
           g == CHOOSE f : runs(f)
<1>1. Evaluate(conf, file, rank, loader) = g[n]
  BY Zenon DEF Evaluate, Evaluated
<1>2. \A y, i : Step(FALSE, conf, file, rank, y, i) = Evaluated(conf, file, rank, y)
  BY DEF Step
<1> HIDE DEF x
<1>3. \A f : runs(f) <=> Iterates(f, FALSE, conf, file, rank, x, n)
  BY Zenon DEF Iterates, Step
<1>4. runs(g)
  <2>1. \E f : runs(f)
    BY <1>3, IteratesExist, Zenon
  <2> HIDE DEF runs
  <2> QED
    BY <2>1, Zenon
<1> HIDE DEF g, runs, n
<1>5. g[0] = x /\ \A i \in 1 .. n : g[i] = Step(FALSE, conf, file, rank, g[i - 1], i)
  <2>1. n \in Nat
    BY DEF n
  <2>2. Iterates(g, FALSE, conf, file, rank, x, n)
    BY <1>3, <1>4, Zenon
  <2>3. Stepwise(g, FALSE, conf, file, rank, x, n)
    BY <2>1, <2>2, StepsOf, Zenon
  <2> QED
    BY <2>3, Zenon DEF Stepwise
<1> QED
  BY <1>1, <1>2, <1>5, Zenon DEF n, x
-----------------------------------------------------------------------------
(***************************************************************************)
(* One place of a batch.                                                   *)
(***************************************************************************)
BufferFits(conf, x) == DOMAIN x = 1 .. conf.B /\ \A b \in 1 .. conf.B : DOMAIN x[b] = 1 .. conf.T
Shaped(conf, l) ==
  /\ l = [label |-> l.label, inputs |-> l.inputs, targets |-> l.targets, mask |-> l.mask,
          current |-> l.current, at |-> l.at]
  /\ DOMAIN l.label = 1 .. CanFitExamples(conf)
  /\ BufferFits(conf, l.inputs) /\ BufferFits(conf, l.targets) /\ BufferFits(conf, l.mask)
  /\ \A b \in 1 .. conf.B : \A t \in 1 .. conf.T : l.mask[b][t] \in BOOLEAN

\* Place i of the batch holds the example e, or nothing that counts.
PlaceHolds(conf, l, i, e) ==
  l.label[i] = e.label /\ \A a \in 1 .. NumCompletions : RowHolds(l, RowOf(i, a), e, a, conf.T)
MaskedOff(conf, l, i) ==
  \A a \in 1 .. NumCompletions : \A t \in 1 .. conf.T : l.mask[RowOf(i, a)][t] = FALSE

\* Place i of x is place i of y.
SamePlace(conf, x, y, i) ==
  /\ x.label[i] = y.label[i]
  /\ \A a \in 1 .. NumCompletions : \A t \in 1 .. conf.T :
       /\ x.inputs[RowOf(i, a)][t] = y.inputs[RowOf(i, a)][t]
       /\ x.targets[RowOf(i, a)][t] = y.targets[RowOf(i, a)][t]
       /\ x.mask[RowOf(i, a)][t] = y.mask[RowOf(i, a)][t]

\* The fields of NextExample, with names for their parts.
ReadNow(l, file) == ReadExample(file.stream, l.at)
RowText(l, file, i) ==
  [b \in RowsOf(i) |-> ReadNow(l, file).ctx \o ReadNow(l, file).endings[b - (i - 1) * NumCompletions]]
ScoredAt(l, file, i, b, t) ==
  b \in RowsOf(i) /\ Len(ReadNow(l, file).ctx) <= t /\ t < Len(RowText(l, file, i)[b])

AsWritten(conf, l, file, i) ==
  LET r == NextExample(l, file, i)
  IN  /\ Shaped(conf, r)
      /\ r.current = l.current + 1 /\ r.at = l.at + file.stream[l.at + 1] \div 2
      /\ r.label[i] = ReadNow(l, file).label
      /\ \A j \in 1 .. CanFitExamples(conf) : j # i => r.label[j] = l.label[j]
      /\ \A b \in 1 .. conf.B : \A t \in 1 .. conf.T :
           /\ r.inputs[b][t] = IF b \in RowsOf(i) /\ t <= Len(RowText(l, file, i)[b])
                               THEN RowText(l, file, i)[b][t] ELSE l.inputs[b][t]
           /\ r.targets[b][t] = IF ScoredAt(l, file, i, b, t)
                                THEN RowText(l, file, i)[b][t + 1] ELSE l.targets[b][t]
           /\ r.mask[b][t] = (ScoredAt(l, file, i, b, t) \/ l.mask[b][t])

LEMMA NextExampleFields ==
  ASSUME NEW conf, NEW l, Shaped(conf, l), NEW file, NEW i \in 1 .. CanFitExamples(conf)
  PROVE  AsWritten(conf, l, file, i)
<1> DEFINE r == NextExample(l, file, i)
           mine == RowsOf(i)
           text == RowText(l, file, i)
           scored(b, t) == ScoredAt(l, file, i, b, t)
           v == ReadNow(l, file).label
           label == [l.label EXCEPT ![i] = v]
           inputs == [b \in DOMAIN l.inputs |-> [t \in DOMAIN l.inputs[b] |->
                        IF b \in mine /\ t <= Len(text[b]) THEN text[b][t] ELSE l.inputs[b][t]]]
           targets == [b \in DOMAIN l.targets |-> [t \in DOMAIN l.targets[b] |->
                         IF scored(b, t) THEN text[b][t + 1] ELSE l.targets[b][t]]]
           mask == [b \in DOMAIN l.mask |-> [t \in DOMAIN l.mask[b] |-> scored(b, t) \/ l.mask[b][t]]]
           current == l.current + 1
           at == l.at + file.stream[l.at + 1] \div 2
<1>1. r = [label |-> label, inputs |-> inputs, targets |-> targets, mask |-> mask,
           current |-> current, at |-> at]
  BY Zenon DEF NextExample, ReadNow, RowsOf, RowText, ScoredAt
<1>2. /\ DOMAIN l.label = 1 .. CanFitExamples(conf)
      /\ DOMAIN l.inputs = 1 .. conf.B /\ \A b \in 1 .. conf.B : DOMAIN l.inputs[b] = 1 .. conf.T
      /\ DOMAIN l.targets = 1 .. conf.B /\ \A b \in 1 .. conf.B : DOMAIN l.targets[b] = 1 .. conf.T
      /\ DOMAIN l.mask = 1 .. conf.B /\ \A b \in 1 .. conf.B : DOMAIN l.mask[b] = 1 .. conf.T
      /\ \A b \in 1 .. conf.B : \A t \in 1 .. conf.T : l.mask[b][t] \in BOOLEAN
  BY Zenon DEF Shaped, BufferFits
<1> HIDE DEF mine, text, scored, v, current, at
<1>3. DOMAIN label = 1 .. CanFitExamples(conf) /\ label[i] = v /\ \A j \in 1 .. CanFitExamples(conf) : j # i => label[j] = l.label[j]
  BY <1>2, Zenon
<1>4. BufferFits(conf, inputs) /\ \A b \in 1 .. conf.B : \A t \in 1 .. conf.T :
        inputs[b][t] = IF b \in mine /\ t <= Len(text[b]) THEN text[b][t] ELSE l.inputs[b][t]
  BY <1>2, Zenon DEF BufferFits
<1>5. BufferFits(conf, targets) /\ \A b \in 1 .. conf.B : \A t \in 1 .. conf.T :
        targets[b][t] = IF scored(b, t) THEN text[b][t + 1] ELSE l.targets[b][t]
  BY <1>2, Zenon DEF BufferFits
<1>6. /\ BufferFits(conf, mask)
      /\ \A b \in 1 .. conf.B : \A t \in 1 .. conf.T : mask[b][t] = (scored(b, t) \/ l.mask[b][t])
  <2>1. BufferFits(conf, mask)
    BY <1>2 DEF BufferFits
  <2>2. ASSUME NEW b \in 1 .. conf.B, NEW t \in 1 .. conf.T
        PROVE  mask[b][t] = (scored(b, t) \/ l.mask[b][t])
    <3>1. b \in DOMAIN l.mask /\ t \in DOMAIN l.mask[b]
      BY <1>2, Zenon
    <3> QED
      BY <3>1, Zenon
  <2> QED
    BY <2>1, <2>2, Zenon
<1>7. \A b \in 1 .. conf.B : \A t \in 1 .. conf.T : mask[b][t] \in BOOLEAN
  <2> HIDE DEF mask
  <2>1. ASSUME NEW b \in 1 .. conf.B, NEW t \in 1 .. conf.T
        PROVE  mask[b][t] \in BOOLEAN
    BY <1>6, Zenon
  <2> QED
    BY <2>1
<1> HIDE DEF r, label, inputs, targets, mask
<1>8. /\ r.label = label /\ r.inputs = inputs /\ r.targets = targets /\ r.mask = mask
      /\ r.current = current /\ r.at = at
      /\ r = [label |-> r.label, inputs |-> r.inputs, targets |-> r.targets, mask |-> r.mask,
              current |-> r.current, at |-> r.at]
  BY <1>1
<1>9. Shaped(conf, r)
  BY <1>3, <1>4, <1>5, <1>6, <1>7, <1>8, Zenon DEF Shaped
<1>10. \A b \in 1 .. conf.B : \A t \in 1 .. conf.T :
         /\ r.inputs[b][t] = IF b \in mine /\ t <= Len(text[b]) THEN text[b][t] ELSE l.inputs[b][t]
         /\ r.targets[b][t] = IF scored(b, t) THEN text[b][t + 1] ELSE l.targets[b][t]
         /\ r.mask[b][t] = (scored(b, t) \/ l.mask[b][t])
  BY <1>4, <1>5, <1>6, <1>8, Zenon
<1>11. r.label[i] = v /\ \A j \in 1 .. CanFitExamples(conf) : j # i => r.label[j] = l.label[j]
  BY <1>3, <1>8
<1> QED
  BY <1>8, <1>9, <1>10, <1>11, Zenon DEF AsWritten, r, mine, text, scored, v, current, at
LEMMA OtherPlaces ==
  ASSUME NEW conf \in EvalConfigs, NEW l, Shaped(conf, l), NEW file,
         NEW i \in 1 .. CanFitExamples(conf), NEW j \in 1 .. CanFitExamples(conf), j # i
  PROVE  SamePlace(conf, NextExample(l, file, i), l, j)
<1> DEFINE r == NextExample(l, file, i)
<1>1. /\ \A k \in 1 .. CanFitExamples(conf) : k # i => r.label[k] = l.label[k]
      /\ \A b \in 1 .. conf.B : \A t \in 1 .. conf.T :
           /\ r.inputs[b][t] = IF b \in RowsOf(i) /\ t <= Len(RowText(l, file, i)[b])
                               THEN RowText(l, file, i)[b][t] ELSE l.inputs[b][t]
           /\ r.targets[b][t] = IF ScoredAt(l, file, i, b, t)
                                THEN RowText(l, file, i)[b][t + 1] ELSE l.targets[b][t]
           /\ r.mask[b][t] = (ScoredAt(l, file, i, b, t) \/ l.mask[b][t])
  <2>1. AsWritten(conf, l, file, i)
    BY NextExampleFields
  <2> QED
    BY <2>1, Zenon DEF AsWritten
<1> HIDE DEF r
<1>2. ASSUME NEW a \in 1 .. NumCompletions, NEW t \in 1 .. conf.T
      PROVE  /\ r.inputs[RowOf(j, a)][t] = l.inputs[RowOf(j, a)][t]
             /\ r.targets[RowOf(j, a)][t] = l.targets[RowOf(j, a)][t]
             /\ r.mask[RowOf(j, a)][t] = l.mask[RowOf(j, a)][t]
  <2> DEFINE b == RowOf(j, a)
  <2>1. b \in 1 .. conf.B /\ b \notin RowsOf(i)
    BY RowsApart
  <2> HIDE DEF b
  <2>2. ~ ScoredAt(l, file, i, b, t)
    BY <2>1, Zenon DEF ScoredAt
  <2>3. r.inputs[b][t] = l.inputs[b][t] /\ r.targets[b][t] = l.targets[b][t]
    BY <1>1, <2>1, <2>2, Zenon
  <2>4. r.mask[b][t] = (ScoredAt(l, file, i, b, t) \/ l.mask[b][t])
    BY <1>1, <2>1, Zenon
  <2>5. l.mask[b][t] \in BOOLEAN
    BY <2>1, Zenon DEF Shaped
  <2>6. r.mask[b][t] = l.mask[b][t]
    BY <2>2, <2>4, <2>5, Zenon
  <2> QED
    BY <2>3, <2>6 DEF b
<1> QED
  BY <1>1, <1>2, Zenon DEF SamePlace, r

\* The example at loader.at is in the place it goes to, and the loader is at the next one.
LEMMA ExampleIsPlaced ==
  ASSUME NEW n \in Nat \ {0}, NEW datas \in [1 .. n -> Examples], NEW conf \in EvalConfigs,
         ExamplesFit(conf, datas), NEW l, Shaped(conf, l), NEW c \in 0 .. n - 1,
         l.current = c, l.at = ExampleAt(datas, c),
         NEW i \in 1 .. CanFitExamples(conf), MaskedOff(conf, l, i)
  PROVE  LET r == NextExample(l, WriteEvalFile(datas), i)
         IN  /\ Shaped(conf, r) /\ r.current = c + 1 /\ r.at = ExampleAt(datas, c + 1)
             /\ PlaceHolds(conf, r, i, datas[c + 1])
<1> DEFINE file == WriteEvalFile(datas)
           r == NextExample(l, file, i)
           e == datas[c + 1]
           now == ReadNow(l, file)
           text == RowText(l, file, i)
           T == conf.T
<1>1. e \in Examples /\ c + 1 \in 1 .. n
  OBVIOUS
<1>2. file.stream = Stream(datas)
  BY FileIs
<1>3. now.label = e.label /\ now.ctx = e.ctx /\ now.endings = [k \in 1 .. NumCompletions |-> e.endings[k]]
  <2>1. now = ReadExample(Stream(datas), ExampleAt(datas, c))
    BY <1>2, Zenon DEF ReadNow
  <2>2. ReadsIt(datas, c)
    BY ReadsTheExample
  <2> QED
    BY <2>1, <2>2, Zenon DEF ReadsIt
<1>4. ExampleAt(datas, c + 1) = l.at + file.stream[l.at + 1] \div 2
  BY <1>2, NextExampleAt
<1> HIDE DEF file, now
<1>5. /\ Shaped(conf, r) /\ r.current = l.current + 1 /\ r.at = l.at + file.stream[l.at + 1] \div 2
      /\ r.label[i] = now.label
      /\ \A b \in 1 .. conf.B : \A t \in 1 .. conf.T :
           /\ r.inputs[b][t] = IF b \in RowsOf(i) /\ t <= Len(text[b]) THEN text[b][t] ELSE l.inputs[b][t]
           /\ r.targets[b][t] = IF ScoredAt(l, file, i, b, t) THEN text[b][t + 1] ELSE l.targets[b][t]
           /\ r.mask[b][t] = (ScoredAt(l, file, i, b, t) \/ l.mask[b][t])
  <2>1. AsWritten(conf, l, file, i)
    BY NextExampleFields
  <2> QED
    BY <2>1, Zenon DEF AsWritten, now
<1>6. Len(e.ctx) \in Nat \ {0} /\ T \in Nat \ {0}
  BY <1>1, ExampleParts, ConfParts
<1> HIDE DEF r, e, T
<1>7. ASSUME NEW a \in 1 .. NumCompletions
      PROVE  RowHolds(r, RowOf(i, a), e, a, T)
  <2> DEFINE b == RowOf(i, a)
             s == EndingText(e, a)
             m == Len(s)
             k == Len(e.ctx)
  <2>1. b \in 1 .. conf.B /\ b \in RowsOf(i) /\ b - (i - 1) * NumCompletions = a
    BY RowsApart
  <2>2. m \in Nat /\ m < T /\ k \in Nat \ {0} /\ k < m
    <3>1. m = Len(e.ctx) + Len(e.endings[a])
      BY <1>1, TextIs, Zenon
    <3>2. m \in Nat /\ k < m
      BY <1>1, TextIs, Zenon
    <3>3. Len(datas[c + 1].ctx) + Len(datas[c + 1].endings[a]) < conf.T
      <4>1. DOMAIN e.endings = 1 .. NumCompletions
        BY <1>1, ExampleParts
      <4>2. DOMAIN datas = 1 .. n
        OBVIOUS
      <4> QED
        BY <1>1, <4>1, <4>2, Zenon DEF ExamplesFit, e
    <3> QED
      BY <1>6, <3>1, <3>2, <3>3, Zenon DEF e, T
  <2> HIDE DEF b
  <2>3. text[b] = s
    <3>1. text[b] = now.ctx \o now.endings[b - (i - 1) * NumCompletions]
      BY <2>1, Zenon DEF RowText, now
    <3> QED
      BY <1>3, <2>1, <3>1, Zenon DEF EndingText
  <2> HIDE DEF s, m, k
  <2>4. \A t \in 1 .. T : ScoredAt(l, file, i, b, t) <=> (k <= t /\ t < m)
    BY <1>3, <2>1, <2>3, Zenon DEF ScoredAt, now, k, m
  <2>5. \A t \in 1 .. T : /\ r.inputs[b][t] = IF t <= m THEN s[t] ELSE l.inputs[b][t]
                         /\ r.targets[b][t] = IF k <= t /\ t < m THEN s[t + 1] ELSE l.targets[b][t]
    <3>1. ASSUME NEW t \in 1 .. T
          PROVE  /\ r.inputs[b][t] = IF t <= m THEN s[t] ELSE l.inputs[b][t]
                 /\ r.targets[b][t] = IF k <= t /\ t < m THEN s[t + 1] ELSE l.targets[b][t]
      BY <1>5, <2>1, <2>3, <2>4 DEF m, T
    <3> QED
      BY <3>1
  <2>6. \A t \in 1 .. T : r.mask[b][t] = (k <= t /\ t < m)
    <3>1. ASSUME NEW t \in 1 .. T PROVE r.mask[b][t] = (k <= t /\ t < m)
      <4>1. r.mask[b][t] = (ScoredAt(l, file, i, b, t) \/ l.mask[b][t])
        BY <1>5, <2>1, Zenon DEF T
      <4>2. l.mask[b][t] = FALSE
        BY Zenon DEF MaskedOff, b, T
      <4> QED
        BY <2>4, <4>1, <4>2, Zenon
    <3> QED
      BY <3>1
  <2>7. DOMAIN r.mask[b] = 1 .. T
    BY <1>5, <2>1, Zenon DEF Shaped, BufferFits, T
  <2>8. /\ \A t \in 1 .. m : r.inputs[b][t] = s[t]
        /\ \A t \in k .. m - 1 : r.targets[b][t] = s[t + 1]
    <3>1. /\ \A t \in 1 .. m : t \in 1 .. T /\ t <= m
          /\ \A t \in k .. m - 1 : t \in 1 .. T /\ k <= t /\ t < m
      BY <1>6, <2>2
    <3> QED
      BY <2>5, <3>1
  <2> QED
    BY <2>6, <2>7, <2>8, Zenon DEF RowHolds, b, s, m, k
<1>8. PlaceHolds(conf, r, i, e)
  BY <1>3, <1>5, <1>7, Zenon DEF PlaceHolds, T
<1> QED
  BY <1>4, <1>5, <1>8 DEF r, e, file
LEMMA StaysHeld ==
  ASSUME NEW n \in Nat \ {0}, NEW datas \in [1 .. n -> Examples], NEW conf \in EvalConfigs,
         ExamplesFit(conf, datas), NEW x, Shaped(conf, x), NEW y, Shaped(conf, y),
         NEW j \in 1 .. CanFitExamples(conf), SamePlace(conf, x, y, j)
  PROVE  /\ \A d \in 1 .. n : PlaceHolds(conf, y, j, datas[d]) => PlaceHolds(conf, x, j, datas[d])
         /\ MaskedOff(conf, y, j) => MaskedOff(conf, x, j)
<1> DEFINE T == conf.T
<1>1. ASSUME NEW d \in 1 .. n, PlaceHolds(conf, y, j, datas[d])
      PROVE  PlaceHolds(conf, x, j, datas[d])
  <2> DEFINE e == datas[d]
  <2>1. e \in Examples /\ T \in Nat \ {0}
    BY ConfParts
  <2>2. x.label[j] = e.label
    BY <1>1, Zenon DEF PlaceHolds, SamePlace
  <2>3. ASSUME NEW a \in 1 .. NumCompletions
        PROVE  RowHolds(x, RowOf(j, a), e, a, T)
    <3> DEFINE b == RowOf(j, a)
               s == EndingText(e, a)
               m == Len(s)
               k == Len(e.ctx)
    <3>1. /\ DOMAIN y.mask[b] = 1 .. T
          /\ \A t \in 1 .. T : y.mask[b][t] = (k <= t /\ t < m)
          /\ \A t \in 1 .. m : y.inputs[b][t] = s[t]
          /\ \A t \in k .. m - 1 : y.targets[b][t] = s[t + 1]
      <4>1. RowHolds(y, b, e, a, T)
        BY <1>1, Zenon DEF PlaceHolds
      <4> QED
        BY <4>1, Zenon DEF RowHolds
    <3>2. DOMAIN x.mask[b] = 1 .. T
      <4>1. b \in 1 .. conf.B
        BY RowsApart
      <4> QED
        BY <4>1, Zenon DEF Shaped, BufferFits
    <3>3. /\ \A t \in 1 .. T : /\ x.inputs[b][t] = y.inputs[b][t]
                               /\ x.targets[b][t] = y.targets[b][t]
                               /\ x.mask[b][t] = y.mask[b][t]
      BY Zenon DEF SamePlace
    <3>4. m \in Nat /\ m < T /\ k \in Nat \ {0} /\ k < m
      <4>1. m = Len(e.ctx) + Len(e.endings[a]) /\ m \in Nat /\ k < m /\ k \in Nat \ {0}
        BY <2>1, TextIs, Zenon
      <4>2. DOMAIN e.endings = 1 .. NumCompletions
        BY <2>1, ExampleParts
      <4>3. DOMAIN datas = 1 .. n
        OBVIOUS
      <4> HIDE DEF s
      <4>4. Len(e.ctx) + Len(e.endings[a]) < T
        BY <4>2, <4>3, Zenon DEF ExamplesFit
      <4> HIDE DEF e, T
      <4> QED
        BY <4>1, <4>4, Zenon
    <3> HIDE DEF b, s, m, k, T, e
    <3>5. /\ \A t \in 1 .. m : t \in 1 .. T
          /\ \A t \in k .. m - 1 : t \in 1 .. T
      BY <2>1, <3>4
    <3>6. /\ \A t \in 1 .. m : x.inputs[b][t] = s[t]
          /\ \A t \in k .. m - 1 : x.targets[b][t] = s[t + 1]
      BY <3>1, <3>3, <3>5, Zenon
    <3>7. \A t \in 1 .. T : x.mask[b][t] = (k <= t /\ t < m)
      BY <3>1, <3>3, Zenon
    <3> QED
      BY <3>2, <3>6, <3>7, Zenon DEF RowHolds, b, s, m, k
  <2> QED
    BY <2>2, <2>3, Zenon DEF PlaceHolds
<1>2. MaskedOff(conf, y, j) => MaskedOff(conf, x, j)
  <2>1. ASSUME MaskedOff(conf, y, j), NEW a \in 1 .. NumCompletions, NEW t \in 1 .. conf.T
        PROVE  x.mask[RowOf(j, a)][t] = FALSE
    <3>1. y.mask[RowOf(j, a)][t] = FALSE
      BY <2>1, Zenon DEF MaskedOff
    <3>2. x.mask[RowOf(j, a)][t] = y.mask[RowOf(j, a)][t]
      BY Zenon DEF SamePlace
    <3> QED
      BY <3>1, <3>2, Zenon
  <2> QED
    BY <2>1, Zenon DEF MaskedOff
<1> QED
  BY <1>1, <1>2

-----------------------------------------------------------------------------
(***************************************************************************)
(* A batch: the examples from the one after c on, as many as fit and as    *)
(* are left up to the last one, E.                                         *)
(***************************************************************************)
Took(c, E, i) == IF c + i <= E THEN i ELSE E - c
FilledTo(conf, datas, c, E, l, i) ==
  /\ Shaped(conf, l)
  /\ l.current = c + Took(c, E, i) /\ l.at = ExampleAt(datas, c + Took(c, E, i))
  /\ \A j \in 1 .. CanFitExamples(conf) :
       /\ j <= Took(c, E, i) => PlaceHolds(conf, l, j, datas[c + j])
       /\ j > Took(c, E, i) => MaskedOff(conf, l, j)

LEMMA PlaceKeepsFilled ==
  ASSUME NEW n \in Nat \ {0}, NEW datas \in [1 .. n -> Examples], NEW conf \in EvalConfigs,
         ExamplesFit(conf, datas), NEW rank, EndIndex(conf, WriteEvalFile(datas), rank) \in 0 .. n,
         NEW c \in 0 .. EndIndex(conf, WriteEvalFile(datas), rank),
         NEW i \in Nat, i + 1 <= CanFitExamples(conf), NEW l,
         FilledTo(conf, datas, c, EndIndex(conf, WriteEvalFile(datas), rank), l, i)
  PROVE  FilledTo(conf, datas, c, EndIndex(conf, WriteEvalFile(datas), rank),
                  FillPlace(conf, WriteEvalFile(datas), rank, l, i + 1), i + 1)
<1> DEFINE file == WriteEvalFile(datas)
           E == EndIndex(conf, file, rank)
           can == CanFitExamples(conf)
           k == Took(c, E, i)
           next == FillPlace(conf, file, rank, l, i + 1)
<1>1. can \in Nat
  BY ConfParts
<1>2. /\ Shaped(conf, l) /\ l.current = c + k /\ l.at = ExampleAt(datas, c + k)
      /\ \A j \in 1 .. can : /\ j <= k => PlaceHolds(conf, l, j, datas[c + j])
                             /\ j > k => MaskedOff(conf, l, j)
  BY Zenon DEF FilledTo
<1>3. E \in 0 .. n /\ c \in 0 .. E
  OBVIOUS
<1> HIDE DEF E
<1>4. CASE c + i < E
  <2>1. k = i /\ Took(c, E, i + 1) = i + 1
    BY <1>3, <1>4 DEF Took
  <2>2. c + k < E /\ c + i \in 0 .. n - 1 /\ c + i + 1 \in 1 .. n /\ c + i + 1 = c + (i + 1) /\ i + 1 \in 1 .. can
    BY <1>1, <1>3, <1>4, <2>1
  <2>3. next = NextExample(l, file, i + 1)
    BY <1>2, <2>2 DEF FillPlace, E
  <2>4. i + 1 > i /\ MaskedOff(conf, l, i + 1)
    BY <1>2, <2>1, <2>2
  <2> DEFINE r == NextExample(l, file, i + 1)
  <2>5. /\ Shaped(conf, r) /\ r.current = c + (i + 1) /\ r.at = ExampleAt(datas, c + (i + 1))
        /\ PlaceHolds(conf, r, i + 1, datas[c + (i + 1)])
    <3> DEFINE p == c + i
               q == i + 1
    <3>1. p \in 0 .. n - 1 /\ q \in 1 .. CanFitExamples(conf) /\ p + 1 = c + q /\ l.current = p /\ l.at = ExampleAt(datas, p)
          /\ MaskedOff(conf, l, q)
      BY <1>2, <2>1, <2>2, <2>4
    <3> HIDE DEF p, q
    <3>2. LET s == NextExample(l, WriteEvalFile(datas), q)
          IN  /\ Shaped(conf, s) /\ s.current = p + 1 /\ s.at = ExampleAt(datas, p + 1)
              /\ PlaceHolds(conf, s, q, datas[p + 1])
      BY <1>2, <3>1, ExampleIsPlaced
    <3> QED
      BY <3>1, <3>2 DEF q
  <2>6. ASSUME NEW j \in 1 .. can
        PROVE  /\ j <= i + 1 => PlaceHolds(conf, r, j, datas[c + j])
               /\ j > i + 1 => MaskedOff(conf, r, j)
    <3>1. CASE j = i + 1
      BY <1>3, <2>5, <3>1
    <3>2. CASE j # i + 1
      <4>1. SamePlace(conf, r, l, j)
        BY <1>2, <2>2, <3>2, OtherPlaces
      <4> HIDE DEF r
      <4>2. \A d \in 1 .. n : PlaceHolds(conf, l, j, datas[d]) => PlaceHolds(conf, r, j, datas[d])
        BY <1>2, <2>5, <4>1, StaysHeld
      <4>3. MaskedOff(conf, l, j) => MaskedOff(conf, r, j)
        BY <1>2, <2>5, <4>1, StaysHeld
      <4>4. CASE j <= i
        <5>1. c + j \in 1 .. n
          BY <1>1, <1>3, <1>4, <4>4
        <5>2. PlaceHolds(conf, l, j, datas[c + j])
          BY <1>2, <2>1, <4>4
        <5> QED
          BY <1>1, <4>2, <4>4, <5>1, <5>2
      <4>5. CASE j > i + 1
        <5>1. j > k
          BY <1>1, <2>1, <4>5
        <5> QED
          BY <1>1, <1>2, <4>3, <4>5, <5>1
      <4> QED
        BY <1>1, <3>2, <4>4, <4>5
    <3> QED
      BY <3>1, <3>2
  <2> HIDE DEF r, next, k
  <2>7. FilledTo(conf, datas, c, E, r, i + 1)
    BY <2>1, <2>5, <2>6 DEF FilledTo
  <2> QED
    BY <2>3, <2>7 DEF r, E, next
<1>5. CASE ~ (c + i < E)
  <2>1. k = E - c /\ Took(c, E, i + 1) = k /\ ~ (c + k < E)
    BY <1>3, <1>5 DEF Took
  <2>2. next = l
    BY <1>2, <2>1 DEF FillPlace, E
  <2> HIDE DEF k, next
  <2>3. FilledTo(conf, datas, c, E, l, i + 1)
    BY <1>2, <2>1, Zenon DEF FilledTo
  <2> QED
    BY <2>2, <2>3 DEF E, next
<1> QED
  BY <1>4, <1>5
LEMMA BatchHolds ==
  ASSUME NEW n \in Nat \ {0}, NEW datas \in [1 .. n -> Examples], NEW conf \in EvalConfigs,
         ExamplesFit(conf, datas), NEW rank, EndIndex(conf, WriteEvalFile(datas), rank) \in 0 .. n,
         NEW c \in 0 .. EndIndex(conf, WriteEvalFile(datas), rank),
         NEW l, Shaped(conf, l), l.current = c, l.at = ExampleAt(datas, c)
  PROVE  FilledTo(conf, datas, c, EndIndex(conf, WriteEvalFile(datas), rank),
                  NextBatch(conf, WriteEvalFile(datas), rank, l), CanFitExamples(conf))
<1> DEFINE file == WriteEvalFile(datas)
           E == EndIndex(conf, file, rank)
           can == CanFitExamples(conf)
           off == [b \in 1 .. conf.B |-> [t \in 1 .. conf.T |-> FALSE]]
           cleared == [l EXCEPT !.mask = off]
<1>1. can \in Nat
  BY ConfParts
<1>2. /\ cleared.label = l.label /\ cleared.inputs = l.inputs /\ cleared.targets = l.targets
      /\ cleared.mask = off /\ cleared.current = c /\ cleared.at = ExampleAt(datas, c)
      /\ cleared = [label |-> cleared.label, inputs |-> cleared.inputs, targets |-> cleared.targets,
                    mask |-> cleared.mask, current |-> cleared.current, at |-> cleared.at]
  <2> DEFINE u == l.label
             v == l.inputs
             w == l.targets
             x == l.mask
             y == l.current
             z == l.at
  <2>1. l = [label |-> u, inputs |-> v, targets |-> w, mask |-> x, current |-> y, at |-> z]
    BY Zenon DEF Shaped
  <2>2. y = c /\ z = ExampleAt(datas, c)
    OBVIOUS
  <2> HIDE DEF off, u, v, w, x, y, z
  <2>3. cleared = [label |-> u, inputs |-> v, targets |-> w, mask |-> off, current |-> y, at |-> z]
    BY <2>1
  <2> HIDE DEF cleared
  <2> QED
    BY <2>2, <2>3 DEF u, v, w
<1>3. Shaped(conf, cleared)
  <2>1. BufferFits(conf, off) /\ \A b \in 1 .. conf.B : \A t \in 1 .. conf.T : off[b][t] = FALSE
    BY DEF BufferFits
  <2> HIDE DEF cleared, off
  <2> QED
    BY <1>2, <2>1, Zenon DEF Shaped
<1>4. \A j \in 1 .. can : MaskedOff(conf, cleared, j)
  <2>1. ASSUME NEW j \in 1 .. can, NEW a \in 1 .. NumCompletions, NEW t \in 1 .. conf.T
        PROVE  cleared.mask[RowOf(j, a)][t] = FALSE
    <3>1. RowOf(j, a) \in 1 .. conf.B
      BY RowsApart
    <3> HIDE DEF cleared
    <3> QED
      BY <1>2, <3>1
  <2> HIDE DEF cleared
  <2> QED
    BY <2>1, Zenon DEF MaskedOff
<1>5. E \in 0 .. n /\ c \in 0 .. E
  OBVIOUS
<1> HIDE DEF E, cleared, off
<1>6. FilledTo(conf, datas, c, E, cleared, 0)
  <2>1. Took(c, E, 0) = 0 /\ c + 0 = c
    BY <1>5 DEF Took
  <2>2. \A j \in 1 .. can : ~ (j <= 0) /\ j > 0
    BY <1>1
  <2> QED
    BY <1>2, <1>3, <1>4, <2>1, <2>2 DEF FilledTo
<1>7. PICK f : /\ f[0] = cleared
               /\ \A i \in 1 .. can : f[i] = FillPlace(conf, file, rank, f[i - 1], i)
               /\ BatchOf(conf, file, rank, cleared) = f[can]
  BY <1>1, BatchIs
<1> DEFINE S == {i \in Nat : i <= can => FilledTo(conf, datas, c, E, f[i], i)}
<1>8. 0 \in S
  BY <1>6, <1>7
<1>9. ASSUME NEW i \in Nat, i \in S PROVE i + 1 \in S
  <2>1. SUFFICES ASSUME i + 1 <= can PROVE FilledTo(conf, datas, c, E, f[i + 1], i + 1)
    OBVIOUS
  <2>2. FilledTo(conf, datas, c, E, f[i], i)
    BY <1>1, <1>9, <2>1
  <2>3. f[i + 1] = FillPlace(conf, file, rank, f[i], i + 1)
    <3>1. i + 1 \in 1 .. can /\ (i + 1) - 1 = i
      BY <1>1, <2>1
    <3> QED
      BY <1>7, <3>1
  <2>4. FilledTo(conf, datas, c, E, FillPlace(conf, file, rank, f[i], i + 1), i + 1)
    BY <2>1, <2>2, PlaceKeepsFilled DEF E
  <2> QED
    BY <2>3, <2>4
<1> HIDE DEF S
<1>10. Nat \subseteq S
  BY <1>8, <1>9, SetInduction, Zenon
<1>11. FilledTo(conf, datas, c, E, f[can], can)
  <2>1. can \in S
    BY <1>1, <1>10
  <2> QED
    BY <1>1, <2>1 DEF S
<1>12. NextBatch(conf, file, rank, l) = f[can]
  BY <1>7 DEF NextBatch, cleared, off
<1> QED
  BY <1>11, <1>12 DEF E

-----------------------------------------------------------------------------
(***************************************************************************)
(* What a batch counts.                                                    *)
(***************************************************************************)
RightAmong(datas, a, b) == {x \in a + 1 .. b : Right(datas[x])}

\* The place of an example counts when its prediction is right.
CountsIfRight(l, i, e) ==
  /\ \E k \in 1 .. NumCompletions : TRUE \in Range(l.mask[RowOf(i, k)])
  /\ (FirstLeast([k \in 1 .. NumCompletions |-> RowAverage(l, RowOf(i, k))]) - 1 = l.label[i]) <=> Right(e)

LEMMA PlaceCounts ==
  ASSUME NEW conf \in EvalConfigs, NEW l, NEW e \in Examples,
         \A k \in 1 .. NumCompletions : Len(e.ctx) + Len(e.endings[k]) < conf.T,
         NEW i \in 1 .. CanFitExamples(conf), PlaceHolds(conf, l, i, e)
  PROVE  CountsIfRight(l, i, e)
<1> DEFINE N == NumCompletions
           avg(k) == RowAverage(l, RowOf(i, k))
<1>1. N \in Nat \ {0} /\ conf.T \in Nat
  BY ConfParts
<1>2. \A k \in 1 .. N : avg(k) = EndingScore(e, k) /\ TRUE \in Range(l.mask[RowOf(i, k)])
  <2>1. ASSUME NEW k \in 1 .. N
        PROVE  avg(k) = EndingScore(e, k) /\ TRUE \in Range(l.mask[RowOf(i, k)])
    <3>1. RowHolds(l, RowOf(i, k), e, k, conf.T)
      BY Zenon DEF PlaceHolds
    <3> QED
      BY <1>1, <3>1, RowScores, Zenon
  <2> QED
    BY <2>1, Zenon
<1>3. l.label[i] = e.label
  BY Zenon DEF PlaceHolds
<1> HIDE DEF avg
<1>4. [k \in 1 .. N |-> avg(k)] = [k \in 1 .. N |-> EndingScore(e, k)]
  BY <1>2, Zenon
<1>5. PredNorm(e) = FirstLeast([k \in 1 .. N |-> avg(k)]) - 1
  BY <1>4, PredictionIs
<1>6. \E k \in 1 .. N : TRUE \in Range(l.mask[RowOf(i, k)])
  <2>1. 1 \in 1 .. N
    BY <1>1
  <2> QED
    BY <1>2, <2>1, Zenon
<1> QED
  BY <1>3, <1>5, <1>6, Zenon DEF CountsIfRight, Right, avg

LEMMA EmptyPlaceIsIdle ==
  ASSUME NEW conf \in EvalConfigs, NEW l, Shaped(conf, l),
         NEW i \in 1 .. CanFitExamples(conf), MaskedOff(conf, l, i)
  PROVE  ~ \E k \in 1 .. NumCompletions : TRUE \in Range(l.mask[RowOf(i, k)])
<1>1. ASSUME NEW k \in 1 .. NumCompletions, TRUE \in Range(l.mask[RowOf(i, k)])
      PROVE  FALSE
  <2> DEFINE b == RowOf(i, k)
  <2>1. b \in 1 .. conf.B
    BY RowsApart
  <2>2. DOMAIN l.mask[b] = 1 .. conf.T /\ \A t \in 1 .. conf.T : l.mask[b][t] = FALSE
    BY <2>1, Zenon DEF MaskedOff, Shaped, BufferFits
  <2>3. \E t \in DOMAIN l.mask[b] : l.mask[b][t] = TRUE
    BY <1>1, Zenon DEF Range
  <2> QED
    BY <2>2, <2>3, Zenon
<1> QED
  BY <1>1, Zenon

LEMMA BatchCounts ==
  ASSUME NEW n \in Nat \ {0}, NEW datas \in [1 .. n -> Examples], NEW conf \in EvalConfigs,
         ExamplesFit(conf, datas), NEW E \in 0 .. n, NEW c \in 0 .. E, NEW l,
         FilledTo(conf, datas, c, E, l, CanFitExamples(conf))
  PROVE  StatLosses(conf, l) = Cardinality(RightAmong(datas, c, c + Took(c, E, CanFitExamples(conf))))
<1> DEFINE can == CanFitExamples(conf)
           k == Took(c, E, can)
           active(i) == \E a \in 1 .. NumCompletions : TRUE \in Range(l.mask[RowOf(i, a)])
           least(i) == FirstLeast([a \in 1 .. NumCompletions |-> RowAverage(l, RowOf(i, a))])
           counted == {i \in 1 .. can : active(i) /\ least(i) - 1 = l.label[i]}
           there == {i \in 1 .. k : Right(datas[c + i])}
           right == RightAmong(datas, c, c + k)
<1>1. StatLosses(conf, l) = Cardinality(counted)
  BY Zenon DEF StatLosses, RowOf
<1>2. /\ Shaped(conf, l)
      /\ \A j \in 1 .. can : /\ j <= k => PlaceHolds(conf, l, j, datas[c + j])
                             /\ j > k => MaskedOff(conf, l, j)
  BY Zenon DEF FilledTo
<1>3. can \in Nat
  BY ConfParts
<1>4. k \in 0 .. can /\ c + k \in 0 .. n
  BY <1>3 DEF Took
<1> HIDE DEF k
<1>5. \A i \in 1 .. can : i <= k => (active(i) /\ ((least(i) - 1 = l.label[i]) <=> Right(datas[c + i])))
  <2>1. ASSUME NEW i \in 1 .. can, i <= k
        PROVE  active(i) /\ ((least(i) - 1 = l.label[i]) <=> Right(datas[c + i]))
    <3> DEFINE e == datas[c + i]
    <3>1. c + i \in 1 .. n
      BY <1>3, <1>4, <2>1
    <3>2. e \in Examples
      BY <3>1
    <3>3. \A a \in 1 .. NumCompletions : Len(e.ctx) + Len(e.endings[a]) < conf.T
      <4>1. DOMAIN e.endings = 1 .. NumCompletions
        BY <3>2, ExampleParts
      <4>2. DOMAIN datas = 1 .. n
        OBVIOUS
      <4> QED
        BY <3>1, <4>1, <4>2, Zenon DEF ExamplesFit
    <3>4. PlaceHolds(conf, l, i, e)
      BY <1>2, <2>1
    <3> HIDE DEF e
    <3>5. CountsIfRight(l, i, e)
      BY <3>2, <3>3, <3>4, PlaceCounts, Zenon
    <3> QED
      BY <3>5, Zenon DEF CountsIfRight, active, least, e
  <2> QED
    BY <2>1, Zenon
<1>6. \A i \in 1 .. can : i > k => ~ active(i)
  <2>1. ASSUME NEW i \in 1 .. can, i > k PROVE ~ active(i)
    <3>1. MaskedOff(conf, l, i)
      BY <1>2, <2>1
    <3> QED
      BY <1>2, <3>1, EmptyPlaceIsIdle, Zenon
  <2> QED
    BY <2>1, Zenon
<1> HIDE DEF active, least
<1>7. counted = there
  <2>1. \A i \in 1 .. can : i <= k \/ i > k
    BY <1>3, <1>4
  <2>2. \A i \in 1 .. k : i \in 1 .. can /\ i <= k
    BY <1>3, <1>4
  <2>3. \A i \in 1 .. can : i <= k => i \in 1 .. k
    BY <1>3, <1>4
  <2>4. ASSUME NEW i PROVE i \in counted <=> i \in there
    <3>1. CASE i \in counted
      BY <1>5, <1>6, <2>1, <2>3, <3>1
    <3>2. CASE i \in there
      BY <1>5, <2>2, <3>2
    <3> QED
      BY <3>1, <3>2
  <2> QED
    BY <2>4
<1> HIDE DEF counted
<1>8. Cardinality(there) = Cardinality(right) /\ IsFiniteSet(there)
  <2> DEFINE f == [i \in there |-> c + i]
  <2>0. c \in Nat /\ k \in Nat
    BY <1>3, <1>4
  <2>1. \A i \in there : i \in 1 .. k /\ c + i \in c + 1 .. c + k
    BY <2>0
  <2>2. f \in Injection(there, right)
    BY <2>0, <2>1 DEF Injection, IsInjective, RightAmong
  <2>3. f \in Surjection(there, right)
    <3>1. ASSUME NEW x \in right PROVE \E i \in there : f[i] = x
      <4>1. x \in c + 1 .. c + k /\ Right(datas[x])
        BY <3>1 DEF RightAmong
      <4>2. x - c \in 1 .. k /\ c + (x - c) = x
        BY <2>0, <4>1
      <4> QED
        BY <4>1, <4>2
    <3>2. \A i \in there : f[i] \in right
      BY <2>1 DEF RightAmong
    <3> QED
      BY <3>1, <3>2 DEF Surjection
  <2>4. IsFiniteSet(there)
    <3>1. IsFiniteSet(1 .. k) /\ there \subseteq 1 .. k
      BY <2>0, FS_Interval
    <3> HIDE DEF there
    <3> QED
      BY <3>1, FS_Subset, Zenon
  <2>5. f \in Bijection(there, right)
    BY <2>2, <2>3 DEF Bijection
  <2> HIDE DEF f, there, right
  <2>6. ExistsBijection(there, right)
    BY <2>5 DEF ExistsBijection
  <2> QED
    BY <2>4, <2>6, FS_Bijection
<1> QED
  BY <1>1, <1>7, <1>8 DEF k
-----------------------------------------------------------------------------
(***************************************************************************)
(* An evaluation of a process counts its examples.                         *)
(***************************************************************************)
LEMMA RightAmongFinite ==
  ASSUME NEW datas, NEW a \in Nat, NEW b \in Nat
  PROVE  IsFiniteSet(RightAmong(datas, a, b)) /\ Cardinality(RightAmong(datas, a, b)) \in Nat
<1>1. IsFiniteSet(a + 1 .. b)
  <2>1. a + 1 \in Int /\ b \in Int
    OBVIOUS
  <2> QED
    BY <2>1, FS_Interval
<1>2. RightAmong(datas, a, b) \subseteq a + 1 .. b
  BY DEF RightAmong
<1> QED
  BY <1>1, <1>2, FS_Subset, FS_CardinalityType

LEMMA RightAdds ==
  ASSUME NEW datas, NEW a \in Nat, NEW b \in Nat, NEW c \in Nat, a <= b, b <= c
  PROVE  Cardinality(RightAmong(datas, a, c)) =
           Cardinality(RightAmong(datas, a, b)) + Cardinality(RightAmong(datas, b, c))
<1> DEFINE x == RightAmong(datas, a, b)
           y == RightAmong(datas, b, c)
<1>1. IsFiniteSet(x) /\ IsFiniteSet(y) /\ Cardinality(x) \in Nat /\ Cardinality(y) \in Nat
  BY RightAmongFinite
<1>2. RightAmong(datas, a, c) = x \cup y
  BY DEF RightAmong
<1>3. x \cap y = {}
  BY DEF RightAmong
<1> HIDE DEF x, y
<1>4. Cardinality(x \cap y) = 0
  BY <1>3, FS_EmptySet
<1>5. Cardinality(x \cup y) = Cardinality(x) + Cardinality(y)
  <2>1. Cardinality(x \cup y) = Cardinality(x) + Cardinality(y) - Cardinality(x \cap y)
    BY <1>1, FS_Union
  <2> QED
    BY <1>1, <1>4, <2>1
<1> QED
  BY <1>2, <1>5 DEF x, y

LEMMA CeilDivCovers ==
  ASSUME NEW m \in Nat, NEW w \in Nat \ {0}
  PROVE  CeilDiv(m, w) \in Nat /\ m <= CeilDiv(m, w) * w
<1> DEFINE s == m + w - 1
           q == s \div w
           qw == q * w
<1>1. s \in Nat
  OBVIOUS
<1>2. \A x \in Nat : \A v \in Nat \ {0} : x \div v \in Nat /\ x < (x \div v) * v + v
  BY SMT
<1>3. s = m + w - 1
  OBVIOUS
<1> HIDE DEF s
<1>4. q \in Nat /\ s < qw + w
  BY <1>1, <1>2
<1>5. qw \in Nat
  BY <1>4
<1> HIDE DEF qw
<1>6. m <= qw
  BY <1>1, <1>3, <1>4, <1>5
<1> QED
  BY <1>4, <1>6 DEF qw, s, CeilDiv

\* The part of the file of a process.
LEMMA PartOfRank ==
  ASSUME NEW n \in Nat \ {0}, NEW datas \in [1 .. n -> Examples], NEW conf \in EvalConfigs,
         CanFitExamples(conf) # 0, NEW rank \in Nat, Starts(conf, WriteEvalFile(datas), rank)
  PROVE  LET file == WriteEvalFile(datas)
             s == StartIndex(conf, file, rank)
             E == EndIndex(conf, file, rank)
         IN  /\ ExamplesPerProcess(conf, file) \in Nat
             /\ s = ExamplesPerProcess(conf, file) * rank
             /\ n <= ExamplesPerProcess(conf, file) * conf.num_processes
             /\ s \in 0 .. n /\ E \in s .. n /\ Skip(file, s) = ExampleAt(datas, s)
             /\ E = IF s + ExamplesPerProcess(conf, file) <= n THEN s + ExamplesPerProcess(conf, file) ELSE n
             /\ EvalNumBatches(conf, file) \in Nat
             /\ E <= s + EvalNumBatches(conf, file) * CanFitExamples(conf)
<1> DEFINE file == WriteEvalFile(datas)
           s == StartIndex(conf, file, rank)
           E == EndIndex(conf, file, rank)
           epp == ExamplesPerProcess(conf, file)
           P == conf.num_processes
           can == CanFitExamples(conf)
           nb == EvalNumBatches(conf, file)
<1>1. P \in Nat \ {0} /\ can \in Nat \ {0}
  BY ConfParts
<1>2. Len(datas) = n /\ file.num_examples = n
  BY FileIs, PlacesInStream
<1>3. epp = CeilDiv(n, P) /\ epp \in Nat /\ n <= epp * P
  <2>1. epp = CeilDiv(n, P)
    BY <1>2, Zenon DEF ExamplesPerProcess
  <2>2. CeilDiv(n, P) \in Nat /\ n <= CeilDiv(n, P) * P
    BY <1>1, CeilDivCovers, Zenon
  <2> QED
    BY <2>1, <2>2
<1>4. nb \in Nat /\ epp <= nb * can
  <2>1. nb = CeilDiv(epp, can)
    BY Zenon DEF EvalNumBatches
  <2> HIDE DEF epp, can
  <2>2. CeilDiv(epp, can) \in Nat /\ epp <= CeilDiv(epp, can) * can
    BY <1>1, <1>3, CeilDivCovers, Zenon
  <2> QED
    BY <2>1, <2>2
<1>5. s = epp * rank
  BY Zenon DEF StartIndex
<1> HIDE DEF epp, nb, can, P
<1>6. s \in Nat
  BY <1>3, <1>5
<1>7. s <= n /\ Skip(file, s) = ExampleAt(datas, s)
  <2>1. Skip(file, s) # 0
    BY DEF Starts
  <2> HIDE DEF s
  <2>2. Skip(WriteEvalFile(datas), s) = IF s <= n THEN ExampleAt(datas, s) ELSE 0
    BY <1>6, SkipIs
  <2> QED
    BY <2>1, <2>2
<1>8. epp * (rank + 1) = s + epp
  BY <1>3, <1>5
<1>9. E = Min({s + epp, n})
  BY <1>2, <1>8, Zenon DEF EndIndex, epp
<1> HIDE DEF s, E
<1>10. s + epp \in Nat
  BY <1>3, <1>6
<1>11. E = IF s + epp <= n THEN s + epp ELSE n
  BY <1>9, <1>10, MinOfPair
<1>12. nb * can \in Nat
  BY <1>1, <1>4
<1>13. E \in s .. n /\ E <= s + nb * can
  <2> DEFINE nc == nb * can
  <2>1. nc \in Nat /\ epp <= nc
    BY <1>4, <1>12
  <2> HIDE DEF nc
  <2>2. E \in s .. n /\ E <= s + nc
    BY <1>3, <1>6, <1>7, <1>11, <2>1
  <2> QED
    BY <2>2 DEF nc
<1>14. s \in 0 .. n
  BY <1>6, <1>7
<1> QED
  BY <1>3, <1>4, <1>5, <1>7, <1>11, <1>13, <1>14 DEF s, E, epp, nb, can, P
\* After some batches: the loader is at the example after d, the process has counted those up to it.
GoneTo(conf, datas, s, y, d) ==
  /\ Shaped(conf, y.loader) /\ y.loader.current = d /\ y.loader.at = ExampleAt(datas, d)
  /\ y.correct = Cardinality(RightAmong(datas, s, d))

LEMMA BatchGoes ==
  ASSUME NEW n \in Nat \ {0}, NEW datas \in [1 .. n -> Examples], NEW conf \in EvalConfigs,
         ExamplesFit(conf, datas), NEW rank, EndIndex(conf, WriteEvalFile(datas), rank) \in 0 .. n,
         NEW d \in 0 .. EndIndex(conf, WriteEvalFile(datas), rank), NEW s \in 0 .. d,
         NEW y, GoneTo(conf, datas, s, y, d)
  PROVE  GoneTo(conf, datas, s, Evaluated(conf, WriteEvalFile(datas), rank, y),
                d + Took(d, EndIndex(conf, WriteEvalFile(datas), rank), CanFitExamples(conf)))
<1> DEFINE file == WriteEvalFile(datas)
           E == EndIndex(conf, file, rank)
           can == CanFitExamples(conf)
           k == Took(d, E, can)
           batch == NextBatch(conf, file, rank, y.loader)
           z == Evaluated(conf, file, rank, y)
<1>1. /\ Shaped(conf, y.loader) /\ y.loader.current = d /\ y.loader.at = ExampleAt(datas, d)
      /\ y.correct = Cardinality(RightAmong(datas, s, d))
  BY Zenon DEF GoneTo
<1>2. FilledTo(conf, datas, d, E, batch, can)
  BY <1>1, BatchHolds
<1>3. z = [loader |-> batch, correct |-> y.correct + StatLosses(conf, batch)]
  BY Zenon DEF Evaluated
<1>4. can \in Nat
  BY ConfParts
<1>5. E \in 0 .. n /\ d \in 0 .. E /\ s \in 0 .. d
  OBVIOUS
<1> HIDE DEF batch, z, E
<1>6. z.loader = batch /\ z.correct = y.correct + StatLosses(conf, batch)
  BY <1>3
<1>7. Shaped(conf, batch) /\ batch.current = d + k /\ batch.at = ExampleAt(datas, d + k)
  BY <1>2, Zenon DEF FilledTo
<1>8. StatLosses(conf, batch) = Cardinality(RightAmong(datas, d, d + k))
  BY <1>2, <1>5, BatchCounts
<1>9. k \in Nat
  BY <1>4, <1>5 DEF Took
<1> HIDE DEF k
<1>10. Cardinality(RightAmong(datas, s, d + k)) =
         Cardinality(RightAmong(datas, s, d)) + Cardinality(RightAmong(datas, d, d + k))
  <2> DEFINE c == d + k
  <2>1. s \in Nat /\ d \in Nat /\ c \in Nat /\ s <= d /\ d <= c
    BY <1>5, <1>9
  <2> HIDE DEF c
  <2>2. Cardinality(RightAmong(datas, s, c)) =
          Cardinality(RightAmong(datas, s, d)) + Cardinality(RightAmong(datas, d, c))
    BY <2>1, RightAdds
  <2> QED
    BY <2>2 DEF c
<1>11. GoneTo(conf, datas, s, z, d + k)
  BY <1>1, <1>6, <1>7, <1>8, <1>10, Zenon DEF GoneTo
<1> QED
  BY <1>11 DEF z, k, E

LEMMA ResetGoes ==
  ASSUME NEW conf, NEW datas, NEW file, NEW rank, NEW l, Shaped(conf, l), StartIndex(conf, file, rank) \in Nat,
         Skip(file, StartIndex(conf, file, rank)) = ExampleAt(datas, StartIndex(conf, file, rank))
  PROVE  GoneTo(conf, datas, StartIndex(conf, file, rank),
                [loader |-> ResetEval(conf, file, rank, l), correct |-> 0], StartIndex(conf, file, rank))
<1> DEFINE s == StartIndex(conf, file, rank)
           p == Skip(file, s)
           z == ResetEval(conf, file, rank, l)
           u == l.label
           v == l.inputs
           w == l.targets
           x == l.mask
<1>1. l = [label |-> u, inputs |-> v, targets |-> w, mask |-> x, current |-> l.current, at |-> l.at]
  BY Zenon DEF Shaped
<1>2. z = [[l EXCEPT !.current = s] EXCEPT !.at = p]
  BY Zenon DEF ResetEval
<1> DEFINE c == l.current
           a == l.at
<1>3. l = [label |-> u, inputs |-> v, targets |-> w, mask |-> x, current |-> c, at |-> a]
  BY <1>1
<1> HIDE DEF u, v, w, x, c, a, s, p, z
<1>4. [l EXCEPT !.current = s] = [label |-> u, inputs |-> v, targets |-> w, mask |-> x, current |-> s, at |-> a]
  BY <1>3
<1>5. z = [label |-> u, inputs |-> v, targets |-> w, mask |-> x, current |-> s, at |-> p]
  BY <1>2, <1>4, Zenon
<1>6. /\ z.label = l.label /\ z.inputs = l.inputs /\ z.targets = l.targets /\ z.mask = l.mask
      /\ z.current = s /\ z.at = p
      /\ z = [label |-> z.label, inputs |-> z.inputs, targets |-> z.targets, mask |-> z.mask,
              current |-> z.current, at |-> z.at]
  BY <1>5 DEF u, v, w, x
<1>7. Shaped(conf, z)
  BY <1>6, Zenon DEF Shaped
<1>8. Cardinality(RightAmong(datas, s, s)) = 0
  <2>1. s \in Nat
    BY DEF s
  <2>2. RightAmong(datas, s, s) = {}
    BY <2>1 DEF RightAmong
  <2> QED
    BY <2>2, FS_EmptySet
<1> DEFINE y == [loader |-> z, correct |-> 0]
<1>9. y.loader = z /\ y.correct = 0
  OBVIOUS
<1> HIDE DEF y
<1>10. z.at = ExampleAt(datas, s)
  BY <1>6 DEF s, p
<1>11. GoneTo(conf, datas, s, y, s)
  BY <1>6, <1>7, <1>8, <1>9, <1>10 DEF GoneTo
<1> QED
  BY <1>11 DEF y, z, s

\* Whatever an evaluation before it left in the buffers.
CountsItsPart(conf, datas, rank, l) ==
  LET file == WriteEvalFile(datas)
      r == Evaluate(conf, file, rank, l)
  IN  /\ Shaped(conf, r.loader)
      /\ r.correct = Cardinality(RightAmong(datas, StartIndex(conf, file, rank), EndIndex(conf, file, rank)))

LEMMA EvaluationCounts ==
  ASSUME NEW n \in Nat \ {0}, NEW datas \in [1 .. n -> Examples], NEW conf \in EvalConfigs,
         ExamplesFit(conf, datas), CanFitExamples(conf) # 0, NEW rank \in Nat,
         Starts(conf, WriteEvalFile(datas), rank), NEW l, Shaped(conf, l)
  PROVE  CountsItsPart(conf, datas, rank, l)
<1> DEFINE file == WriteEvalFile(datas)
           s == StartIndex(conf, file, rank)
           E == EndIndex(conf, file, rank)
           can == CanFitExamples(conf)
           nb == EvalNumBatches(conf, file)
<1>1. /\ s \in 0 .. n /\ E \in s .. n /\ Skip(file, s) = ExampleAt(datas, s)
      /\ nb \in Nat /\ E <= s + nb * can
  BY PartOfRank
<1>2. can \in Nat
  BY ConfParts
<1>3. PICK f : /\ f[0] = [loader |-> ResetEval(conf, file, rank, l), correct |-> 0]
               /\ \A i \in 1 .. nb : f[i] = Evaluated(conf, file, rank, f[i - 1])
               /\ Evaluate(conf, file, rank, l) = f[nb]
  BY <1>1, EvaluateIs
<1>4. GoneTo(conf, datas, s, f[0], s)
  <2>1. s \in Nat
    BY <1>1
  <2> QED
    BY <1>1, <1>3, <2>1, ResetGoes
<1> HIDE DEF s, E, nb, can
<1> DEFINE S == {i \in Nat : i <= nb =>
                   \E d \in s .. E : (d = E \/ d = s + i * can) /\ GoneTo(conf, datas, s, f[i], d)}
<1>5. 0 \in S
  <2>1. s \in s .. E /\ s = s + 0 * can
    BY <1>1, <1>2
  <2> QED
    BY <1>4, <2>1
<1>6. ASSUME NEW i \in Nat, i \in S PROVE i + 1 \in S
  <2>1. SUFFICES ASSUME i + 1 <= nb
                 PROVE  \E d \in s .. E : (d = E \/ d = s + (i + 1) * can) /\ GoneTo(conf, datas, s, f[i + 1], d)
    OBVIOUS
  <2>2. PICK d \in s .. E : (d = E \/ d = s + i * can) /\ GoneTo(conf, datas, s, f[i], d)
    BY <1>1, <1>6, <2>1
  <2>3. f[i + 1] = Evaluated(conf, file, rank, f[i])
    <3>1. i + 1 \in 1 .. nb /\ (i + 1) - 1 = i
      BY <1>1, <2>1
    <3> QED
      BY <1>3, <3>1
  <2> DEFINE g == Evaluated(conf, file, rank, f[i])
             c == d + Took(d, E, can)
  <2>4. GoneTo(conf, datas, s, g, c)
    <3>1. E \in 0 .. n /\ d \in 0 .. E /\ s \in 0 .. d
      BY <1>1, <2>2
    <3> QED
      BY <2>2, <3>1, BatchGoes DEF E, can
  <2>5. c \in s .. E /\ (c = E \/ c = s + (i + 1) * can)
    <3> DEFINE ic == i * can
    <3>1. ic \in Nat /\ (i + 1) * can = ic + can
      BY <1>2
    <3>2. d \in s .. E /\ (d = E \/ d = s + ic)
      BY <2>2
    <3> HIDE DEF ic
    <3>3. c \in s .. E /\ (c = E \/ c = s + (ic + can))
      BY <1>1, <1>2, <3>1, <3>2 DEF Took
    <3> QED
      BY <3>1, <3>3
  <2> HIDE DEF c, g
  <2>6. f[i + 1] = g
    BY <2>3 DEF g
  <2> QED
    BY <2>4, <2>5, <2>6
<1> HIDE DEF S
<1>7. Nat \subseteq S
  BY <1>5, <1>6, SetInduction
<1>8. GoneTo(conf, datas, s, f[nb], E)
  <2>1. nb \in S
    BY <1>1, <1>7
  <2>2. PICK d \in s .. E : (d = E \/ d = s + nb * can) /\ GoneTo(conf, datas, s, f[nb], d)
    BY <1>1, <2>1 DEF S
  <2> DEFINE nc == nb * can
  <2>3. nc \in Nat /\ E <= s + nc /\ (d = E \/ d = s + nc)
    BY <1>1, <1>2, <2>2
  <2> HIDE DEF nc
  <2>4. d = E
    BY <1>1, <2>2, <2>3
  <2> QED
    BY <2>2, <2>4
<1> QED
  BY <1>3, <1>8, Zenon DEF CountsItsPart, GoneTo, s, E
-----------------------------------------------------------------------------
(***************************************************************************)
(* The processes' parts make up the file.                                  *)
(***************************************************************************)
LEMMA NewLoaderShaped ==
  ASSUME NEW conf
  PROVE  Shaped(conf, NewLoader(conf))
<1> DEFINE rows(x) == [b \in 1 .. conf.B |-> [t \in 1 .. conf.T |-> x]]
           label == [i \in 1 .. CanFitExamples(conf) |-> 0]
           l == NewLoader(conf)
<1>1. \A x : BufferFits(conf, rows(x)) /\ \A b \in 1 .. conf.B : \A t \in 1 .. conf.T : rows(x)[b][t] = x
  BY DEF BufferFits
<1>2. DOMAIN label = 1 .. CanFitExamples(conf)
  OBVIOUS
<1>3. l = [label |-> label, inputs |-> rows(0), targets |-> rows(0), mask |-> rows(TRUE), current |-> 0, at |-> 1]
  BY DEF NewLoader
<1> HIDE DEF rows, label, l
<1>4. /\ l.label = label /\ l.inputs = rows(0) /\ l.targets = rows(0) /\ l.mask = rows(TRUE)
      /\ l = [label |-> l.label, inputs |-> l.inputs, targets |-> l.targets, mask |-> l.mask,
              current |-> l.current, at |-> l.at]
  BY <1>3
<1>5. Shaped(conf, l)
  BY <1>1, <1>2, <1>4, Zenon DEF Shaped
<1> QED
  BY <1>5 DEF l

LEMMA RanksAdd ==
  ASSUME NEW n \in Nat \ {0}, NEW datas \in [1 .. n -> Examples], NEW conf \in EvalConfigs,
         CanFitExamples(conf) # 0,
         \A r \in 0 .. conf.num_processes - 1 : Starts(conf, WriteEvalFile(datas), r),
         NEW f, DOMAIN f = 0 .. conf.num_processes - 1,
         \A r \in 0 .. conf.num_processes - 1 :
           f[r] = Cardinality(RightAmong(datas, StartIndex(conf, WriteEvalFile(datas), r),
                                         EndIndex(conf, WriteEvalFile(datas), r)))
  PROVE  SumOf(f) = NumCorrectNorm(datas)
<1> DEFINE file == WriteEvalFile(datas)
           P == conf.num_processes
           epp == ExamplesPerProcess(conf, file)
           upto(q) == IF epp * q <= n THEN epp * q ELSE n
           S == {q \in Nat : q <= P => Mass(f, 0 .. q - 1) = Cardinality(RightAmong(datas, 0, upto(q)))}
<1>1. P \in Nat \ {0} /\ 0 \in 0 .. P - 1
  BY ConfParts
<1>2. ASSUME NEW r \in 0 .. P - 1
      PROVE  /\ epp \in Nat /\ n <= epp * P
             /\ StartIndex(conf, file, r) = upto(r) /\ EndIndex(conf, file, r) = upto(r + 1)
             /\ upto(r) \in 0 .. n /\ upto(r + 1) \in upto(r) .. n
  <2> DEFINE s == StartIndex(conf, file, r)
             E == EndIndex(conf, file, r)
  <2>1. r \in Nat
    BY <1>1
  <2>2. Starts(conf, file, r)
    OBVIOUS
  <2>3. /\ epp \in Nat /\ s = epp * r /\ n <= epp * P /\ s \in 0 .. n /\ E \in s .. n
        /\ E = IF s + epp <= n THEN s + epp ELSE n
    BY <2>1, <2>2, PartOfRank
  <2> HIDE DEF s, E, epp, P
  <2>4. epp * (r + 1) = epp * r + epp /\ epp * r \in Nat
    BY <2>1, <2>3
  <2>5. upto(r) = s /\ upto(r + 1) = E
    BY <2>3, <2>4
  <2> HIDE DEF upto
  <2> QED
    BY <2>3, <2>5 DEF s, E
<1>3. epp \in Nat /\ n <= epp * P
  BY <1>1, <1>2
<1> HIDE DEF epp, upto
<1>4. \A r \in 0 .. P - 1 : f[r] = Cardinality(RightAmong(datas, upto(r), upto(r + 1)))
  BY <1>2
<1> HIDE DEF file, P
<1>5. \A r \in 0 .. P - 1 : f[r] \in Nat
  <2>1. ASSUME NEW r \in 0 .. P - 1 PROVE f[r] \in Nat
    <3>1. upto(r) \in Nat /\ upto(r + 1) \in Nat
      BY <1>2
    <3>2. Cardinality(RightAmong(datas, upto(r), upto(r + 1))) \in Nat
      BY <3>1, RightAmongFinite
    <3> QED
      BY <1>4, <3>2
  <2> QED
    BY <2>1
<1>6. 0 \in S
  <2>1. 0 .. 0 - 1 = {}
    OBVIOUS
  <2>2. Mass(f, {}) = 0
    <3>1. Units(f, {}) = {}
      BY DEF Units
    <3> QED
      BY <3>1, MassOfUnits, FS_EmptySet, Zenon
  <2>3. upto(0) = 0
    BY <1>3 DEF upto
  <2>4. RightAmong(datas, 0, 0) = {}
    BY DEF RightAmong
  <2>5. Cardinality(RightAmong(datas, 0, upto(0))) = 0
    BY <2>3, <2>4, FS_EmptySet, Zenon
  <2> QED
    BY <2>1, <2>2, <2>5
<1>7. ASSUME NEW q \in Nat, q \in S PROVE q + 1 \in S
  <2>1. SUFFICES ASSUME q + 1 <= P
                 PROVE  Mass(f, 0 .. (q + 1) - 1) = Cardinality(RightAmong(datas, 0, upto(q + 1)))
    OBVIOUS
  <2>2. q \in 0 .. P - 1 /\ q <= P
    BY <1>1, <2>1
  <2> DEFINE R == 0 .. q - 1
  <2>3. 0 .. (q + 1) - 1 = R \cup {q} /\ q \notin R /\ R \subseteq 0 .. P - 1
    BY <1>1, <2>1
  <2>4. IsFiniteSet(R)
    <3>1. 0 \in Int /\ q - 1 \in Int
      OBVIOUS
    <3> QED
      BY <3>1, FS_Interval
  <2>5. Mass(f, R) = Cardinality(RightAmong(datas, 0, upto(q)))
    BY <1>7, <2>2
  <2> HIDE DEF R
  <2>6. Mass(f, R \cup {q}) = Mass(f, R) + f[q]
    <3>1. (\A t \in R : f[t] \in Nat) /\ f[q] \in Nat
      BY <1>5, <2>2, <2>3
    <3> QED
      BY <2>3, <2>4, <3>1, MassAdds, Zenon
  <2> DEFINE a == upto(q)
             b == upto(q + 1)
  <2>7. a \in 0 .. n /\ b \in a .. n /\ f[q] = Cardinality(RightAmong(datas, a, b))
    BY <1>2, <1>4, <2>2
  <2> HIDE DEF a, b
  <2>8. Cardinality(RightAmong(datas, 0, b)) = Cardinality(RightAmong(datas, 0, a)) + Cardinality(RightAmong(datas, a, b))
    <3>1. 0 \in Nat /\ a \in Nat /\ b \in Nat /\ 0 <= a /\ a <= b
      BY <2>7
    <3> QED
      BY <3>1, RightAdds
  <2> QED
    BY <2>3, <2>5, <2>6, <2>7, <2>8, Zenon DEF a, b
<1> HIDE DEF S
<1>8. Nat \subseteq S
  BY <1>6, <1>7, SetInduction
<1>9. Mass(f, 0 .. P - 1) = Cardinality(RightAmong(datas, 0, upto(P)))
  <2>1. P \in S
    BY <1>1, <1>8
  <2> QED
    BY <1>1, <2>1 DEF S
<1>10. upto(P) = n
  <2> DEFINE ep == epp * P
  <2>1. ep \in Nat /\ n <= ep
    BY <1>1, <1>3
  <2>2. upto(P) = IF ep <= n THEN ep ELSE n
    BY DEF upto
  <2> HIDE DEF ep
  <2> QED
    BY <2>1, <2>2
<1>11. SumOf(f) = Mass(f, 0 .. P - 1)
  BY Zenon DEF SumOf, P
<1>12. NumCorrectNorm(datas) = Cardinality(RightAmong(datas, 0, n))
  <2>1. DOMAIN datas = 0 + 1 .. n
    OBVIOUS
  <2> QED
    BY <2>1, Zenon DEF NumCorrectNorm, RightAmong, Right
<1> QED
  BY <1>9, <1>10, <1>11, <1>12

\* In every evaluation of a training the processes of the C program together count exactly the
\* examples its Python reference counts, for every data set, batch size, row length and number
\* of processes the program starts with: the examples a batch leaves in its buffers, the places
\* it leaves empty and the division among processes change nothing (llmc/dataloader.h).
THEOREM EvaluationsAlwaysAgree == GenSpec => []EvaluationsAgree
<1>1. ASSUME NEW n \in Nat \ {0}, NEW datas \in [1 .. n -> Examples], NEW conf \in EvalConfigs,
             Opens(conf, WriteEvalFile(datas)), ExamplesFit(conf, datas),
             \A r \in 0 .. conf.num_processes - 1 : Starts(conf, WriteEvalFile(datas), r)
      PROVE  EvalAccNorm(conf, WriteEvalFile(datas)) = <<NumCorrectNorm(datas), NumCorrectNorm(datas)>>
  <2> DEFINE file == WriteEvalFile(datas)
             ranks == 0 .. conf.num_processes - 1
             first == [r \in ranks |-> Evaluate(conf, file, r, NewLoader(conf))]
             second == [r \in DOMAIN first |-> Evaluate(conf, file, r, first[r].loader)]
             f == [r \in DOMAIN first |-> first[r].correct]
             g == [r \in DOMAIN second |-> second[r].correct]
  <2>1. EvalAccNorm(conf, file) = <<SumOf(f), SumOf(g)>>
    BY Zenon DEF EvalAccNorm
  <2>2. CanFitExamples(conf) # 0
    BY <1>1, ConfParts DEF Opens
  <2>3. \A r \in ranks : r \in Nat
    BY ConfParts
  <2>4. ASSUME NEW r \in ranks
        PROVE  CountsItsPart(conf, datas, r, NewLoader(conf))
    BY <1>1, <2>2, <2>3, NewLoaderShaped, EvaluationCounts
  <2>5. ASSUME NEW r \in ranks
        PROVE  first[r].correct = Cardinality(RightAmong(datas, StartIndex(conf, file, r), EndIndex(conf, file, r)))
               /\ Shaped(conf, first[r].loader)
    <3>1. first[r] = Evaluate(conf, file, r, NewLoader(conf))
      OBVIOUS
    <3> HIDE DEF first
    <3> QED
      BY <2>4, <3>1 DEF CountsItsPart
  <2>6. DOMAIN first = ranks /\ DOMAIN second = ranks /\ DOMAIN f = ranks /\ DOMAIN g = ranks
    OBVIOUS
  <2>7. \A r \in ranks : second[r] = Evaluate(conf, file, r, first[r].loader)
    OBVIOUS
  <2>8. \A r \in ranks : f[r] = first[r].correct /\ g[r] = second[r].correct
    <3> HIDE DEF first, second
    <3> QED
      BY <2>6
  <2> HIDE DEF first, second, f, g
  <2>9. ASSUME NEW r \in ranks
        PROVE  second[r].correct = Cardinality(RightAmong(datas, StartIndex(conf, file, r), EndIndex(conf, file, r)))
    <3> DEFINE l == first[r].loader
    <3>1. Shaped(conf, l)
      BY <2>5
    <3> HIDE DEF l
    <3>2. CountsItsPart(conf, datas, r, l)
      BY <1>1, <2>2, <2>3, <3>1, EvaluationCounts
    <3> QED
      BY <2>7, <3>2 DEF CountsItsPart, l
  <2>10. SumOf(f) = NumCorrectNorm(datas)
    <3>1. DOMAIN f = ranks /\ \A r \in ranks :
            f[r] = Cardinality(RightAmong(datas, StartIndex(conf, file, r), EndIndex(conf, file, r)))
      BY <2>5, <2>6, <2>8
    <3> QED
      BY <1>1, <2>2, <3>1, RanksAdd, Zenon
  <2>11. SumOf(g) = NumCorrectNorm(datas)
    <3>1. DOMAIN g = ranks /\ \A r \in ranks :
            g[r] = Cardinality(RightAmong(datas, StartIndex(conf, file, r), EndIndex(conf, file, r)))
      BY <2>6, <2>8, <2>9
    <3> QED
      BY <1>1, <2>2, <3>1, RanksAdd, Zenon
  <2> QED
    BY <2>1, <2>10, <2>11
<1>2. EvaluationsAgree
  <2>1. \A n \in 1 .. MaxExamples : n \in Nat \ {0}
    BY EvaluationAssumption
  <2> QED
    BY <1>1, <2>1, Zenon DEF EvaluationsAgree
<1> QED
  BY <1>2, PTL

=============================================================================
