---------------------------- MODULE MCCheckpoint ----------------------------
(***************************************************************************)
(* Instances of Checkpoint: two layers, two channels, five tokens padded   *)
(* to eight, two query heads and one key head of four rows; two ranks.     *)
(***************************************************************************)
EXTENDS Checkpoint

Plain ==
  [checkpoint_every |-> 1, checkpoints_keep |-> 2, major_checkpoint_every |-> 0,
   use_master_weights |-> TRUE, precision |-> "bfloat16"]

\* Two checkpoints kept; all of them; two and every third; one every other step, without
\* master weights.
MCTrainerArgs ==
  {Plain,
   [Plain EXCEPT !.checkpoints_keep = 0, !.precision = "float32"],
   [Plain EXCEPT !.major_checkpoint_every = 3, !.use_master_weights = FALSE],
   [Plain EXCEPT !.checkpoint_every = 2, !.use_master_weights = FALSE]}

\* Two shards of one batch, over two epochs; and three of which the one that both ranks read
\* second has a batch more than the others, so that only in the middle a resumption is refused.
MCTrainData ==
  {[samples |-> <<1, 1>>, shuffles |-> (0 :> <<<<1, 2>>, <<2, 1>>>> @@ 1 :> <<<<2, 1>>, <<1, 2>>>>)],
   [samples |-> <<1, 2, 1>>, shuffles |-> (0 :> <<<<1, 2, 3>>>> @@ 1 :> <<<<3, 2, 1>>>>)]}

\* One checkpoint kept.
MCKeepOne == {[Plain EXCEPT !.checkpoints_keep = 1]}
=============================================================================
