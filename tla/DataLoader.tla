----------------------------- MODULE DataLoader -----------------------------
(***************************************************************************)
(* DistributedDataLoader of train_gpt2.py and its copy                     *)
(* DistributedShardedDataLoader of train_llama3.py: each process walks the *)
(* shards in steps of all processes' batches, from an offset of its own.   *)
(*                                                                         *)
(* shards is the sequence of files a glob pattern matches, as TokenShards  *)
(* writes them.  Shards are counted from 1, positions from 0 as in the     *)
(* code.  A loader keeps the tokens of one file: loaded is its number.     *)
(***************************************************************************)
EXTENDS Integers, Sequences, FiniteSetsExt

CONSTANTS
  B,  \* batch size
  T   \* sequence length

ASSUME DataLoaderAssumption == B \in Nat \ {0} /\ T \in Nat \ {0}

\* The header each program insists on.
Expected ==
  [program \in {"gpt2", "llama3"} |->
     IF program = "gpt2" THEN [magic |-> 20240520, version |-> 1]
                         ELSE [magic |-> 20240801, version |-> 7]]

\* _peek_data_shard, which reads the header and returns the number of tokens it claims:
\* a wrong magic number exits, a wrong version is an assertion.
PeekAccepts(file, program) ==
  /\ file.info.magic = Expected[program].magic
  /\ file.info.version = Expected[program].version

\* _load_data_shard: the file must hold as many tokens as its header claims.
Loadable(file) == Len(file.data) = file.ntok

\* The header checks of __init__, before anything is loaded.
Validates(shards, program, num_processes) ==
  /\ shards # <<>>
  /\ \A i \in DOMAIN shards :
       PeekAccepts(shards[i], program) /\ shards[i].ntok >= num_processes * B * T + 1

NoShard == [current_shard |-> 0, loaded |-> 0, current_position |-> 0]

\* reset: shard 1 is loaded unless it is the current one.
ResetLoader(loader, process_rank) ==
  [current_shard |-> 1,
   loaded |-> IF loader.current_shard # 1 THEN 1 ELSE loader.loaded,
   current_position |-> process_rank * B * T]

AdvanceShard_RankZero(loader, shards, process_rank) ==
  LET next == (loader.current_shard % Len(shards)) + 1
  IN [current_shard |-> next, loaded |-> next, current_position |-> 0]
AdvanceShard(loader, shards, process_rank) ==
  LET next == (loader.current_shard % Len(shards)) + 1
  IN [current_shard |-> next, loaded |-> next, current_position |-> process_rank * B * T]

\* The window of tokens next_batch cuts (a slice, which a short shard makes shorter); the
\* inputs are all but its last token, the targets all but its first.
NextWindow(loader, shards) ==
  LET tokens == shards[loader.loaded].data
  IN SubSeq(tokens, loader.current_position + 1,
            Min({loader.current_position + B * T + 1, Len(tokens)}))

AfterBatch_NoTargetToken(loader, shards, process_rank, num_processes) ==
  LET moved == [loader EXCEPT !.current_position = @ + B * T * num_processes]
  IN IF moved.current_position + B * T * num_processes > Len(shards[loader.loaded].data)
     THEN AdvanceShard(moved, shards, process_rank)
     ELSE moved
\* The loader after next_batch.
AfterBatch(loader, shards, process_rank, num_processes) ==
  LET moved == [loader EXCEPT !.current_position = @ + B * T * num_processes]
  IN IF moved.current_position + (B * T * num_processes + 1) > Len(shards[loader.loaded].data)
     THEN AdvanceShard(moved, shards, process_rank)
     ELSE moved
=============================================================================
