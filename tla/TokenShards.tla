---------------------------- MODULE TokenShards ----------------------------
(***************************************************************************)
(* dev/data: the scripts that tokenize a corpus and write it as .bin files *)
(* of tokens, one split for validation and one for training.               *)
(*                                                                         *)
(* A corpus is the sequence of the token counts of its units: documents    *)
(* for fineweb.py, input files for tinystories.py, sections for            *)
(* tinyshakespeare.py.  A token is the pair of its unit and its place in   *)
(* it; its id means nothing here.  A script can be killed while it writes  *)
(* a file, and it can stop with an exception; what is on disk then stays.  *)
(***************************************************************************)
EXTENDS Integers, Sequences, FiniteSets, SequencesExt

CONSTANTS
  Scripts,    \* which of the three scripts may be run
  Corpora,    \* the corpora they may be run on
  ModelDescs, \* the values of --model_desc
  ShardSize,  \* fineweb.py --shard_size
  ValTokens   \* tinyshakespeare.py: 32,768 tokens for validation

ASSUME TokenShardsAssumption ==
  /\ Scripts \subseteq {"fineweb", "tinystories", "tinyshakespeare"}
  /\ ModelDescs \subseteq {"gpt-2", "llama-3"}
  /\ \A c \in Corpora : c \in Seq(Nat \ {0}) /\ c # <<>>
  /\ ShardSize \in Nat \ {0} /\ ValTokens \in Nat \ {0}

VARIABLES
  script,        \* the script that runs
  model_desc,    \* its --model_desc
  corpus,        \* what it tokenizes
  order,         \* the units tokenized so far, in the order they were added
  all_tokens,    \* the tokens in the buffer (all_tokens_np[:token_count])
  progress_bar,  \* fineweb.py: whether a progress bar exists
  files,         \* the files written of each split, in the order of their names
  script_pc      \* "running", "done", "stopped" (AttributeError), "overflowed" (ValueError)
                 \* or "killed"

shardVars == <<script, model_desc, corpus, order, all_tokens, progress_bar, files, script_pc>>
given == <<script, model_desc, corpus>>

\* The file format: what the header says and how wide a token is.
HeadersInfo ==
  [d \in {"gpt-2", "llama-3"} |->
     IF d = "gpt-2" THEN [magic |-> 20240520, version |-> 1, token_bytes |-> 2]
                    ELSE [magic |-> 20240801, version |-> 7, token_bytes |-> 4]]

\* The tokens of a document: the end-of-text token and its text.
Tokenize(u) == [k \in 1..corpus[u] |-> <<u, k>>]

\* A finished .bin file of the tokens toks.
Datafile(toks) == [info |-> HeadersInfo[model_desc], ntok |-> Len(toks), data |-> toks]

\* fineweb.py writes validation first and then as many training shards as it takes;
\* the two other scripts write one file of each.
NextSplit == IF files["val"] = <<>> THEN "val" ELSE "train"

\* write_datafile of the next file, whole, after which the script is in state after; or
\* killed with less on disk than the header, which is written first, promises.
WriteDatafile(toks, after) ==
  LET whole == Datafile(toks)
  IN \/ /\ files' = [files EXCEPT ![NextSplit] = Append(@, whole)]
        /\ script_pc' = after
     \/ \E n \in {0, Len(toks) - 1} :
          /\ 0 <= n /\ n < Len(toks)
          /\ files' = [files EXCEPT ![NextSplit] =
                         Append(@, [whole EXCEPT !.data = SubSeq(toks, 1, n)])]
          /\ script_pc' = "killed"

ShardsInit ==
  /\ script \in Scripts /\ model_desc \in ModelDescs /\ corpus \in Corpora
  /\ order = <<>> /\ all_tokens = <<>> /\ progress_bar = FALSE
  /\ files = [split \in {"val", "train"} |-> <<>>] /\ script_pc = "running"

Units == DOMAIN corpus
NextUnit == Len(order) + 1
Runs(name) == script = name /\ script_pc = "running"

-----------------------------------------------------------------------------
(***************************************************************************)
(* fineweb.py.  pool.imap returns the documents in their order.            *)
(***************************************************************************)
Fits(tokens) == Len(all_tokens) + Len(tokens) < ShardSize

FineWebAppends ==
  /\ Runs("fineweb") /\ NextUnit \in Units /\ Fits(Tokenize(NextUnit))
  /\ all_tokens' = all_tokens \o Tokenize(NextUnit)
  /\ progress_bar' = TRUE
  /\ order' = Append(order, NextUnit)
  /\ UNCHANGED <<given, files, script_pc>>

Leftover_RepeatsOne(tokens) == SubSeq(tokens, ShardSize - Len(all_tokens), Len(tokens))
\* What goes on to the next shard of a document that the current one has no room for.
Leftover(tokens) == SubSeq(tokens, ShardSize - Len(all_tokens) + 1, Len(tokens))

\* The document does not fit and a bar exists: it is cut at the end of the shard, which is
\* written.  What is left of it goes to the head of the buffer; if it is longer than that,
\* the assignment raises ValueError, and the buffer and token_count stay as they were.
FineWebSplits ==
  /\ Runs("fineweb") /\ NextUnit \in Units
  /\ LET tokens == Tokenize(NextUnit)
         remainder == ShardSize - Len(all_tokens)
         rest == Leftover(tokens)
     IN /\ ~Fits(tokens) /\ progress_bar
        /\ WriteDatafile(all_tokens \o SubSeq(tokens, 1, remainder),
                         IF Len(rest) <= ShardSize THEN "running" ELSE "overflowed")
        /\ all_tokens' = IF script_pc' = "running" THEN rest ELSE all_tokens
  /\ progress_bar' = (script_pc' = "killed")
  /\ order' = Append(order, NextUnit)
  /\ UNCHANGED given

\* The document does not fit and there is no bar to update: AttributeError.
FineWebStops ==
  /\ Runs("fineweb") /\ NextUnit \in Units
  /\ ~Fits(Tokenize(NextUnit)) /\ ~progress_bar
  /\ script_pc' = "stopped"
  /\ UNCHANGED <<given, order, all_tokens, progress_bar, files>>

FineWebEnds ==
  /\ Runs("fineweb") /\ NextUnit \notin Units
  /\ IF all_tokens = <<>> THEN script_pc' = "done" /\ UNCHANGED files
                          ELSE WriteDatafile(all_tokens, "done")
  /\ all_tokens' = <<>>
  /\ UNCHANGED <<given, order, progress_bar>>

-----------------------------------------------------------------------------
(***************************************************************************)
(* tinystories.py.  The first input file is the validation split.  A       *)
(* process pool tokenizes the files of a split; as_completed hands them    *)
(* over in any order.                                                      *)
(***************************************************************************)
SplitUnits == IF NextSplit = "val" THEN {1} ELSE Units \ {1}
Completed == Range(order)

StoriesFileCompletes(u) ==
  /\ Runs("tinystories") /\ u \in SplitUnits \ Completed
  /\ all_tokens' = all_tokens \o Tokenize(u)
  /\ order' = Append(order, u)
  /\ UNCHANGED <<given, progress_bar, files, script_pc>>

StoriesSplitEnds ==
  /\ Runs("tinystories") /\ SplitUnits \subseteq Completed
  /\ WriteDatafile(all_tokens, IF NextSplit = "val" THEN "running" ELSE "done")
  /\ all_tokens' = <<>>
  /\ UNCHANGED <<given, order, progress_bar>>

-----------------------------------------------------------------------------
(***************************************************************************)
(* tinyshakespeare.py: all sections first, then both files.                *)
(***************************************************************************)
ShakespeareSection ==
  /\ Runs("tinyshakespeare") /\ NextUnit \in Units
  /\ all_tokens' = all_tokens \o Tokenize(NextUnit)
  /\ order' = Append(order, NextUnit)
  /\ UNCHANGED <<given, progress_bar, files, script_pc>>

ShakespeareWrites ==
  /\ Runs("tinyshakespeare") /\ NextUnit \notin Units
  /\ IF NextSplit = "val"
     THEN /\ WriteDatafile(SubSeq(all_tokens, 1, Min({ValTokens, Len(all_tokens)})), "running")
          /\ all_tokens' = SubSeq(all_tokens, ValTokens + 1, Len(all_tokens))
     ELSE /\ WriteDatafile(all_tokens, "done")
          /\ all_tokens' = <<>>
  /\ UNCHANGED <<given, order, progress_bar>>

ScriptNext ==
  \/ FineWebAppends \/ FineWebSplits \/ FineWebStops \/ FineWebEnds
  \/ \E u \in Units : StoriesFileCompletes(u)
  \/ StoriesSplitEnds
  \/ ShakespeareSection \/ ShakespeareWrites

-----------------------------------------------------------------------------
(***************************************************************************)
(* While a script runs, when it is done, and when fineweb.py stops with    *)
(* AttributeError, the files and the buffer together hold the documents    *)
(* taken so far, each token once and in order, wherever a document was     *)
(* cut.  When it stops with ValueError the files alone hold a beginning of *)
(* them, up to a place inside the last document; more than a shard of that *)
(* document is lost, and the buffer only repeats what is on disk.  Every   *)
(* fineweb shard but one at the end is full.  (A killed script may leave a *)
(* short file.)                                                            *)
(***************************************************************************)
Written(split) == FlattenSeq([i \in DOMAIN files[split] |-> files[split][i].data])
OnDisk == Written("val") \o Written("train")
Taken == FlattenSeq([i \in DOMAIN order |-> Tokenize(order[i])])
Lost == Len(Taken) - Len(OnDisk)
ShardsCarryTheCorpus ==
  /\ script_pc \in {"running", "done", "stopped"} => OnDisk \o all_tokens = Taken
  /\ script_pc = "overflowed" =>
       /\ OnDisk = SubSeq(Taken, 1, Len(OnDisk))
       /\ ShardSize < Lost /\ Lost < corpus[Last(order)]
       /\ \E k \in 0..(Len(OnDisk) - Len(all_tokens)) :
            all_tokens = SubSeq(OnDisk, k + 1, k + Len(all_tokens))
  /\ script_pc # "killed" /\ script = "fineweb" =>
       \A split \in {"val", "train"} : \A i \in DOMAIN files[split] :
         files[split][i].ntok # ShardSize =>
           /\ script_pc = "done" /\ i = Len(files[split])
           /\ split = "val" => files["train"] = <<>>
=============================================================================
