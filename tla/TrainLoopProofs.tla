-------------------------- MODULE TrainLoopProofs ---------------------------
(***************************************************************************)
(* Proofs about TrainLoop, for every corpus, shard size, batch size,       *)
(* number of ranks and command line.  Three invariants, each resting on    *)
(* the one before it:                                                      *)
(*   ShardsInv   the files, the buffer and a document's leftover are the   *)
(*               tokens taken so far, in order;                            *)
(*   DataInv     the loaders of a running rank are in order, and every     *)
(*               batch begins on the grid of its rank;                     *)
(*   ReplicaInv  the ranks are in lockstep, and a rank that is behind is   *)
(*               about to make the update the others have made.            *)
(***************************************************************************)
EXTENDS TrainLoop, SequenceLemmas, FiniteSetTheorems, FunctionTheorems

-----------------------------------------------------------------------------
(***************************************************************************)
(* The token files.                                                        *)
(***************************************************************************)
Splits == {"val", "train"}
Tokens == Nat \X Nat
TokenFiles == [info : {HeadersInfo[d] : d \in {"gpt-2", "llama-3"}}, ntok : Nat, data : Seq(Tokens)]
ScriptPlaces == {"running", "done", "stopped", "overflowed", "killed"}

ShardsTypeOK ==
  /\ script \in Scripts /\ model_desc \in ModelDescs /\ corpus \in Corpora
  /\ order \in Seq(Units) /\ all_tokens \in Seq(Tokens) /\ progress_bar \in BOOLEAN
  /\ files \in [Splits -> Seq(TokenFiles)]
  /\ script_pc \in ScriptPlaces

\* What is written of the documents in fs.
WrittenIn(fs, split) == FlattenSeq([i \in DOMAIN fs[split] |-> fs[split][i].data])

\* Every file but the last one of a script that is done is full.
FullFiles(fs) == \A split \in Splits : \A i \in DOMAIN fs[split] : fs[split][i].ntok = ShardSize

\* What is left when the rest of a document of the given length is longer than the buffer.
OverflowLeaves(disk, taken, buffer, length) ==
  /\ disk = SubSeq(taken, 1, Len(disk))
  /\ ShardSize < Len(taken) - Len(disk) /\ Len(taken) - Len(disk) < length
  /\ \E k \in 0..(Len(disk) - Len(buffer)) : buffer = SubSeq(disk, k + 1, k + Len(buffer))

\* ShardsCarryTheCorpus.
CorpusCarried ==
  /\ script_pc \in {"running", "done", "stopped"} =>
       (WrittenIn(files, "val") \o WrittenIn(files, "train")) \o all_tokens = Taken
  /\ script_pc = "overflowed" =>
       OverflowLeaves(WrittenIn(files, "val") \o WrittenIn(files, "train"), Taken, all_tokens,
                      corpus[Last(order)])
  /\ script_pc # "killed" /\ script = "fineweb" =>
       \A split \in Splits : \A i \in DOMAIN files[split] :
         files[split][i].ntok # ShardSize =>
           /\ script_pc = "done" /\ i = Len(files[split])
           /\ split = "val" => files["train"] = <<>>

\* The buffer of fineweb.py never overflows while it runs, and has room while there is a
\* bar; every shard it writes before the end is full; a file is whole unless the script
\* was killed while it wrote it.
ShardsInv ==
  /\ ShardsTypeOK
  /\ files["val"] = <<>> => files["train"] = <<>>
  /\ script = "fineweb" /\ script_pc = "running" =>
       Len(all_tokens) <= ShardSize /\ (progress_bar => Len(all_tokens) < ShardSize)
  /\ script = "fineweb" /\ script_pc \in {"running", "stopped"} => FullFiles(files)
  /\ CorpusCarried

LEMMA JoiningTokens ==
  /\ \A a, b, c \in Seq(Tokens) : (a \o b) \o c = a \o (b \o c)
  /\ \A a, b \in Seq(Tokens) : a \o b \in Seq(Tokens) /\ Len(a \o b) = Len(a) + Len(b)
  /\ \A a \in Seq(Tokens) : a \o <<>> = a /\ <<>> \o a = a
<1>1. \A a, b, c \in Seq(Tokens) : (a \o b) \o c = a \o (b \o c)
  BY ConcatAssociative
<1>2. \A a, b \in Seq(Tokens) : a \o b \in Seq(Tokens) /\ Len(a \o b) = Len(a) + Len(b)
  OBVIOUS
<1>3. \A a \in Seq(Tokens) : a \o <<>> = a /\ <<>> \o a = a
  BY ConcatEmptySeq
<1> QED
  BY <1>1, <1>2, <1>3

LEMMA CorpusFacts ==
  ASSUME ShardsTypeOK
  PROVE  /\ corpus \in Seq(Nat \ {0}) /\ corpus # <<>>
         /\ Units = 1..Len(corpus) /\ Len(corpus) \in Nat \ {0}
         /\ \A u \in Units : Tokenize(u) \in Seq(Tokens) /\ Len(Tokenize(u)) = corpus[u]
<1>1. corpus \in Seq(Nat \ {0}) /\ corpus # <<>>
  BY TokenShardsAssumption DEF ShardsTypeOK
<1>2. Units = 1..Len(corpus) /\ Len(corpus) \in Nat \ {0}
  BY <1>1 DEF Units
<1>3. ASSUME NEW u \in Units
      PROVE  Tokenize(u) \in Seq(Tokens) /\ Len(Tokenize(u)) = corpus[u]
  <2>1. corpus[u] \in Nat \ {0} /\ u \in Nat
    BY <1>1, <1>2
  <2>2. Tokenize(u) \in [1..corpus[u] -> Tokens]
    BY <2>1 DEF Tokenize, Tokens
  <2>3. Tokenize(u) \in Seq(Tokens)
    BY <2>1, <2>2, SeqDef
  <2>4. DOMAIN Tokenize(u) = 1..corpus[u]
    BY <2>2
  <2> QED
    BY <2>1, <2>3, <2>4, LenProperties
<1> QED
  BY <1>1, <1>2, <1>3

LEMMA DatafileType ==
  ASSUME ShardsTypeOK, NEW toks \in Seq(Tokens)
  PROVE  /\ Datafile(toks) \in TokenFiles
         /\ Datafile(toks).data = toks /\ Datafile(toks).ntok = Len(toks)
<1>1. HeadersInfo[model_desc] \in {HeadersInfo[d] : d \in {"gpt-2", "llama-3"}}
  BY TokenShardsAssumption DEF ShardsTypeOK
<1> QED
  BY <1>1 DEF Datafile, TokenFiles

LEMMA WriteDatafileType ==
  ASSUME ShardsTypeOK, NEW toks \in Seq(Tokens), NEW after \in ScriptPlaces,
         WriteDatafile(toks, after)
  PROVE  /\ files' \in [Splits -> Seq(TokenFiles)] /\ script_pc' \in ScriptPlaces
         /\ files'["val"] # <<>>
         /\ script_pc' # "killed" =>
              /\ script_pc' = after
              /\ files' = [files EXCEPT ![NextSplit] = Append(@, Datafile(toks))]
<1>1. NextSplit \in Splits /\ files \in [Splits -> Seq(TokenFiles)]
  BY DEF NextSplit, Splits, ShardsTypeOK
<1>2. ASSUME NEW file \in TokenFiles, files' = [files EXCEPT ![NextSplit] = Append(@, file)]
      PROVE  files' \in [Splits -> Seq(TokenFiles)] /\ files'["val"] # <<>>
  <2>1. Append(files[NextSplit], file) \in Seq(TokenFiles) /\ Append(files[NextSplit], file) # <<>>
    BY <1>1, <1>2, AppendProperties
  <2>2. NextSplit # "val" => files["val"] # <<>>
    BY DEF NextSplit
  <2>3. "val" \in Splits
    BY DEF Splits
  <2> QED
    BY <1>1, <1>2, <2>1, <2>2, <2>3
<1>3. CASE files' = [files EXCEPT ![NextSplit] = Append(@, Datafile(toks))] /\ script_pc' = after
  BY <1>2, <1>3, DatafileType
<1>4. ASSUME NEW n \in {0, Len(toks) - 1}, 0 <= n, n < Len(toks),
             files' = [files EXCEPT ![NextSplit] =
                         Append(@, [Datafile(toks) EXCEPT !.data = SubSeq(toks, 1, n)])],
             script_pc' = "killed"
      PROVE  /\ files' \in [Splits -> Seq(TokenFiles)] /\ script_pc' \in ScriptPlaces
             /\ files'["val"] # <<>>
  <2>1. SubSeq(toks, 1, n) \in Seq(Tokens)
    BY <1>4
  <2>2. [Datafile(toks) EXCEPT !.data = SubSeq(toks, 1, n)] \in TokenFiles
    BY <2>1, DatafileType DEF TokenFiles
  <2> QED
    BY <1>2, <1>4, <2>2 DEF ScriptPlaces
<1> QED
  BY <1>3, <1>4 DEF WriteDatafile

\* A whole file carries its tokens to the end of what is written, because nothing is
\* written for training before the validation file is.
LEMMA WrittenGrows ==
  ASSUME NEW fs \in [Splits -> Seq(TokenFiles)], NEW file \in TokenFiles,
         fs["val"] = <<>> => fs["train"] = <<>>,
         NEW next \in Splits, next = IF fs["val"] = <<>> THEN "val" ELSE "train",
         NEW gs, gs = [fs EXCEPT ![next] = Append(@, file)]
  PROVE  /\ WrittenIn(fs, "val") \in Seq(Tokens) /\ WrittenIn(fs, "train") \in Seq(Tokens)
         /\ WrittenIn(gs, "val") \o WrittenIn(gs, "train")
              = (WrittenIn(fs, "val") \o WrittenIn(fs, "train")) \o file.data
<1> DEFINE Datas(files_of) == [i \in DOMAIN files_of |-> files_of[i].data]
<1>1. ASSUME NEW s \in Seq(TokenFiles)
      PROVE  Datas(s) \in Seq(Seq(Tokens)) /\ Len(Datas(s)) = Len(s)
  <2>1. DOMAIN s = 1..Len(s) /\ Len(s) \in Nat
    OBVIOUS
  <2>2. \A i \in 1..Len(s) : s[i].data \in Seq(Tokens)
    <3>1. \A f \in TokenFiles : f.data \in Seq(Tokens)
      BY DEF TokenFiles
    <3>2. \A i \in 1..Len(s) : s[i] \in TokenFiles
      OBVIOUS
    <3> QED
      BY <3>1, <3>2
  <2>3. Datas(s) \in [1..Len(s) -> Seq(Tokens)]
    BY <2>1, <2>2
  <2>4. Datas(s) \in Seq(Seq(Tokens))
    BY <2>1, <2>3, SeqDef
  <2>5. DOMAIN Datas(s) = 1..Len(s)
    BY <2>1
  <2> QED
    BY <2>1, <2>4, <2>5, LenProperties
<1>2. \A s \in Seq(TokenFiles) : FlattenSeq(Datas(s)) \in Seq(Tokens)
  BY <1>1, FlattenType
<1>3. ASSUME NEW s \in Seq(TokenFiles)
      PROVE  FlattenSeq(Datas(Append(s, file))) = FlattenSeq(Datas(s)) \o file.data
  <2>1. file.data \in Seq(Tokens)
    BY DEF TokenFiles
  <2> DEFINE longer == Append(s, file)
  <2>2. /\ longer \in Seq(TokenFiles) /\ Len(longer) = Len(s) + 1 /\ Len(s) \in Nat
        /\ DOMAIN longer = 1..(Len(s) + 1)
        /\ \A i \in 1..Len(s) : longer[i] = s[i]
        /\ longer[Len(s) + 1] = file
    OBVIOUS
  <2> HIDE DEF longer
  <2>3. /\ \A i \in 1..Len(s) : Datas(longer)[i] = Datas(s)[i]
        /\ Datas(longer)[Len(s) + 1] = file.data
    <3>1. DOMAIN s = 1..Len(s)
      OBVIOUS
    <3> QED
      BY <2>2, <3>1
  <2>4. Datas(longer) = Append(Datas(s), file.data)
    <3>1. Datas(longer) \in Seq(Seq(Tokens)) /\ Len(Datas(longer)) = Len(s) + 1
      BY <1>1, <2>2
    <3>2. Datas(s) \in Seq(Seq(Tokens)) /\ Len(Datas(s)) = Len(s)
      BY <1>1
    <3> HIDE DEF Datas
    <3>3. /\ Append(Datas(s), file.data) \in Seq(Seq(Tokens))
          /\ Len(Append(Datas(s), file.data)) = Len(s) + 1
          /\ \A i \in 1..(Len(s) + 1) :
               Append(Datas(s), file.data)[i] = IF i <= Len(s) THEN Datas(s)[i] ELSE file.data
      BY <2>1, <2>2, <3>2
    <3>4. \A i \in 1..(Len(s) + 1) : Datas(longer)[i] = Append(Datas(s), file.data)[i]
      BY <2>2, <2>3, <3>3
    <3> QED
      BY <3>1, <3>3, <3>4, SeqEqual
  <2>5. Datas(s) \in Seq(Seq(Tokens))
    BY <1>1
  <2> HIDE DEF Datas
  <2>6. FlattenSeq(Append(Datas(s), file.data)) = FlattenSeq(Datas(s)) \o file.data
    BY <2>1, <2>5, FlattenAppend
  <2> QED
    BY <2>4, <2>6 DEF longer
<1>4. \A split \in Splits : WrittenIn(fs, split) = FlattenSeq(Datas(fs[split]))
  BY DEF WrittenIn
<1>5. \A split \in Splits : WrittenIn(gs, split) = FlattenSeq(Datas(gs[split]))
  BY DEF WrittenIn
<1> HIDE DEF Datas
<1>6. /\ "val" \in Splits /\ "train" \in Splits
      /\ fs["val"] \in Seq(TokenFiles) /\ fs["train"] \in Seq(TokenFiles)
  BY DEF Splits
<1>7. WrittenIn(fs, "val") \in Seq(Tokens) /\ WrittenIn(fs, "train") \in Seq(Tokens)
  BY <1>2, <1>4, <1>6
<1>8. file.data \in Seq(Tokens)
  BY DEF TokenFiles
<1>9. CASE fs["val"] = <<>>
  <2>1. gs["val"] = Append(fs["val"], file) /\ gs["train"] = fs["train"] /\ fs["train"] = <<>>
    BY <1>6, <1>9
  <2>2. WrittenIn(gs, "val") = WrittenIn(fs, "val") \o file.data
    BY <1>3, <1>4, <1>5, <1>6, <2>1
  <2>3. WrittenIn(gs, "train") = <<>> /\ WrittenIn(fs, "train") = <<>>
    <3>1. Datas(<<>>) = <<>>
      BY DEF Datas
    <3>2. FlattenSeq(Datas(<<>>)) = <<>>
      BY <3>1, FlattenEmpty, Zenon
    <3>3. WrittenIn(gs, "train") = FlattenSeq(Datas(<<>>))
      BY <1>5, <1>6, <2>1, Zenon
    <3>4. WrittenIn(fs, "train") = FlattenSeq(Datas(<<>>))
      BY <1>4, <1>6, <2>1, Zenon
    <3> QED
      BY <3>2, <3>3, <3>4, Zenon
  <2>4. \A s \in Seq(Tokens) : s \o <<>> = s
    BY ConcatEmptySeq
  <2>5. WrittenIn(fs, "val") \o file.data \in Seq(Tokens)
    BY <1>7, <1>8
  <2> QED
    BY <1>7, <2>2, <2>3, <2>4, <2>5
<1>10. CASE fs["val"] # <<>>
  <2>1. gs["train"] = Append(fs["train"], file) /\ gs["val"] = fs["val"]
    BY <1>6, <1>10
  <2>2. WrittenIn(gs, "train") = WrittenIn(fs, "train") \o file.data
    BY <1>3, <1>4, <1>5, <1>6, <2>1
  <2>3. WrittenIn(gs, "val") = WrittenIn(fs, "val")
    BY <1>4, <1>5, <1>6, <2>1
  <2> DEFINE v == WrittenIn(fs, "val")
             t == WrittenIn(fs, "train")
             data == file.data
  <2>4. (v \o t) \o data = v \o (t \o data)
    <3>1. v \in Seq(Tokens) /\ t \in Seq(Tokens) /\ data \in Seq(Tokens)
      BY <1>7, <1>8
    <3>2. \A a, b, c \in Seq(Tokens) : (a \o b) \o c = a \o (b \o c)
      BY JoiningTokens
    <3> HIDE DEF v, t, data, Tokens
    <3> QED
      BY <3>1, <3>2
  <2> QED
    BY <1>7, <2>2, <2>3, <2>4
<1> QED
  BY <1>7, <1>9, <1>10

\* One more document.
LEMMA TakenGrows ==
  ASSUME ShardsTypeOK, NEW u \in Units, order' = Append(order, u), corpus' = corpus
  PROVE  /\ order' \in Seq(Units) /\ Taken \in Seq(Tokens)
         /\ Taken' = Taken \o Tokenize(u)
<1> DEFINE Texts(s) == [i \in DOMAIN s |-> Tokenize(s[i])]
<1>1. \A v \in Units : Tokenize(v) \in Seq(Tokens)
  BY CorpusFacts
<1>2. /\ order \in Seq(Units) /\ order' \in Seq(Units) /\ Len(order) \in Nat
      /\ Len(order') = Len(order) + 1
      /\ \A i \in 1..Len(order) : order'[i] = order[i]
      /\ order'[Len(order) + 1] = u
  BY DEF ShardsTypeOK
<1>3. ASSUME NEW s \in Seq(Units)
      PROVE  Texts(s) \in Seq(Seq(Tokens)) /\ Len(Texts(s)) = Len(s)
  <2>1. DOMAIN s = 1..Len(s) /\ Len(s) \in Nat
    OBVIOUS
  <2>2. Texts(s) \in [1..Len(s) -> Seq(Tokens)]
    BY <1>1, <2>1
  <2>3. Texts(s) \in Seq(Seq(Tokens))
    BY <2>1, <2>2, SeqDef
  <2>4. DOMAIN Texts(s) = 1..Len(s)
    BY <2>1
  <2> QED
    BY <2>1, <2>3, <2>4, LenProperties
<1>4. Taken = FlattenSeq(Texts(order))
  BY DEF Taken
<1>5. Taken' = FlattenSeq(Texts(order'))
  BY DEF Taken, Tokenize
<1>6. Texts(order') = Append(Texts(order), Tokenize(u))
  <2>1. Texts(order') \in Seq(Seq(Tokens)) /\ Len(Texts(order')) = Len(order) + 1
    BY <1>2, <1>3
  <2>2. /\ \A i \in 1..Len(order) : Texts(order')[i] = Texts(order)[i]
        /\ Texts(order')[Len(order) + 1] = Tokenize(u)
    <3>1. DOMAIN order = 1..Len(order) /\ DOMAIN order' = 1..(Len(order) + 1)
      BY <1>2
    <3> QED
      BY <1>2, <3>1
  <2>3. Texts(order) \in Seq(Seq(Tokens)) /\ Len(Texts(order)) = Len(order)
    BY <1>2, <1>3
  <2> HIDE DEF Texts
  <2>4. /\ Append(Texts(order), Tokenize(u)) \in Seq(Seq(Tokens))
        /\ Len(Append(Texts(order), Tokenize(u))) = Len(order) + 1
        /\ \A i \in 1..(Len(order) + 1) :
             Append(Texts(order), Tokenize(u))[i]
               = IF i <= Len(order) THEN Texts(order)[i] ELSE Tokenize(u)
    BY <1>1, <1>2, <2>3
  <2>5. \A i \in 1..(Len(order) + 1) : Texts(order')[i] = Append(Texts(order), Tokenize(u))[i]
    BY <1>2, <2>2, <2>4
  <2> QED
    BY <2>1, <2>4, <2>5, SeqEqual
<1>7. Texts(order) \in Seq(Seq(Tokens)) /\ Tokenize(u) \in Seq(Tokens)
  BY <1>1, <1>2, <1>3
<1> HIDE DEF Texts
<1>8. FlattenSeq(Texts(order)) \in Seq(Tokens)
  BY <1>7, FlattenType
<1>9. FlattenSeq(Append(Texts(order), Tokenize(u))) = FlattenSeq(Texts(order)) \o Tokenize(u)
  BY <1>7, FlattenAppend
<1> QED
  BY <1>2, <1>4, <1>5, <1>6, <1>8, <1>9

LEMMA TakenType ==
  ASSUME ShardsTypeOK
  PROVE  Taken \in Seq(Tokens)
<1> DEFINE Texts == [i \in DOMAIN order |-> Tokenize(order[i])]
<1>1. order \in Seq(Units) /\ DOMAIN order = 1..Len(order) /\ Len(order) \in Nat
  BY DEF ShardsTypeOK
<1>2. \A v \in Units : Tokenize(v) \in Seq(Tokens)
  BY CorpusFacts
<1>3. Texts \in [1..Len(order) -> Seq(Tokens)]
  BY <1>1, <1>2
<1>4. Texts \in Seq(Seq(Tokens))
  BY <1>1, <1>3, SeqDef
<1> QED
  BY <1>4, FlattenType DEF Taken


LEMMA WrittenType ==
  ASSUME ShardsInv
  PROVE  WrittenIn(files, "val") \o WrittenIn(files, "train") \in Seq(Tokens)
<1> DEFINE file == Datafile(<<>>)
           next == IF files["val"] = <<>> THEN "val" ELSE "train"
<1>1. file \in TokenFiles
  <2>1. <<>> \in Seq(Tokens)
    OBVIOUS
  <2> QED
    BY <2>1, DatafileType DEF ShardsInv
<1>2. next \in Splits /\ files \in [Splits -> Seq(TokenFiles)]
  BY DEF Splits, ShardsInv, ShardsTypeOK
<1>3. WrittenIn(files, "val") \in Seq(Tokens) /\ WrittenIn(files, "train") \in Seq(Tokens)
  BY <1>1, <1>2, WrittenGrows DEF ShardsInv
<1> QED
  BY <1>3, JoiningTokens

\* A document that stays in the buffer.
LEMMA AppendingDocument ==
  ASSUME ShardsInv, script_pc = "running", NEW u \in Units,
         all_tokens' = all_tokens \o Tokenize(u), order' = Append(order, u),
         progress_bar' \in BOOLEAN, UNCHANGED <<given, files, script_pc>>,
         script = "fineweb" => Len(all_tokens) + Len(Tokenize(u)) < ShardSize
  PROVE  ShardsInv'
<1> DEFINE written == WrittenIn(files, "val") \o WrittenIn(files, "train")
<1>1. /\ Tokenize(u) \in Seq(Tokens) /\ all_tokens \in Seq(Tokens) /\ written \in Seq(Tokens)
  BY CorpusFacts, WrittenType DEF ShardsInv, ShardsTypeOK
<1>2. order' \in Seq(Units) /\ Taken' = Taken \o Tokenize(u)
  BY TakenGrows DEF given, ShardsInv
<1>3. /\ all_tokens' \in Seq(Tokens)
      /\ Len(all_tokens') = Len(all_tokens) + Len(Tokenize(u))
  BY <1>1, JoiningTokens
<1>4. ShardsTypeOK'
  BY <1>2, <1>3 DEF ShardsInv, ShardsTypeOK, given, Units
<1>5. written \o all_tokens = Taken
  BY DEF CorpusCarried, ShardsInv
<1>6. written \o (all_tokens \o Tokenize(u)) = (written \o all_tokens) \o Tokenize(u)
  <2> DEFINE buffer == all_tokens
             text == Tokenize(u)
  <2>1. \A a, b, c \in Seq(Tokens) : (a \o b) \o c = a \o (b \o c)
    BY JoiningTokens
  <2>2. written \in Seq(Tokens) /\ buffer \in Seq(Tokens) /\ text \in Seq(Tokens)
    BY <1>1
  <2>3. written \o (buffer \o text) = (written \o buffer) \o text
    <3> HIDE DEF written, buffer, text, Tokens
    <3> QED
      BY <2>1, <2>2
  <2> QED
    BY <2>3
<1>7. (written \o all_tokens = Taken)'
  BY <1>2, <1>5, <1>6 DEF WrittenIn
<1>8. CorpusCarried'
  BY <1>7 DEF ShardsInv, CorpusCarried, given
<1>9. script = "fineweb" => Len(all_tokens') < ShardSize /\ Len(all_tokens') <= ShardSize
  BY <1>1, <1>3, TokenShardsAssumption
<1> QED
  BY <1>3, <1>4, <1>8, <1>9 DEF ShardsInv, given, FullFiles

\* A script writes toks to the next file, whole.
LEMMA FileAdded ==
  ASSUME ShardsInv, NEW toks \in Seq(Tokens), NEW after \in ScriptPlaces,
         WriteDatafile(toks, after), script_pc' # "killed"
  PROVE  /\ script_pc' = after
         /\ WrittenIn(files', "val") \o WrittenIn(files', "train")
              = (WrittenIn(files, "val") \o WrittenIn(files, "train")) \o toks
         /\ FullFiles(files) =>
              \A split \in Splits : \A i \in DOMAIN files'[split] :
                files'[split][i].ntok # ShardSize =>
                  /\ Len(toks) # ShardSize /\ i = Len(files'[split])
                  /\ split = "val" => files'["train"] = <<>>
<1> DEFINE file == Datafile(toks)
<1>1. /\ file \in TokenFiles /\ file.data = toks /\ file.ntok = Len(toks)
  BY DatafileType DEF ShardsInv
<1>2. script_pc' = after /\ files' = [files EXCEPT ![NextSplit] = Append(@, file)]
  BY WriteDatafileType DEF ShardsInv
<1> HIDE DEF file
<1>3. /\ NextSplit \in Splits /\ files \in [Splits -> Seq(TokenFiles)]
      /\ NextSplit = IF files["val"] = <<>> THEN "val" ELSE "train"
      /\ files["val"] = <<>> => files["train"] = <<>>
  BY DEF NextSplit, Splits, ShardsInv, ShardsTypeOK
<1>4. WrittenIn(files', "val") \o WrittenIn(files', "train")
        = (WrittenIn(files, "val") \o WrittenIn(files, "train")) \o toks
  BY <1>1, <1>2, <1>3, WrittenGrows
<1>5. ASSUME FullFiles(files), NEW split \in Splits, NEW i \in DOMAIN files'[split],
             files'[split][i].ntok # ShardSize
      PROVE  /\ Len(toks) # ShardSize /\ i = Len(files'[split])
             /\ split = "val" => files'["train"] = <<>>
  <2>1. \A s \in Splits : \A j \in DOMAIN files[s] : files[s][j].ntok = ShardSize
    BY <1>5 DEF FullFiles
  <2>2. split = NextSplit /\ files'[split] = Append(files[split], file)
    BY <1>2, <1>3, <1>5, <2>1
  <2>3. i = Len(files'[split]) /\ files'[split][i] = file
    <3>1. files[split] \in Seq(TokenFiles)
      BY <1>3
    <3> QED
      BY <1>1, <1>5, <2>1, <2>2, <3>1
  <2>4. split = "val" => files'["train"] = <<>>
    BY <1>2, <1>3, <2>2 DEF Splits
  <2> QED
    BY <1>1, <1>5, <2>3, <2>4
<1> QED
  BY <1>2, <1>4, <1>5

\* The next file is written: toks, of which the buffer and the documents just taken
\* leave rest, which stays in the buffer.
LEMMA WritingFile ==
  ASSUME ShardsInv, script_pc = "running",
         NEW toks \in Seq(Tokens), NEW more \in Seq(Tokens), NEW rest \in Seq(Tokens),
         NEW after \in {"running", "done"},
         WriteDatafile(toks, after), UNCHANGED given,
         all_tokens' \in Seq(Tokens), progress_bar' \in BOOLEAN, order' \in Seq(Units),
         Taken' = Taken \o more,
         toks \o rest = all_tokens \o more,
         script_pc' # "killed" => all_tokens' = rest,
         script = "fineweb" =>
           /\ Len(toks) = ShardSize \/ after = "done"
           /\ after = "running" /\ script_pc' # "killed" =>
                Len(all_tokens') <= ShardSize /\ ~progress_bar'
  PROVE  ShardsInv'
<1>1. after \in ScriptPlaces /\ ShardsTypeOK
  BY DEF ScriptPlaces, ShardsInv
<1>2. /\ files' \in [Splits -> Seq(TokenFiles)] /\ script_pc' \in ScriptPlaces
      /\ files'["val"] # <<>>
      /\ script_pc' # "killed" => script_pc' = after
  BY <1>1, WriteDatafileType
<1>3. ShardsTypeOK'
  BY <1>2 DEF ShardsInv, ShardsTypeOK, given, Units
<1>4. CASE script_pc' = "killed"
  BY <1>2, <1>3, <1>4 DEF ShardsInv, CorpusCarried
<1>5. CASE script_pc' # "killed"
  <2> DEFINE written == WrittenIn(files, "val") \o WrittenIn(files, "train")
  <2>1. /\ script_pc' = after /\ all_tokens' = rest
        /\ WrittenIn(files', "val") \o WrittenIn(files', "train") = written \o toks
    BY <1>1, <1>5, FileAdded
  <2>2. written \o all_tokens = Taken
    BY DEF CorpusCarried, ShardsInv
  <2>3. (written \o toks) \o rest = Taken'
    <3> DEFINE buffer == all_tokens
    <3>1. \A a, b, c \in Seq(Tokens) : (a \o b) \o c = a \o (b \o c)
      BY JoiningTokens
    <3>2. /\ written \in Seq(Tokens) /\ buffer \in Seq(Tokens)
          /\ toks \in Seq(Tokens) /\ rest \in Seq(Tokens) /\ more \in Seq(Tokens)
      BY WrittenType DEF ShardsInv, ShardsTypeOK
    <3>3. toks \o rest = buffer \o more /\ written \o buffer = Taken
      BY <2>2
    <3>4. (written \o toks) \o rest = (written \o buffer) \o more
      <4> HIDE DEF written, buffer, Tokens
      <4>1. (written \o toks) \o rest = written \o (toks \o rest)
        BY <3>1, <3>2, Zenon
      <4>2. (written \o buffer) \o more = written \o (buffer \o more)
        BY <3>1, <3>2, Zenon
      <4> QED
        BY <3>3, <4>1, <4>2, Zenon
    <3> QED
      BY <3>3, <3>4
  <2>4. ((WrittenIn(files, "val") \o WrittenIn(files, "train")) \o all_tokens = Taken)'
    BY <2>1, <2>3 DEF WrittenIn
  <2>5. script' = script /\ (script = "fineweb" => FullFiles(files))
    BY DEF given, ShardsInv
  <2>6. ASSUME script = "fineweb", NEW split \in Splits, NEW i \in DOMAIN files'[split],
               files'[split][i].ntok # ShardSize
        PROVE  /\ after = "done" /\ i = Len(files'[split])
               /\ split = "val" => files'["train"] = <<>>
    BY <1>1, <1>5, <2>5, <2>6, FileAdded
  <2>7. CorpusCarried'
    BY <2>1, <2>4, <2>5, <2>6 DEF CorpusCarried
  <2>8. script' = "fineweb" /\ script_pc' \in {"running", "stopped"} => FullFiles(files')
    BY <2>1, <2>5, <2>6 DEF FullFiles
  <2>9. script' = "fineweb" /\ script_pc' = "running" =>
          Len(all_tokens') <= ShardSize /\ (progress_bar' => Len(all_tokens') < ShardSize)
    BY <1>5, <2>1, <2>5
  <2> QED
    BY <1>2, <1>3, <2>5, <2>7, <2>8, <2>9 DEF ShardsInv
<1> QED
  BY <1>4, <1>5

\* A document cut after its first k tokens.
LEMMA CutDocument ==
  ASSUME NEW s \in Seq(Tokens), NEW k \in 0..Len(s)
  PROVE  /\ SubSeq(s, 1, k) \in Seq(Tokens) /\ Len(SubSeq(s, 1, k)) = k
         /\ SubSeq(s, k + 1, Len(s)) \in Seq(Tokens)
         /\ SubSeq(s, 1, k) \o SubSeq(s, k + 1, Len(s)) = s
<1>1. Len(s) \in Nat /\ k \in Nat /\ k <= Len(s)
  OBVIOUS
<1>2. SubSeq(s, 1, k) \in Seq(Tokens) /\ Len(SubSeq(s, 1, k)) = k
  BY <1>1
<1>3. SubSeq(s, k + 1, Len(s)) \in Seq(Tokens)
  BY <1>1
<1>4. SubSeq(s, 1, k) \o SubSeq(s, k + 1, Len(s)) = SubSeq(s, 1, Len(s))
  <2>1. 1 \in 1..(Len(s) + 1) /\ k \in (1 - 1)..Len(s) /\ Len(s) \in k..Len(s)
    BY <1>1
  <2> QED
    BY <2>1, ConcatAdjacentSubSeq
<1>5. SubSeq(s, 1, Len(s)) = s
  BY SubSeqFull
<1> QED
  BY <1>2, <1>3, <1>4, <1>5

\* The parts of what is joined.
LEMMA PrefixOfJoin ==
  ASSUME NEW s \in Seq(Tokens), NEW t \in Seq(Tokens)
  PROVE  s = SubSeq(s \o t, 1, Len(s))
<1> QED
  BY JoiningTokens, SeqEqual

LEMMA MiddleOfJoin ==
  ASSUME NEW s \in Seq(Tokens), NEW t \in Seq(Tokens), NEW u \in Seq(Tokens)
  PROVE  t = SubSeq(s \o (t \o u), Len(s) + 1, Len(s) + Len(t))
<1> QED
  BY JoiningTokens, SeqEqual

\* A shard is written, and the rest of its last document is longer than the buffer.
LEMMA Overflowing ==
  ASSUME ShardsInv, script_pc = "running", script = "fineweb", NEW u \in Units,
         NEW head \in Seq(Tokens), NEW rest \in Seq(Tokens), NEW toks,
         toks = all_tokens \o head, Len(toks) = ShardSize,
         Tokenize(u) = head \o rest, Len(Tokenize(u)) = corpus[u],
         Len(head) > 0, Len(rest) > ShardSize,
         WriteDatafile(toks, "overflowed"), UNCHANGED given,
         all_tokens' = all_tokens, progress_bar' \in BOOLEAN,
         order' = Append(order, u), Taken' = Taken \o Tokenize(u)
  PROVE  ShardsInv'
<1> DEFINE written == WrittenIn(files, "val") \o WrittenIn(files, "train")
           disk == written \o toks
           buffer == all_tokens
<1>1. /\ written \in Seq(Tokens) /\ buffer \in Seq(Tokens) /\ ShardSize \in Nat \ {0}
      /\ order \in Seq(Units) /\ ShardsTypeOK /\ "overflowed" \in ScriptPlaces
      /\ head \in Seq(Tokens) /\ Len(head) \in Nat /\ Len(rest) \in Nat
  BY WrittenType, TokenShardsAssumption DEF ShardsInv, ShardsTypeOK, ScriptPlaces
<1>2. /\ \A a, b, c \in Seq(Tokens) : (a \o b) \o c = a \o (b \o c)
      /\ \A a, b \in Seq(Tokens) : a \o b \in Seq(Tokens) /\ Len(a \o b) = Len(a) + Len(b)
  BY JoiningTokens
<1>3. toks \in Seq(Tokens) /\ disk \in Seq(Tokens)
  <2> HIDE DEF written, Tokens
  <2> QED
    BY <1>1, <1>2
<1>4. /\ files' \in [Splits -> Seq(TokenFiles)] /\ script_pc' \in ScriptPlaces
      /\ files'["val"] # <<>>
  BY <1>1, <1>3, WriteDatafileType
<1>5. order' \in Seq(Units) /\ Last(order') = u /\ script' = script /\ corpus' = corpus
  BY <1>1 DEF given, Last
<1>6. ShardsTypeOK'
  BY <1>1, <1>4, <1>5 DEF ShardsTypeOK, given, Units
<1>7. CASE script_pc' = "killed"
  BY <1>4, <1>6, <1>7 DEF ShardsInv, CorpusCarried
<1>8. CASE script_pc' # "killed"
  <2>1. /\ script_pc' = "overflowed"
        /\ WrittenIn(files', "val") \o WrittenIn(files', "train") = disk
    BY <1>1, <1>3, <1>8, FileAdded
  <2>2. Taken' = disk \o rest
    <3>1. written \o buffer = Taken
      BY DEF CorpusCarried, ShardsInv
    <3>2. Taken' = (written \o buffer) \o (head \o rest)
      BY <3>1
    <3>3. toks = buffer \o head
      OBVIOUS
    <3> HIDE DEF written, buffer, Tokens
    <3>4. (written \o buffer) \o (head \o rest) = ((written \o buffer) \o head) \o rest
      <4>1. written \o buffer \in Seq(Tokens)
        BY <1>1, <1>2
      <4> QED
        BY <1>2, <4>1, Zenon
    <3>5. (written \o buffer) \o head = written \o toks
      <4>1. \A c \in Seq(Tokens) : (written \o buffer) \o c = written \o (buffer \o c)
        BY <1>1, <1>2, Zenon
      <4> QED
        BY <1>1, <3>3, <4>1
    <3> QED
      BY <3>2, <3>4, <3>5, Zenon
  <2>3. OverflowLeaves(disk, Taken', buffer, corpus[u])
    <3> DEFINE k == Len(written)
    <3>1. /\ Len(disk) = Len(written) + Len(buffer) + Len(head)
          /\ Len(Taken') = Len(disk) + Len(rest)
          /\ Len(Tokenize(u)) = Len(head) + Len(rest)
          /\ Len(written) \in Nat /\ Len(buffer) \in Nat /\ Len(disk) \in Nat
      <4>1. Len(toks) = Len(buffer) + Len(head)
        <5> HIDE DEF Tokens
        <5> QED
          BY <1>1, <1>2
      <4> HIDE DEF written, Tokens
      <4>2. Len(written \o toks) = Len(written) + Len(toks)
        BY <1>1, <1>2, <1>3
      <4>3. Len((written \o toks) \o rest) = Len(written \o toks) + Len(rest)
        BY <1>2, <1>3
      <4>4. Len(head \o rest) = Len(head) + Len(rest)
        BY <1>2
      <4> QED
        BY <1>1, <1>3, <2>2, <4>1, <4>2, <4>3, <4>4
    <3>2. disk = SubSeq(Taken', 1, Len(disk))
      BY <1>3, <2>2, PrefixOfJoin
    <3>3. ShardSize < Len(Taken') - Len(disk) /\ Len(Taken') - Len(disk) < corpus[u]
      BY <1>1, <3>1
    <3>4. k \in 0..(Len(disk) - Len(buffer))
      BY <1>1, <3>1
    <3>5. buffer = SubSeq(disk, k + 1, k + Len(buffer))
      <4>1. disk = written \o (buffer \o head)
        OBVIOUS
      <4>2. buffer = SubSeq(written \o (buffer \o head), Len(written) + 1, Len(written) + Len(buffer))
        BY <1>1, MiddleOfJoin
      <4> QED
        BY <4>1, <4>2
    <3> HIDE DEF disk, k, written
    <3> QED
      BY <3>2, <3>3, <3>4, <3>5 DEF OverflowLeaves
  <2>4. script = "fineweb" /\ FullFiles(files)
    BY DEF ShardsInv
  <2>5. \A split \in Splits : \A i \in DOMAIN files'[split] : files'[split][i].ntok = ShardSize
    BY <1>1, <1>3, <1>8, <2>4, FileAdded
  <2> HIDE DEF disk
  <2>6. OverflowLeaves(WrittenIn(files, "val") \o WrittenIn(files, "train"), Taken, all_tokens,
                       corpus[Last(order)])'
    <3>1. OverflowLeaves(WrittenIn(files', "val") \o WrittenIn(files', "train"), Taken', all_tokens',
                         corpus'[Last(order')])
      BY <1>5, <2>1, <2>3
    <3> QED
      BY <3>1 DEF OverflowLeaves, WrittenIn
  <2>7. CorpusCarried'
    BY <2>1, <2>5, <2>6 DEF CorpusCarried
  <2> QED
    BY <1>4, <1>6, <2>1, <2>7 DEF ShardsInv
<1> QED
  BY <1>7, <1>8

LEMMA MinOfTwo ==
  ASSUME NEW a \in Int, NEW b \in Int
  PROVE  Min({a, b}) = IF a <= b THEN a ELSE b
<1> DEFINE m == IF a <= b THEN a ELSE b
<1>1. m \in {a, b} /\ \A y \in {a, b} : m <= y
  OBVIOUS
<1>2. \A x \in {a, b} : (\A y \in {a, b} : x <= y) => x = m
  OBVIOUS
<1> QED
  BY <1>1, <1>2 DEF Min

LEMMA ShardsInvInit == ShardsInit => ShardsInv
<1> SUFFICES ASSUME ShardsInit PROVE ShardsInv
  OBVIOUS
<1>1. /\ <<>> \in Seq(Units) /\ <<>> \in Seq(Tokens) /\ <<>> \in Seq(TokenFiles)
  OBVIOUS
<1>2. files \in [Splits -> Seq(TokenFiles)] /\ "val" \in Splits /\ "train" \in Splits
  BY <1>1 DEF ShardsInit, Splits
<1>3. ShardsTypeOK
  BY <1>1, <1>2 DEF ShardsInit, ShardsTypeOK, ScriptPlaces
<1>4. files["val"] = <<>> /\ files["train"] = <<>>
  BY DEF ShardsInit
<1>5. Taken = <<>>
  <2>1. [i \in DOMAIN order |-> Tokenize(order[i])] = <<>>
    BY DEF ShardsInit
  <2> QED
    BY <2>1, FlattenEmpty, Zenon DEF Taken
<1>6. \A split \in Splits : WrittenIn(files, split) = <<>>
  <2>1. \A split \in Splits :
          [i \in DOMAIN files[split] |-> files[split][i].data] = <<>>
    BY <1>4 DEF Splits
  <2> QED
    BY <2>1, FlattenEmpty, Zenon DEF WrittenIn
<1>7. FullFiles(files) /\ \A split \in Splits : DOMAIN files[split] = {}
  BY <1>4 DEF Splits, FullFiles
<1>8. CorpusCarried
  <2>1. (WrittenIn(files, "val") \o WrittenIn(files, "train")) \o all_tokens = <<>>
    BY <1>2, <1>6 DEF ShardsInit
  <2> QED
    BY <1>5, <1>7, <2>1 DEF CorpusCarried, ShardsInit
<1> QED
  BY <1>3, <1>4, <1>7, <1>8, TokenShardsAssumption DEF ShardsInv, ShardsInit

LEMMA TakesNothing ==
  ASSUME ShardsInv, UNCHANGED <<given, order>>
  PROVE  order' \in Seq(Units) /\ Taken' = Taken \o <<>> /\ <<>> \in Seq(Tokens)
<1>1. Taken' = Taken
  BY DEF Taken, Tokenize, given
<1>2. Taken \in Seq(Tokens) /\ order \in Seq(Units)
  BY TakenType DEF ShardsInv, ShardsTypeOK
<1>3. Taken \o <<>> = Taken
  BY <1>2, JoiningTokens
<1> QED
  BY <1>1, <1>2, <1>3

LEMMA FineWebKeepsInv ==
  ASSUME ShardsInv, FineWebAppends \/ FineWebSplits \/ FineWebStops \/ FineWebEnds
  PROVE  ShardsInv'
<1>0. /\ ShardSize \in Nat \ {0} /\ all_tokens \in Seq(Tokens) /\ Len(all_tokens) \in Nat
      /\ order \in Seq(Units) /\ ShardsTypeOK
  BY TokenShardsAssumption DEF ShardsInv, ShardsTypeOK
<1>1. CASE FineWebAppends
  <2>1. PICK u \in Units : u = NextUnit
    BY <1>1 DEF FineWebAppends
  <2>2. Tokenize(u) \in Seq(Tokens) /\ Len(Tokenize(u)) \in Nat
    BY <1>0, CorpusFacts
  <2>3. /\ script_pc = "running" /\ Len(all_tokens) + Len(Tokenize(u)) < ShardSize
        /\ all_tokens' = all_tokens \o Tokenize(u) /\ order' = Append(order, u)
        /\ progress_bar' \in BOOLEAN /\ UNCHANGED <<given, files, script_pc>>
    BY <1>0, <1>1, <2>1, <2>2 DEF FineWebAppends, Runs, Fits
  <2> QED
    BY <2>3, AppendingDocument
<1>2. CASE FineWebSplits
  <2> DEFINE tokens == Tokenize(NextUnit)
             remainder == ShardSize - Len(all_tokens)
             head == SubSeq(tokens, 1, remainder)
             toks == all_tokens \o head
             rest == SubSeq(tokens, remainder + 1, Len(tokens))
             after == IF Len(rest) <= ShardSize THEN "running" ELSE "overflowed"
  <2>1. NextUnit \in Units /\ script = "fineweb" /\ script_pc = "running" /\ progress_bar
    BY <1>2 DEF FineWebSplits, Runs
  <2>2. tokens \in Seq(Tokens) /\ Len(tokens) \in Nat
    BY <1>0, <2>1, CorpusFacts
  <2>3. remainder \in 1..Len(tokens)
    <3>1. Len(all_tokens) < ShardSize
      BY <2>1 DEF ShardsInv
    <3>2. ~ (Len(all_tokens) + Len(tokens) < ShardSize)
      BY <1>2 DEF FineWebSplits, Fits
    <3> QED
      BY <1>0, <2>2, <3>1, <3>2
  <2>4. /\ WriteDatafile(toks, after)
        /\ all_tokens' = IF script_pc' = "running" THEN rest ELSE all_tokens
        /\ progress_bar' = (script_pc' = "killed")
        /\ order' = Append(order, NextUnit) /\ UNCHANGED given
    BY <1>2 DEF FineWebSplits, Leftover
  <2>5. /\ head \in Seq(Tokens) /\ Len(head) = remainder
        /\ rest \in Seq(Tokens)
        /\ head \o rest = tokens
    <3>1. remainder \in 0..Len(tokens)
      BY <2>2, <2>3
    <3> QED
      BY <2>2, <3>1, CutDocument
  <2> HIDE DEF head
  <2>6. toks \in Seq(Tokens) /\ Len(toks) = ShardSize
    <3>1. all_tokens \o head \in Seq(Tokens) /\ Len(all_tokens \o head) = Len(all_tokens) + Len(head)
      <4> HIDE DEF Tokens
      <4> QED
        BY <1>0, <2>5, JoiningTokens
    <3> QED
      BY <1>0, <2>5, <3>1
  <2>7. toks \o rest = all_tokens \o tokens
    <3>1. \A a, b, c \in Seq(Tokens) : (a \o b) \o c = a \o (b \o c)
      BY JoiningTokens
    <3>2. (all_tokens \o head) \o rest = all_tokens \o (head \o rest)
      <4> HIDE DEF rest, Tokens
      <4> QED
        BY <1>0, <2>5, <3>1, Zenon
    <3> QED
      BY <2>5, <3>2
  <2>8. order' \in Seq(Units) /\ Taken' = Taken \o tokens
    BY <1>0, <2>1, <2>4, TakenGrows DEF given
  <2>9. all_tokens' \in Seq(Tokens) /\ progress_bar' \in BOOLEAN
    BY <1>0, <2>4, <2>5
  <2>10. CASE Len(rest) <= ShardSize
    <3>1. after = "running"
      BY <2>10
    <3>2. script_pc' # "killed" => script_pc' = "running"
      BY <1>0, <2>4, <2>6, <3>1, WriteDatafileType DEF ScriptPlaces
    <3>3. script_pc' # "killed" =>
            all_tokens' = rest /\ Len(all_tokens') <= ShardSize /\ ~progress_bar'
      BY <2>4, <2>10, <3>2
    <3> HIDE DEF tokens, toks, rest, after, remainder
    <3> QED
      BY <2>1, <2>2, <2>4, <2>5, <2>6, <2>7, <2>8, <2>9, <3>1, <3>3, WritingFile
  <2>11. CASE ~(Len(rest) <= ShardSize)
    <3>1. after = "overflowed"
      BY <2>11
    <3>2. script_pc' \in {"killed", "overflowed"}
      BY <1>0, <2>4, <2>6, <3>1, WriteDatafileType DEF ScriptPlaces
    <3>3. all_tokens' = all_tokens
      BY <2>4, <3>2
    <3>4. Len(tokens) = corpus[NextUnit]
      BY <1>0, <2>1, CorpusFacts
    <3>5. Len(head) > 0 /\ Len(rest) > ShardSize
      BY <1>0, <2>3, <2>5, <2>11
    <3>6. toks = all_tokens \o head /\ tokens = Tokenize(NextUnit)
      OBVIOUS
    <3> HIDE DEF tokens, toks, rest, after, remainder
    <3> QED
      BY <2>1, <2>2, <2>4, <2>5, <2>6, <2>8, <2>9, <3>1, <3>3, <3>4, <3>5, <3>6,
         Overflowing
  <2> QED
    BY <2>10, <2>11
<1>3. CASE FineWebStops
  <2>1. /\ script_pc = "running" /\ script_pc' = "stopped" /\ script = "fineweb"
        /\ UNCHANGED <<given, order, all_tokens, progress_bar, files>>
    BY <1>3 DEF FineWebStops, Runs
  <2>2. Taken' = Taken
    BY <2>1 DEF Taken, Tokenize, given
  <2>3. ShardsTypeOK'
    BY <1>0, <2>1 DEF ShardsTypeOK, given, Units, ScriptPlaces
  <2>4. FullFiles(files)' /\ FullFiles(files)
    BY <2>1 DEF ShardsInv, FullFiles
  <2>5. CorpusCarried'
    BY <2>1, <2>2, <2>4 DEF ShardsInv, CorpusCarried, FullFiles, WrittenIn, given
  <2> QED
    BY <2>1, <2>3, <2>4, <2>5 DEF ShardsInv, given
<1>4. CASE FineWebEnds
  <2>1. script = "fineweb" /\ script_pc = "running" /\ all_tokens' = <<>> /\ UNCHANGED <<given, order, progress_bar>>
    BY <1>4 DEF FineWebEnds, Runs
  <2>2. order' \in Seq(Units) /\ Taken' = Taken \o <<>> /\ <<>> \in Seq(Tokens)
    BY <2>1, TakesNothing
  <2>3. CASE all_tokens # <<>>
    <3>1. WriteDatafile(all_tokens, "done")
      BY <1>4, <2>3 DEF FineWebEnds
    <3>2. progress_bar' \in BOOLEAN
      BY <1>0, <2>1 DEF ShardsTypeOK
    <3> QED
      BY <1>0, <2>1, <2>2, <3>1, <3>2, WritingFile
  <2>4. CASE all_tokens = <<>>
    <3>1. script_pc' = "done" /\ UNCHANGED files /\ all_tokens' = all_tokens
      BY <1>4, <2>1, <2>4 DEF FineWebEnds
    <3>2. Taken' = Taken
      BY <2>1 DEF Taken, Tokenize, given
    <3>3. ShardsTypeOK'
      BY <1>0, <2>1, <3>1 DEF ShardsTypeOK, given, Units, ScriptPlaces
    <3>4. FullFiles(files)
      BY <2>1 DEF ShardsInv
    <3>5. CorpusCarried'
      BY <2>1, <3>1, <3>2, <3>4 DEF ShardsInv, CorpusCarried, FullFiles, WrittenIn, given
    <3> QED
      BY <2>1, <3>1, <3>3, <3>5 DEF ShardsInv, given
  <2> QED
    BY <2>3, <2>4
<1> QED
  BY <1>1, <1>2, <1>3, <1>4

LEMMA OtherScriptsKeepInv ==
  ASSUME ShardsInv,
         \/ \E u \in Units : StoriesFileCompletes(u)
         \/ StoriesSplitEnds \/ ShakespeareSection \/ ShakespeareWrites
  PROVE  ShardsInv'
<1>0. /\ all_tokens \in Seq(Tokens) /\ Len(all_tokens) \in Nat /\ progress_bar \in BOOLEAN
      /\ order \in Seq(Units) /\ ShardsTypeOK /\ ValTokens \in Nat \ {0}
  BY TokenShardsAssumption DEF ShardsInv, ShardsTypeOK
<1>1. ASSUME NEW u \in Units, StoriesFileCompletes(u) \/ (ShakespeareSection /\ u = NextUnit)
      PROVE  ShardsInv'
  <2>1. /\ script_pc = "running" /\ script # "fineweb"
        /\ all_tokens' = all_tokens \o Tokenize(u) /\ order' = Append(order, u)
        /\ progress_bar' \in BOOLEAN /\ UNCHANGED <<given, files, script_pc>>
    BY <1>0, <1>1 DEF StoriesFileCompletes, ShakespeareSection, Runs
  <2> QED
    BY <2>1, AppendingDocument
<1>2. ASSUME NEW after \in {"running", "done"}, WriteDatafile(all_tokens, after),
             all_tokens' = <<>>, script # "fineweb", script_pc = "running",
             UNCHANGED <<given, order, progress_bar>>
      PROVE  ShardsInv'
  <2>1. order' \in Seq(Units) /\ Taken' = Taken \o <<>> /\ <<>> \in Seq(Tokens)
    BY <1>2, TakesNothing
  <2> QED
    BY <1>0, <1>2, <2>1, WritingFile
<1>3. CASE StoriesSplitEnds
  <2> DEFINE after == IF NextSplit = "val" THEN "running" ELSE "done"
  <2>1. after \in {"running", "done"} /\ WriteDatafile(all_tokens, after)
    BY <1>3 DEF StoriesSplitEnds
  <2> HIDE DEF after
  <2> QED
    BY <1>2, <1>3, <2>1 DEF StoriesSplitEnds, Runs
<1>4. CASE ShakespeareWrites /\ NextSplit # "val"
  BY <1>2, <1>4 DEF ShakespeareWrites, Runs
<1>5. CASE ShakespeareWrites /\ NextSplit = "val"
  <2> DEFINE k == IF ValTokens <= Len(all_tokens) THEN ValTokens ELSE Len(all_tokens)
             toks == SubSeq(all_tokens, 1, k)
             rest == SubSeq(all_tokens, ValTokens + 1, Len(all_tokens))
  <2>1. k \in 0..Len(all_tokens) /\ Min({ValTokens, Len(all_tokens)}) = k
    BY <1>0, MinOfTwo
  <2>2. rest = SubSeq(all_tokens, k + 1, Len(all_tokens))
    <3>1. CASE ValTokens <= Len(all_tokens)
      BY <3>1
    <3>2. CASE ~ (ValTokens <= Len(all_tokens))
      <4>1. rest = <<>>
        BY <1>0, <3>2, SubSeqEmpty
      <4>2. SubSeq(all_tokens, k + 1, Len(all_tokens)) = <<>>
        BY <1>0, <3>2, SubSeqEmpty
      <4> QED
        BY <4>1, <4>2
    <3> QED
      BY <3>1, <3>2
  <2>3. toks \in Seq(Tokens) /\ rest \in Seq(Tokens) /\ toks \o rest = all_tokens
    BY <1>0, <2>1, <2>2, CutDocument
  <2>4. /\ script # "fineweb" /\ script_pc = "running" /\ all_tokens' = rest
        /\ UNCHANGED <<given, order, progress_bar>>
        /\ WriteDatafile(toks, "running")
    BY <1>5, <2>1 DEF ShakespeareWrites, Runs
  <2>5. order' \in Seq(Units) /\ Taken' = Taken \o <<>> /\ <<>> \in Seq(Tokens)
    BY <2>4, TakesNothing
  <2>6. toks \o rest = all_tokens \o <<>>
    BY <1>0, <2>3, JoiningTokens
  <2>7. progress_bar' \in BOOLEAN
    BY <1>0, <2>4
  <2> HIDE DEF toks, rest, k
  <2> QED
    BY <2>3, <2>4, <2>5, <2>6, <2>7, WritingFile
<1>6. CASE ShakespeareSection
  BY <1>1, <1>6 DEF ShakespeareSection
<1> QED
  BY <1>1, <1>3, <1>4, <1>5, <1>6

LEMMA ShardsInvInductive == ShardsInv /\ [ScriptNext]_shardVars => ShardsInv'
<1> SUFFICES ASSUME ShardsInv, [ScriptNext]_shardVars PROVE ShardsInv'
  OBVIOUS
<1>1. CASE UNCHANGED shardVars
  BY <1>1 DEF shardVars, ShardsInv, ShardsTypeOK, CorpusCarried, FullFiles, Taken, Tokenize,
     WrittenIn, Units
<1> QED
  BY <1>1, FineWebKeepsInv, OtherScriptsKeepInv DEF ScriptNext

LEMMA SpecKeepsShards == Spec => []ShardsInv
<1>1. Init => ShardsInv
  BY ShardsInvInit DEF Init
<1>2. ShardsInv /\ [Next]_trainingVars => ShardsInv'
  <2>1. [Next]_trainingVars => [ScriptNext]_shardVars
    BY DEF Next, trainingVars
  <2> QED
    BY <2>1, ShardsInvInductive
<1> QED
  BY <1>1, <1>2, PTL DEF Spec

(***************************************************************************)
(* The token files hold the documents that were taken, each token once and *)
(* in order: whatever the corpus and the size of a shard, and wherever a   *)
(* document is cut.  What is not on disk is in the buffer, or, if          *)
(* fineweb.py has stopped with ValueError, it is the end of the last       *)
(* document, more than a shard of it; only a killed script leaves a short  *)
(* file.  Every fineweb shard but one at the end is full.                  *)
(***************************************************************************)
THEOREM FilesCarryTheCorpus == Spec => []ShardsCarryTheCorpus
<1>1. ShardsInv => ShardsCarryTheCorpus
  <2> SUFFICES ASSUME ShardsInv PROVE ShardsCarryTheCorpus
    OBVIOUS
  <2>1. OnDisk = WrittenIn(files, "val") \o WrittenIn(files, "train")
    BY DEF OnDisk, Written, WrittenIn
  <2>2. CorpusCarried
    BY DEF ShardsInv
  <2>3. script_pc \in {"running", "done", "stopped"} => OnDisk \o all_tokens = Taken
    BY <2>1, <2>2 DEF CorpusCarried
  <2>4. script_pc = "overflowed" => OverflowLeaves(OnDisk, Taken, all_tokens, corpus[Last(order)])
    BY <2>1, <2>2 DEF CorpusCarried
  <2> QED
    BY <2>2, <2>3, <2>4 DEF CorpusCarried, ShardsCarryTheCorpus, OverflowLeaves, Lost, Splits
<1> QED
  BY <1>1, SpecKeepsShards, PTL

-----------------------------------------------------------------------------
(***************************************************************************)
(* The data loaders.                                                       *)
(***************************************************************************)
TrainPlaces ==
  {"load", "reference", "reference_pass", "wrap", "top", "validate", "validate_forward", "sample",
   "train", "fetch", "forward", "backward", "loss", "optimize", "destroy", "done", "dead", "killed"}
Loaders == [current_shard : Nat, loaded : Nat, current_position : Nat]
Contributions ==
  [version : Nat, rank : Nat, micro_step : Int, shard : Nat, position : Nat]
Updates ==
  [lr : [phase : {"warmup", "decay"}, num : Int, den : Int], parts : [Ranks -> SUBSET Contributions]]

TrainTypeOK ==
  /\ args \in RunArgs
  /\ pc \in [Ranks -> TrainPlaces]
  /\ step \in [Ranks -> Nat] /\ micro_step \in [Ranks -> Nat]
  /\ train_loader \in [Ranks -> Loaders] /\ val_loader \in [Ranks -> Loaders]
  /\ batch \in [Ranks -> Nat \X Nat]
  /\ grads \in [Ranks -> SUBSET Contributions]
  /\ params \in [Ranks -> Seq(Updates)]

\* The positions of rank r's batches: its offset and whole rounds of all ranks' batches.
OnGrid(r, position) == \E k \in Nat : position = (r + k * args.world) * (B * T)

\* The next batch of a loader is there, and it is one of rank r's.
LoaderOK(loader, shards, r) ==
  /\ loader \in Loaders
  /\ loader.current_shard \in DOMAIN shards /\ loader.loaded = loader.current_shard
  /\ Loadable(shards[loader.loaded])
  /\ OnGrid(r, loader.current_position)
  /\ loader.current_position + B * T + 1 <= Len(shards[loader.loaded].data)

\* The scripts are over when a rank trains, and the files are those it has checked.
LoaderInv ==
  \A r \in Ranks : Training(r) =>
    /\ script_pc # "running" /\ Sound("train") /\ Sound("val")
    /\ LoaderOK(train_loader[r], files["train"], r)
    /\ LoaderOK(val_loader[r], files["val"], r)

\* What is in the gradients has been computed at positions of the rank it comes from.
PositionInv ==
  /\ \A r \in Ranks : pc[r] \in {"reference_pass", "forward", "backward"} => OnGrid(r, batch[r][2])
  /\ \A r \in Ranks : \A c \in grads[r] : c.rank \in Ranks /\ OnGrid(c.rank, c.position)

DataInv == ShardsInv /\ TrainTypeOK /\ LoaderInv /\ PositionInv

LEMMA ArgsFacts ==
  ASSUME TrainTypeOK
  PROVE  /\ args.world \in Nat \ {0} /\ Ranks = 0..(args.world - 1) /\ 0 \in Ranks
         /\ args.grad_accum_steps \in Nat \ {0} /\ args.num_iterations \in Nat \ {0}
         /\ args.warmup_iters \in Nat
         /\ args.inference_only \in BOOLEAN /\ args.overfit_single_batch \in BOOLEAN
         /\ args.program \in {"gpt2", "llama3"}
         /\ B \in Nat \ {0} /\ T \in Nat \ {0} /\ B * T \in Nat \ {0}
         /\ ddp \in BOOLEAN /\ (~ ddp => Ranks = {0})
<1>1. args \in RunArgs
  BY DEF TrainTypeOK
<1>2. /\ args.program \in {"gpt2", "llama3"} /\ args.world \in Nat \ {0}
      /\ {args.overfit_single_batch, args.inference_only, args.write_tensors} \subseteq BOOLEAN
      /\ {args.val_loss_every, args.val_max_steps, args.sample_every, args.warmup_iters} \subseteq Nat
      /\ {args.grad_accum_steps, args.num_iterations} \subseteq Nat \ {0}
  BY <1>1, TrainLoopAssumption
<1>3. B \in Nat \ {0} /\ T \in Nat \ {0}
  BY DataLoaderAssumption
<1>4. B * T \in Nat \ {0}
  BY <1>3
<1>5. ddp \in BOOLEAN /\ (~ ddp => Ranks = {0}) /\ 0 \in Ranks
  BY <1>2 DEF ddp, Ranks
<1> QED
  BY <1>2, <1>3, <1>4, <1>5 DEF Ranks

\* Arithmetic of the rounds, with the size of a batch as one number.
LEMMA RoundArithmetic ==
  /\ \A b, t, w \in Nat : w * b * t = w * (b * t)
  /\ \A v, w, r, k \in Nat : (r + k * w) * v + v * w = (r + (k + 1) * w) * v
  /\ \A v, w, r \in Nat : r < w => r * v + v <= w * v
  /\ \A v, w \in Nat : w # 0 => v <= v * w
  /\ \A v, w, r, k \in Nat : (r + k * w) * v \in Nat
  /\ \A v, r, w \in Nat : (r + 0 * w) * v = r * v
<1>1. \A b, t, w \in Nat : w * b * t = w * (b * t)
  OBVIOUS
<1>2. \A v, w, r, k \in Nat : (r + k * w) * v + v * w = (r + (k + 1) * w) * v
  OBVIOUS
<1>3. \A v, w, r \in Nat : r < w => r * v + v <= w * v
  <2> TAKE v, w, r \in Nat
  <2> HAVE r < w
  <2>1. w - (r + 1) \in Nat /\ w = (w - (r + 1)) + (r + 1)
    OBVIOUS
  <2>2. w * v = (w - (r + 1)) * v + (r * v + v)
    BY <2>1
  <2>3. (w - (r + 1)) * v \in Nat /\ r * v \in Nat
    BY <2>1
  <2> QED
    BY <2>2, <2>3
<1>4. \A v, w \in Nat : w # 0 => v <= v * w
  <2> TAKE v, w \in Nat
  <2> HAVE w # 0
  <2>1. w - 1 \in Nat /\ v * w = v * (w - 1) + v
    OBVIOUS
  <2>2. v * (w - 1) \in Nat
    BY <2>1
  <2> QED
    BY <2>1, <2>2
<1>5. \A v, w, r, k \in Nat : (r + k * w) * v \in Nat
  OBVIOUS
<1>6. \A v, r, w \in Nat : (r + 0 * w) * v = r * v
  OBVIOUS
<1> QED
  BY <1>1, <1>2, <1>3, <1>4, <1>5, <1>6

LEMMA SoundFacts ==
  ASSUME ShardsTypeOK, TrainTypeOK, NEW split \in Splits, Sound(split)
  PROVE  /\ files[split] \in Seq(TokenFiles)
         /\ DOMAIN files[split] = 1..Len(files[split]) /\ Len(files[split]) \in Nat \ {0}
         /\ Loadable(files[split][1])
         /\ \A i \in DOMAIN files[split] :
              /\ files[split][i].ntok \in Nat /\ Len(files[split][i].data) \in Nat
              /\ files[split][i].ntok >= args.world * (B * T) + 1
<1>1. files[split] \in Seq(TokenFiles) /\ files[split] # <<>> /\ Loadable(files[split][1])
  BY DEF ShardsTypeOK, Sound, Validates, Shards
<1>2. DOMAIN files[split] = 1..Len(files[split]) /\ Len(files[split]) \in Nat \ {0}
  BY <1>1
<1>3. \A f \in TokenFiles : f.ntok \in Nat /\ Len(f.data) \in Nat
  BY DEF TokenFiles
<1>4. \A i \in DOMAIN files[split] : files[split][i] \in TokenFiles
  BY <1>1, <1>2
<1>5. args.world * B * T = args.world * (B * T)
  BY ArgsFacts, RoundArithmetic
<1>6. \A i \in DOMAIN files[split] : files[split][i].ntok >= args.world * B * T + 1
  BY DEF Sound, Validates, Shards
<1> QED
  BY <1>1, <1>2, <1>3, <1>4, <1>5, <1>6

\* The first batch of a rank lies within any shard that is long enough for all ranks.
LEMMA FirstBatchFits ==
  ASSUME TrainTypeOK, NEW r \in Ranks, NEW ntok \in Nat, ntok >= args.world * (B * T) + 1
  PROVE  /\ r * B * T \in Nat /\ OnGrid(r, r * B * T)
         /\ r * B * T + B * T + 1 <= ntok
<1> DEFINE v == B * T
           w == args.world
<1>1. /\ r \in Nat /\ w \in Nat /\ v \in Nat /\ r < w /\ r * B * T = r * v
  BY ArgsFacts, RoundArithmetic
<1>2. r * v + v <= w * v /\ (r + 0 * w) * v = r * v /\ r * v \in Nat
  BY <1>1, RoundArithmetic
<1>3. w * v \in Nat
  BY <1>1
<1>4. ntok >= w * v + 1
  OBVIOUS
<1>5. OnGrid(r, r * v)
  BY <1>2 DEF OnGrid
<1> HIDE DEF v, w
<1>6. r * v + v + 1 <= ntok
  BY <1>1, <1>2, <1>3, <1>4
<1> QED
  BY <1>1, <1>2, <1>5, <1>6 DEF v

\* A loader that is reset is at the beginning of its first shard.
LEMMA ResetOK ==
  ASSUME ShardsTypeOK, TrainTypeOK, NEW r \in Ranks, NEW split \in Splits, Sound(split),
         NEW loader, loader = NoShard \/ LoaderOK(loader, files[split], r)
  PROVE  LoaderOK(ResetLoader(loader, r), files[split], r)
<1> DEFINE shards == files[split]
           after == ResetLoader(loader, r)
<1>1. /\ DOMAIN shards = 1..Len(shards) /\ Len(shards) \in Nat \ {0} /\ Loadable(shards[1])
      /\ shards[1].ntok \in Nat /\ shards[1].ntok >= args.world * (B * T) + 1
  BY SoundFacts
<1>2. r * B * T \in Nat /\ OnGrid(r, r * B * T) /\ r * B * T + B * T + 1 <= shards[1].ntok
  BY <1>1, FirstBatchFits
<1>3. Len(shards[1].data) = shards[1].ntok
  BY <1>1 DEF Loadable
<1>4. after.current_shard = 1 /\ after.loaded = 1 /\ after.current_position = r * B * T
      /\ after \in Loaders
  BY <1>2 DEF ResetLoader, NoShard, LoaderOK, Loaders
<1> HIDE DEF after
<1>5. LoaderOK(after, shards, r)
  BY <1>1, <1>2, <1>3, <1>4 DEF LoaderOK
<1> QED
  BY <1>5 DEF after

\* next_batch leaves a loader whose next batch is there, if the shard it moves to is whole;
\* the batch it takes is one of the rank's.
LEMMA AfterBatchOK ==
  ASSUME ShardsTypeOK, TrainTypeOK, NEW r \in Ranks, NEW split \in Splits, Sound(split),
         NEW loader, LoaderOK(loader, files[split], r),
         NEW moved, moved = AfterBatch(loader, files[split], r, args.world)
  PROVE  /\ moved \in Loaders
         /\ Loadable(files[split][moved.loaded]) => LoaderOK(moved, files[split], r)
<1> DEFINE shards == files[split]
           v == B * T
           w == args.world
           next == (loader.current_shard % Len(shards)) + 1
           further == loader.current_position + v * w
<1>1. /\ DOMAIN shards = 1..Len(shards) /\ Len(shards) \in Nat \ {0}
      /\ \A i \in DOMAIN shards :
           /\ shards[i].ntok \in Nat /\ Len(shards[i].data) \in Nat
           /\ shards[i].ntok >= args.world * (B * T) + 1
  BY SoundFacts
<1>2. /\ loader \in Loaders /\ loader.current_shard \in DOMAIN shards
      /\ loader.loaded = loader.current_shard /\ Loadable(shards[loader.loaded])
  BY DEF LoaderOK
<1>3. PICK k \in Nat : loader.current_position = (r + k * w) * v
  BY DEF LoaderOK, OnGrid
<1>4. /\ r \in Nat /\ w \in Nat /\ w # 0 /\ v \in Nat
  BY ArgsFacts
<1>5. /\ further = (r + (k + 1) * w) * v /\ v <= v * w /\ v * w \in Nat
      /\ loader.current_position \in Nat /\ further \in Nat
  <2>1. (r + k * w) * v + v * w = (r + (k + 1) * w) * v
    <3>1. \A a, b, c, d \in Nat : (c + d * b) * a + a * b = (c + (d + 1) * b) * a
      BY RoundArithmetic
    <3>2. v \in Nat /\ w \in Nat /\ r \in Nat
      BY <1>4
    <3> HIDE DEF v, w
    <3> QED
      BY <3>1, <3>2
  <2>2. v <= v * w /\ v * w \in Nat
    BY <1>4, RoundArithmetic
  <2>3. (r + k * w) * v \in Nat
    BY <1>4, RoundArithmetic
  <2> HIDE DEF v, w
  <2> QED
    BY <1>3, <2>1, <2>2, <2>3
<1>6. next \in 1..Len(shards)
  BY <1>1, <1>2 DEF Loaders
<1>7. CASE further + (v * w + 1) > Len(shards[loader.loaded].data)
  <2>1. moved = [current_shard |-> next, loaded |-> next, current_position |-> r * B * T]
    BY <1>2, <1>7 DEF AfterBatch, AdvanceShard, Loaders
  <2>2. /\ r * B * T \in Nat /\ OnGrid(r, r * B * T)
        /\ r * B * T + B * T + 1 <= shards[next].ntok
    BY <1>1, <1>6, FirstBatchFits
  <2>3. moved \in Loaders
    BY <1>1, <1>6, <2>1, <2>2 DEF Loaders
  <2>4. ASSUME Loadable(shards[moved.loaded]) PROVE LoaderOK(moved, shards, r)
    <3> HIDE DEF next
    <3>1. Len(shards[next].data) = shards[next].ntok
      BY <2>1, <2>4 DEF Loadable
    <3> QED
      BY <1>1, <1>6, <2>1, <2>2, <2>3, <2>4, <3>1 DEF LoaderOK
  <2> QED
    BY <2>3, <2>4
<1>8. CASE ~ (further + (v * w + 1) > Len(shards[loader.loaded].data))
  <2>1. moved = [loader EXCEPT !.current_position = further]
    BY <1>2, <1>8 DEF AfterBatch, AdvanceShard, Loaders
  <2>2. moved \in Loaders /\ moved.current_shard = loader.current_shard
        /\ moved.loaded = loader.loaded /\ moved.current_position = further
    BY <1>2, <1>5, <2>1 DEF Loaders
  <2>3. OnGrid(r, further)
    BY <1>5 DEF OnGrid
  <2>4. further + v + 1 <= Len(shards[loader.loaded].data)
    <3>1. Len(shards[loader.loaded].data) \in Nat /\ further + (v * w + 1) <= Len(shards[loader.loaded].data)
      BY <1>1, <1>2, <1>5, <1>8
    <3> DEFINE vw == v * w
    <3>2. v <= vw /\ vw \in Nat /\ further \in Nat /\ v \in Nat
      BY <1>4, <1>5
    <3>3. further + (vw + 1) <= Len(shards[loader.loaded].data)
      BY <3>1
    <3> HIDE DEF further, vw, v, shards
    <3> QED
      BY <3>1, <3>2, <3>3
  <2>5. LoaderOK(moved, shards, r)
    BY <1>2, <2>2, <2>3, <2>4 DEF LoaderOK
  <2> QED
    BY <2>2, <2>5
<1> QED
  BY <1>7, <1>8

\* A window of a loader that is in order is as long as a batch and the token after it.
LEMMA WindowWhole ==
  ASSUME ShardsTypeOK, TrainTypeOK, NEW r \in Ranks, NEW split \in Splits, Sound(split),
         NEW loader, LoaderOK(loader, files[split], r)
  PROVE  Len(NextWindow(loader, Shards(split))) = B * T + 1
<1> DEFINE tokens == files[split][loader.loaded].data
           start == loader.current_position
           v == B * T
<1>1. /\ tokens \in Seq(Tokens) /\ Len(tokens) \in Nat
  <2>1. files[split][loader.loaded] \in TokenFiles
    BY SoundFacts DEF LoaderOK
  <2> QED
    BY <2>1 DEF TokenFiles
<1>2. start \in Nat /\ v \in Nat \ {0} /\ start + v + 1 <= Len(tokens)
  BY ArgsFacts DEF LoaderOK, Loaders
<1>3. Min({start + v + 1, Len(tokens)}) = start + v + 1
  <2> HIDE DEF start, v, tokens
  <2> QED
    BY <1>1, <1>2, MinOfTwo
<1>4. NextWindow(loader, Shards(split)) = SubSeq(tokens, start + 1, start + v + 1)
  BY <1>3 DEF NextWindow, Shards
<1>5. Len(SubSeq(tokens, start + 1, start + v + 1)) = v + 1
  <2> HIDE DEF start, v, tokens
  <2>1. start + 1 \in Int /\ start + v + 1 \in Int /\ start + 1 <= start + v + 1
    BY <1>2
  <2>2. \A i \in (start + 1)..(start + v + 1) : tokens[i] \in Tokens
    BY <1>1, <1>2
  <2>3. Len(SubSeq(tokens, start + 1, start + v + 1)) = (start + v + 1) - (start + 1) + 1
    BY <2>1, <2>2, SubSeqProperties
  <2> QED
    BY <1>2, <2>3
<1> QED
  BY <1>4, <1>5

-----------------------------------------------------------------------------
(***************************************************************************)
(* The steps of a rank: what they do to places, loaders and positions.     *)
(***************************************************************************)
Halted == {"load", "done", "dead", "killed"}

\* Ranks that take no batch and do not begin to train leave the loaders in order.
LEMMA LoadersKept ==
  ASSUME DataInv, UNCHANGED <<shardVars, args, train_loader, val_loader>>,
         \A q \in Ranks : pc'[q] \notin Halted => pc[q] \notin Halted
  PROVE  /\ ShardsInv' /\ LoaderInv' /\ Ranks' = Ranks
         /\ train_loader' \in [Ranks' -> Loaders] /\ val_loader' \in [Ranks' -> Loaders]
<1>1. ShardsInv'
  BY ShardsInvInductive DEF DataInv
<1>2. Ranks' = Ranks /\ UNCHANGED <<files, script_pc>>
  BY DEF Ranks, shardVars
<1>3. ASSUME NEW q \in Ranks, Training(q)'
      PROVE  (/\ script_pc # "running" /\ Sound("train") /\ Sound("val")
              /\ LoaderOK(train_loader[q], files["train"], q)
              /\ LoaderOK(val_loader[q], files["val"], q))'
  <2>1. Training(q)
    BY <1>3 DEF Training, Halted
  <2>2. /\ script_pc # "running" /\ Sound("train") /\ Sound("val")
        /\ LoaderOK(train_loader[q], files["train"], q)
        /\ LoaderOK(val_loader[q], files["val"], q)
    BY <2>1 DEF DataInv, LoaderInv
  <2> QED
    BY <1>2, <2>2 DEF LoaderOK, OnGrid, Sound, Shards
<1>4. LoaderInv'
  BY <1>2, <1>3 DEF LoaderInv
<1> QED
  BY <1>1, <1>2, <1>4 DEF DataInv, TrainTypeOK

\* One rank's loaders change; it goes on to train only if they are in order.
LEMMA LoadersOfOneRank ==
  ASSUME DataInv, UNCHANGED <<shardVars, args>>, NEW r \in Ranks, NEW place \in TrainPlaces,
         pc' = [pc EXCEPT ![r] = place],
         NEW a \in Loaders, NEW b \in Loaders,
         train_loader' = [train_loader EXCEPT ![r] = a],
         val_loader' = [val_loader EXCEPT ![r] = b],
         place \notin Halted =>
           /\ script_pc # "running" /\ Sound("train") /\ Sound("val")
           /\ LoaderOK(a, files["train"], r) /\ LoaderOK(b, files["val"], r)
  PROVE  /\ ShardsInv' /\ LoaderInv' /\ Ranks' = Ranks
         /\ pc' \in [Ranks' -> TrainPlaces]
         /\ train_loader' \in [Ranks' -> Loaders] /\ val_loader' \in [Ranks' -> Loaders]
<1>1. ShardsInv'
  BY ShardsInvInductive DEF DataInv
<1>2. Ranks' = Ranks /\ UNCHANGED <<files, script_pc>>
  BY DEF Ranks, shardVars
<1>3. /\ pc' \in [Ranks' -> TrainPlaces]
      /\ train_loader' \in [Ranks' -> Loaders] /\ val_loader' \in [Ranks' -> Loaders]
  BY <1>2 DEF DataInv, TrainTypeOK
<1>4. ASSUME NEW q \in Ranks, Training(q)'
      PROVE  (/\ script_pc # "running" /\ Sound("train") /\ Sound("val")
              /\ LoaderOK(train_loader[q], files["train"], q)
              /\ LoaderOK(val_loader[q], files["val"], q))'
  <2>1. CASE q = r
    <3>1. train_loader'[q] = a /\ val_loader'[q] = b /\ place \notin Halted
      BY <1>4, <2>1 DEF DataInv, TrainTypeOK, Training, Halted
    <3> QED
      BY <1>2, <2>1, <3>1 DEF LoaderOK, OnGrid, Sound, Shards
  <2>2. CASE q # r
    <3>1. train_loader'[q] = train_loader[q] /\ val_loader'[q] = val_loader[q] /\ Training(q)
      BY <1>4, <2>2 DEF DataInv, TrainTypeOK, Training, Halted
    <3>2. /\ script_pc # "running" /\ Sound("train") /\ Sound("val")
          /\ LoaderOK(train_loader[q], files["train"], q)
          /\ LoaderOK(val_loader[q], files["val"], q)
      BY <3>1 DEF DataInv, LoaderInv
    <3> QED
      BY <1>2, <3>1, <3>2 DEF LoaderOK, OnGrid, Sound, Shards
  <2> QED
    BY <2>1, <2>2
<1>5. LoaderInv'
  BY <1>2, <1>4 DEF LoaderInv
<1> QED
  BY <1>1, <1>2, <1>3, <1>5

\* Steps that neither fetch a batch nor add to a gradient.
LEMMA PositionsKept ==
  ASSUME DataInv, UNCHANGED <<args, batch>>, Ranks' = Ranks,
         \A q \in Ranks : pc'[q] \in {"reference_pass", "forward", "backward"}
                            => pc[q] \in {"reference_pass", "forward", "backward"},
         \A q \in Ranks : grads'[q] \in {grads[q], {}}
  PROVE  PositionInv'
BY DEF DataInv, PositionInv, OnGrid

LEMMA RankFacts ==
  ASSUME DataInv, NEW r \in Ranks, Training(r)
  PROVE  /\ script_pc # "running" /\ Sound("train") /\ Sound("val")
         /\ "train" \in Splits /\ "val" \in Splits
         /\ ShardsTypeOK /\ TrainTypeOK
         /\ LoaderOK(train_loader[r], files["train"], r)
         /\ LoaderOK(val_loader[r], files["val"], r)
         /\ train_loader[r] \in Loaders /\ val_loader[r] \in Loaders
BY DEF DataInv, LoaderInv, TrainTypeOK, ShardsInv, Splits

LEMMA FetchBatchOK ==
  ASSUME DataInv, NEW r \in Ranks, Training(r),
         NEW place \in TrainPlaces \ Halted, FetchBatch(r, place), UNCHANGED shardVars
  PROVE  DataInv'
<1> DEFINE loader == train_loader[r]
           moved == AfterBatch(loader, files["train"], r, args.world)
           place2 == IF Loadable(files["train"][moved.loaded]) THEN place ELSE "dead"
<1>1. /\ batch' = [batch EXCEPT ![r] = <<loader.loaded, loader.current_position>>]
      /\ train_loader' = [train_loader EXCEPT ![r] = moved]
      /\ pc' = [pc EXCEPT ![r] = place2]
      /\ UNCHANGED <<val_loader, step, micro_step, grads, params, args>>
  BY DEF FetchBatch, Shards, Goto, Dies, loopVars, modelVars
<1>2. /\ script_pc # "running" /\ Sound("train") /\ Sound("val")
      /\ LoaderOK(loader, files["train"], r) /\ LoaderOK(val_loader[r], files["val"], r)
      /\ loader \in Loaders /\ val_loader[r] \in Loaders
  BY RankFacts
<1>3. /\ moved \in Loaders
      /\ Loadable(files["train"][moved.loaded]) => LoaderOK(moved, files["train"], r)
  <2>1. "train" \in Splits /\ ShardsTypeOK /\ TrainTypeOK
    BY RankFacts
  <2> QED
    BY <1>2, <2>1, AfterBatchOK
<1>4. val_loader' = [val_loader EXCEPT ![r] = val_loader[r]]
  BY <1>1 DEF DataInv, TrainTypeOK
<1>5. place2 \in TrainPlaces /\ (place2 \notin Halted => Loadable(files["train"][moved.loaded]))
  BY DEF TrainPlaces, Halted
<1> HIDE DEF place2, moved
<1>6. /\ ShardsInv' /\ LoaderInv' /\ Ranks' = Ranks
      /\ pc' \in [Ranks' -> TrainPlaces]
      /\ train_loader' \in [Ranks' -> Loaders] /\ val_loader' \in [Ranks' -> Loaders]
  BY <1>1, <1>2, <1>3, <1>4, <1>5, LoadersOfOneRank
<1>7. batch' \in [Ranks' -> Nat \X Nat]
  BY <1>1, <1>2, <1>6 DEF Loaders, DataInv, TrainTypeOK
<1>8. TrainTypeOK'
  BY <1>1, <1>6, <1>7 DEF DataInv, TrainTypeOK, Updates
<1>9. OnGrid(r, batch'[r][2])
  BY <1>1, <1>2 DEF LoaderOK, DataInv, TrainTypeOK
<1>10. PositionInv'
  <2>1. \A q \in Ranks : q # r => pc'[q] = pc[q] /\ batch'[q] = batch[q]
    BY <1>1 DEF DataInv, TrainTypeOK
  <2> QED
    BY <1>1, <1>6, <1>9, <2>1 DEF DataInv, PositionInv, OnGrid
<1> QED
  BY <1>6, <1>8, <1>10 DEF DataInv

\* Steps in which ranks move on together and only their place and the loop variable change.
LEMMA MovesOK ==
  ASSUME DataInv, UNCHANGED <<shardVars, dataVars, step, grads, params, args>>,
         pc' \in [Ranks -> TrainPlaces], micro_step' \in [Ranks -> Nat],
         \A q \in Ranks : pc'[q] \notin Halted => pc[q] \notin Halted,
         \A q \in Ranks : pc'[q] \in {"reference_pass", "forward", "backward"}
                            => pc[q] \in {"reference_pass", "forward", "backward"}
  PROVE  DataInv'
<1>1. /\ ShardsInv' /\ LoaderInv' /\ Ranks' = Ranks
      /\ train_loader' \in [Ranks' -> Loaders] /\ val_loader' \in [Ranks' -> Loaders]
  BY LoadersKept DEF dataVars
<1>2. TrainTypeOK'
  BY <1>1 DEF DataInv, TrainTypeOK, Updates, dataVars
<1>3. PositionInv'
  BY <1>1, PositionsKept DEF dataVars
<1> QED
  BY <1>1, <1>2, <1>3 DEF DataInv

LEMMA DataInvMakeLoaders ==
  ASSUME DataInv, NEW r \in Ranks, MakeLoaders(r), UNCHANGED shardVars
  PROVE  DataInv'
<1>1. /\ ShardsTypeOK /\ TrainTypeOK /\ "train" \in Splits /\ "val" \in Splits
  BY DEF DataInv, ShardsInv, Splits
<1>2. UNCHANGED <<batch, step, micro_step, grads, params, args>>
  BY DEF MakeLoaders, loopVars, modelVars
<1>3. CASE Sound("train") /\ Sound("val")
  <2> DEFINE a == ResetLoader(NoShard, r)
  <2>1. /\ train_loader' = [train_loader EXCEPT ![r] = a]
        /\ val_loader' = [val_loader EXCEPT ![r] = a]
        /\ pc' = [pc EXCEPT ![r] = "reference"] /\ script_pc # "running"
    BY <1>3 DEF MakeLoaders, Goto
  <2>2. LoaderOK(a, files["train"], r) /\ LoaderOK(a, files["val"], r)
    BY <1>1, <1>3, ResetOK
  <2>3. a \in Loaders
    BY <2>2 DEF LoaderOK
  <2> HIDE DEF a
  <2>4. /\ ShardsInv' /\ LoaderInv' /\ Ranks' = Ranks
        /\ pc' \in [Ranks' -> TrainPlaces]
        /\ train_loader' \in [Ranks' -> Loaders] /\ val_loader' \in [Ranks' -> Loaders]
    <3>1. "reference" \in TrainPlaces
      BY DEF TrainPlaces
    <3> QED
      BY <1>2, <1>3, <2>1, <2>2, <2>3, <3>1, LoadersOfOneRank
  <2>5. TrainTypeOK'
    BY <1>1, <1>2, <2>4 DEF TrainTypeOK, Updates
  <2>6. PositionInv'
    BY <1>1, <1>2, <2>1, <2>4, PositionsKept DEF TrainTypeOK
  <2> QED
    BY <2>4, <2>5, <2>6 DEF DataInv
<1>4. CASE ~ (Sound("train") /\ Sound("val"))
  <2>1. pc' = [pc EXCEPT ![r] = "dead"] /\ UNCHANGED dataVars
    BY <1>4 DEF MakeLoaders, Dies, dataVars
  <2>2. /\ pc' \in [Ranks -> TrainPlaces]
        /\ \A q \in Ranks : pc'[q] \in {pc[q], "dead"}
    BY <1>1, <2>1 DEF TrainTypeOK, TrainPlaces
  <2>3. micro_step' \in [Ranks -> Nat]
    BY <1>1, <1>2 DEF TrainTypeOK
  <2> QED
    BY <1>2, <2>1, <2>2, <2>3, MovesOK DEF Halted
<1> QED
  BY <1>3, <1>4

LEMMA ContributionType ==
  ASSUME DataInv, NEW r \in Ranks, NEW micro \in Int, pc[r] \in {"reference_pass", "backward"}
  PROVE  /\ Contribution(r, micro) \in Contributions
         /\ Contribution(r, micro).rank = r /\ OnGrid(r, Contribution(r, micro).position)
         /\ Contribution(r, micro).micro_step = micro
         /\ Contribution(r, micro).version = Len(params[r])
<1>0. TrainTypeOK
  BY DEF DataInv
<1>1. /\ params[r] \in Seq(Updates) /\ batch[r] \in Nat \X Nat /\ r \in Nat
  <2>1. r \in Nat
    BY <1>0, ArgsFacts
  <2>2. params[r] \in Seq(Updates) /\ batch[r] \in Nat \X Nat
    BY <1>0 DEF TrainTypeOK
  <2> QED
    BY <2>1, <2>2
<1>2. Len(params[r]) \in Nat
  BY <1>1
<1>3. OnGrid(r, batch[r][2])
  BY DEF DataInv, PositionInv
<1> QED
  BY <1>1, <1>2, <1>3 DEF Contribution, Contributions

LEMMA DataInvReference ==
  ASSUME DataInv, NEW r \in Ranks, Reference(r), UNCHANGED shardVars
  PROVE  DataInv'
<1>1. Training(r) /\ "reference_pass" \in TrainPlaces \ Halted /\ TrainTypeOK
  BY DEF Reference, Training, TrainPlaces, Halted, DataInv
<1>2. CASE WritesReference(r)
  BY <1>1, <1>2, FetchBatchOK DEF Reference
<1>3. CASE ~ WritesReference(r)
  <2>1. pc' = [pc EXCEPT ![r] = "wrap"] /\ UNCHANGED <<dataVars, loopVars, modelVars, args>> /\ pc[r] = "reference"
    BY <1>3 DEF Reference, Goto
  <2>2. /\ pc' \in [Ranks -> TrainPlaces]
        /\ \A q \in Ranks : pc'[q] = IF q = r THEN "wrap" ELSE pc[q]
    BY <1>1, <2>1 DEF TrainTypeOK, TrainPlaces
  <2>3. micro_step' \in [Ranks -> Nat]
    BY <1>1, <2>1 DEF TrainTypeOK, loopVars
  <2> QED
    BY <2>1, <2>2, <2>3, MovesOK DEF Halted, loopVars, modelVars
<1> QED
  BY <1>2, <1>3

LEMMA DataInvReferencePass ==
  ASSUME DataInv, NEW r \in Ranks, ReferencePass(r), UNCHANGED shardVars
  PROVE  DataInv'
<1> DEFINE a == ResetLoader(train_loader[r], r)
           c == Contribution(r, -1)
<1>1. Training(r) /\ TrainTypeOK /\ pc[r] = "reference_pass"
  BY DEF ReferencePass, Training, DataInv
<1>2. /\ grads' = [grads EXCEPT ![r] = {c}]
      /\ train_loader' = [train_loader EXCEPT ![r] = a]
      /\ pc' = [pc EXCEPT ![r] = "wrap"]
      /\ UNCHANGED <<val_loader, batch, step, micro_step, params, args>>
  BY DEF ReferencePass, Goto, loopVars
<1>3. /\ script_pc # "running" /\ Sound("train") /\ Sound("val")
      /\ "train" \in Splits /\ "val" \in Splits
      /\ ShardsTypeOK /\ TrainTypeOK
      /\ LoaderOK(train_loader[r], files["train"], r)
      /\ LoaderOK(val_loader[r], files["val"], r)
      /\ train_loader[r] \in Loaders /\ val_loader[r] \in Loaders
  BY <1>1, RankFacts
<1>4. LoaderOK(a, files["train"], r)
  BY <1>3, ResetOK
<1>5. a \in Loaders
  BY <1>4 DEF LoaderOK
<1>6. val_loader' = [val_loader EXCEPT ![r] = val_loader[r]] /\ "wrap" \in TrainPlaces
  BY <1>1, <1>2 DEF TrainTypeOK, TrainPlaces
<1>7. c \in Contributions /\ c.rank = r /\ OnGrid(r, c.position)
  BY <1>1, ContributionType
<1> HIDE DEF a, c
<1>8. /\ ShardsInv' /\ LoaderInv' /\ Ranks' = Ranks
      /\ pc' \in [Ranks' -> TrainPlaces]
      /\ train_loader' \in [Ranks' -> Loaders] /\ val_loader' \in [Ranks' -> Loaders]
  BY <1>2, <1>3, <1>4, <1>5, <1>6, LoadersOfOneRank
<1>9. TrainTypeOK'
  <2>1. grads' \in [Ranks' -> SUBSET Contributions]
    BY <1>1, <1>2, <1>7, <1>8 DEF TrainTypeOK
  <2> QED
    BY <1>1, <1>2, <1>8, <2>1 DEF TrainTypeOK, Updates
<1>10. PositionInv'
  <2>1. \A q \in Ranks : grads'[q] = IF q = r THEN {c} ELSE grads[q]
    BY <1>1, <1>2 DEF TrainTypeOK
  <2>2. \A q \in Ranks : pc'[q] \in {"reference_pass", "forward", "backward"} => pc'[q] = pc[q]
    BY <1>1, <1>2 DEF TrainTypeOK
  <2> QED
    BY <1>2, <1>7, <1>8, <2>1, <2>2 DEF DataInv, PositionInv, OnGrid
<1> QED
  BY <1>8, <1>9, <1>10 DEF DataInv

LEMMA DataInvTop ==
  ASSUME DataInv, NEW r \in Ranks, Top(r), UNCHANGED shardVars
  PROVE  DataInv'
<1>1. Training(r) /\ TrainTypeOK /\ pc[r] = "top"
  BY DEF Top, Training, DataInv
<1>2. UNCHANGED <<step, train_loader, batch, grads, params, args>>
  BY DEF Top, modelVars
<1>3. CASE ValidationDue(r)
  <2> DEFINE b == ResetLoader(val_loader[r], r)
             place == IF Loadable(files["val"][1]) THEN "validate" ELSE "dead"
  <2>1. /\ val_loader' = [val_loader EXCEPT ![r] = b]
        /\ micro_step' = [micro_step EXCEPT ![r] = 0]
        /\ pc' = [pc EXCEPT ![r] = place]
    BY <1>3 DEF Top, Goto, Dies, Shards
  <2>2. /\ script_pc # "running" /\ Sound("train") /\ Sound("val")
        /\ "train" \in Splits /\ "val" \in Splits
        /\ ShardsTypeOK /\ TrainTypeOK
        /\ LoaderOK(train_loader[r], files["train"], r)
        /\ LoaderOK(val_loader[r], files["val"], r)
        /\ train_loader[r] \in Loaders /\ val_loader[r] \in Loaders
    BY <1>1, RankFacts
  <2>3. LoaderOK(b, files["val"], r)
    BY <2>2, ResetOK
  <2>4. b \in Loaders
    BY <2>3 DEF LoaderOK
  <2>5. /\ train_loader' = [train_loader EXCEPT ![r] = train_loader[r]]
        /\ place \in TrainPlaces /\ place \notin {"reference_pass", "forward", "backward"}
    BY <1>1, <1>2 DEF TrainTypeOK, TrainPlaces
  <2> HIDE DEF b, place
  <2>6. /\ ShardsInv' /\ LoaderInv' /\ Ranks' = Ranks
        /\ pc' \in [Ranks' -> TrainPlaces]
        /\ train_loader' \in [Ranks' -> Loaders] /\ val_loader' \in [Ranks' -> Loaders]
    BY <1>2, <2>1, <2>2, <2>3, <2>4, <2>5, LoadersOfOneRank
  <2>7. TrainTypeOK'
    BY <1>1, <1>2, <2>1, <2>6 DEF TrainTypeOK, Updates
  <2>8. PositionInv'
    <3>1. \A q \in Ranks : pc'[q] = IF q = r THEN place ELSE pc[q]
      BY <1>1, <2>1 DEF TrainTypeOK
    <3> QED
      BY <1>2, <2>5, <2>6, <3>1, PositionsKept
  <2> QED
    BY <2>6, <2>7, <2>8 DEF DataInv
<1>4. CASE ~ ValidationDue(r)
  <2>1. pc' = [pc EXCEPT ![r] = "sample"] /\ UNCHANGED <<val_loader, micro_step>>
    BY <1>4 DEF Top, Goto
  <2>2. /\ pc' \in [Ranks -> TrainPlaces]
        /\ \A q \in Ranks : pc'[q] = IF q = r THEN "sample" ELSE pc[q]
    BY <1>1, <2>1 DEF TrainTypeOK, TrainPlaces
  <2>3. micro_step' \in [Ranks -> Nat]
    BY <1>1, <2>1 DEF TrainTypeOK
  <2> QED
    BY <1>1, <1>2, <2>1, <2>2, <2>3, MovesOK DEF Halted, dataVars
<1> QED
  BY <1>3, <1>4

LEMMA DataInvValidate ==
  ASSUME DataInv, NEW r \in Ranks, Validate(r), UNCHANGED shardVars
  PROVE  DataInv'
<1>1. Training(r) /\ TrainTypeOK /\ pc[r] = "validate"
  BY DEF Validate, Training, DataInv
<1>2. UNCHANGED <<step, micro_step, train_loader, batch, grads, params, args>>
  BY DEF Validate, modelVars, loopVars
<1>3. CASE micro_step[r] < args.val_max_steps
  <2> DEFINE b == AfterBatch(val_loader[r], files["val"], r, args.world)
             place == IF Loadable(files["val"][b.loaded]) THEN "validate_forward" ELSE "dead"
  <2>1. /\ val_loader' = [val_loader EXCEPT ![r] = b]
        /\ pc' = [pc EXCEPT ![r] = place]
    BY <1>3 DEF Validate, Goto, Dies, Shards
  <2>2. /\ script_pc # "running" /\ Sound("train") /\ Sound("val")
        /\ "train" \in Splits /\ "val" \in Splits
        /\ ShardsTypeOK /\ TrainTypeOK
        /\ LoaderOK(train_loader[r], files["train"], r)
        /\ LoaderOK(val_loader[r], files["val"], r)
        /\ train_loader[r] \in Loaders /\ val_loader[r] \in Loaders
    BY <1>1, RankFacts
  <2>3. b \in Loaders /\ (Loadable(files["val"][b.loaded]) => LoaderOK(b, files["val"], r))
    BY <2>2, AfterBatchOK
  <2>5. /\ train_loader' = [train_loader EXCEPT ![r] = train_loader[r]]
        /\ place \in TrainPlaces /\ place \notin {"reference_pass", "forward", "backward"}
        /\ place \notin Halted => Loadable(files["val"][b.loaded])
    BY <1>1, <1>2 DEF TrainTypeOK, TrainPlaces, Halted
  <2> HIDE DEF b, place
  <2>6. /\ ShardsInv' /\ LoaderInv' /\ Ranks' = Ranks
        /\ pc' \in [Ranks' -> TrainPlaces]
        /\ train_loader' \in [Ranks' -> Loaders] /\ val_loader' \in [Ranks' -> Loaders]
    BY <1>2, <2>1, <2>2, <2>3, <2>5, LoadersOfOneRank
  <2>7. TrainTypeOK'
    BY <1>1, <1>2, <2>1, <2>6 DEF TrainTypeOK, Updates
  <2>8. PositionInv'
    <3>1. \A q \in Ranks : pc'[q] = IF q = r THEN place ELSE pc[q]
      BY <1>1, <2>1 DEF TrainTypeOK
    <3> QED
      BY <1>2, <2>5, <2>6, <3>1, PositionsKept
  <2> QED
    BY <2>6, <2>7, <2>8 DEF DataInv
<1>4. CASE ~ (micro_step[r] < args.val_max_steps)
  <2>1. pc' = [pc EXCEPT ![r] = "sample"] /\ UNCHANGED val_loader
    BY <1>4 DEF Validate, Goto
  <2>2. /\ pc' \in [Ranks -> TrainPlaces]
        /\ \A q \in Ranks : pc'[q] = IF q = r THEN "sample" ELSE pc[q]
    BY <1>1, <2>1 DEF TrainTypeOK, TrainPlaces
  <2>3. micro_step' \in [Ranks -> Nat]
    BY <1>1, <1>2 DEF TrainTypeOK
  <2> QED
    BY <1>1, <1>2, <2>1, <2>2, <2>3, MovesOK DEF Halted, dataVars
<1> QED
  BY <1>3, <1>4

LEMMA DataInvBeginTraining ==
  ASSUME DataInv, NEW r \in Ranks, BeginTraining(r), UNCHANGED shardVars
  PROVE  DataInv'
<1> DEFINE a == IF args.overfit_single_batch THEN ResetLoader(train_loader[r], r) ELSE train_loader[r]
           place == IF Loadable(files["train"][a.loaded]) THEN "fetch" ELSE "dead"
<1>1. Training(r) /\ TrainTypeOK /\ pc[r] = "train"
  BY DEF BeginTraining, Training, DataInv
<1>2. /\ script_pc # "running" /\ Sound("train") /\ Sound("val")
      /\ "train" \in Splits /\ "val" \in Splits
      /\ ShardsTypeOK /\ TrainTypeOK
      /\ LoaderOK(train_loader[r], files["train"], r)
      /\ LoaderOK(val_loader[r], files["val"], r)
      /\ train_loader[r] \in Loaders /\ val_loader[r] \in Loaders
  BY <1>1, RankFacts
<1>3. LoaderOK(a, files["train"], r)
  <2>1. LoaderOK(ResetLoader(train_loader[r], r), files["train"], r)
    BY <1>2, ResetOK
  <2> QED
    BY <1>2, <2>1
<1>4. a \in Loaders
  BY <1>3 DEF LoaderOK
<1>5. train_loader' = [train_loader EXCEPT ![r] = a]
  BY <1>1 DEF BeginTraining, TrainTypeOK
<1>6. train_loader'[r] = a
  BY <1>1, <1>5 DEF TrainTypeOK
<1>7. /\ grads' = [grads EXCEPT ![r] = {}] /\ micro_step' = [micro_step EXCEPT ![r] = 0]
      /\ pc' = [pc EXCEPT ![r] = place]
      /\ UNCHANGED <<step, val_loader, batch, params, args>>
  BY <1>6 DEF BeginTraining, ZeroGrad, Goto, Dies, Shards
<1>8. /\ val_loader' = [val_loader EXCEPT ![r] = val_loader[r]]
      /\ place \in TrainPlaces /\ place \notin {"reference_pass", "forward", "backward"}
  BY <1>1, <1>7 DEF TrainTypeOK, TrainPlaces
<1> HIDE DEF a, place
<1>9. /\ ShardsInv' /\ LoaderInv' /\ Ranks' = Ranks
      /\ pc' \in [Ranks' -> TrainPlaces]
      /\ train_loader' \in [Ranks' -> Loaders] /\ val_loader' \in [Ranks' -> Loaders]
  BY <1>2, <1>3, <1>4, <1>5, <1>7, <1>8, LoadersOfOneRank
<1>10. TrainTypeOK'
  BY <1>1, <1>7, <1>9 DEF TrainTypeOK, Updates
<1>11. PositionInv'
  <2>1. \A q \in Ranks : /\ pc'[q] = IF q = r THEN place ELSE pc[q]
                         /\ grads'[q] \in {grads[q], {}}
    BY <1>1, <1>7 DEF TrainTypeOK
  <2> QED
    BY <1>7, <1>8, <1>9, <2>1, PositionsKept
<1> QED
  BY <1>9, <1>10, <1>11 DEF DataInv

LEMMA DataInvSample ==
  ASSUME DataInv, NEW r \in Ranks, Sample(r), UNCHANGED shardVars
  PROVE  DataInv'
<1> DEFINE place == IF SamplingDue(r) /\ args.program = "llama3" /\ ddp THEN "dead"
                    ELSE IF LastStep(r) THEN "destroy" ELSE "train"
<1>1. TrainTypeOK /\ pc[r] = "sample"
  BY DEF Sample, DataInv
<1>2. /\ pc' = [pc EXCEPT ![r] = place]
      /\ UNCHANGED <<dataVars, step, micro_step, grads, params, args>>
  BY DEF Sample, Goto, Dies, loopVars, modelVars
<1>3. place \in {"dead", "destroy", "train"}
  OBVIOUS
<1> HIDE DEF place
<1>4. /\ pc' \in [Ranks -> TrainPlaces] /\ micro_step' \in [Ranks -> Nat]
      /\ \A q \in Ranks : pc'[q] = IF q = r THEN place ELSE pc[q]
  BY <1>1, <1>2, <1>3 DEF TrainTypeOK, TrainPlaces
<1> QED
  BY <1>1, <1>2, <1>3, <1>4, MovesOK DEF Halted

LEMMA DataInvFetch ==
  ASSUME DataInv, NEW r \in Ranks, Fetch(r), UNCHANGED shardVars
  PROVE  DataInv'
<1>1. Training(r) /\ "forward" \in TrainPlaces \ Halted /\ FetchBatch(r, "forward")
  BY DEF Fetch, Training, TrainPlaces, Halted
<1> QED
  BY <1>1, FetchBatchOK

LEMMA DataInvDestroy ==
  ASSUME DataInv, NEW r \in Ranks, Destroy(r) \/ TorchrunStops(r), UNCHANGED shardVars
  PROVE  DataInv'
<1>1. PICK place \in {"done", "killed"} : pc' = [pc EXCEPT ![r] = place]
  BY DEF Destroy, TorchrunStops, Goto
<1>2. TrainTypeOK /\ UNCHANGED <<dataVars, step, micro_step, grads, params, args>>
  BY DEF Destroy, TorchrunStops, DataInv, loopVars, modelVars
<1>3. /\ pc' \in [Ranks -> TrainPlaces] /\ micro_step' \in [Ranks -> Nat]
      /\ \A q \in Ranks : pc'[q] = IF q = r THEN place ELSE pc[q]
  BY <1>1, <1>2 DEF TrainTypeOK, TrainPlaces
<1> QED
  BY <1>1, <1>2, <1>3, MovesOK DEF Halted

-----------------------------------------------------------------------------
(***************************************************************************)
(* The steps that ranks may take together.                                 *)
(***************************************************************************)
LEMMA WrapStep ==
  ASSUME NEW r \in Ranks, Wrap(r)
  PROVE  /\ UNCHANGED <<dataVars, loopVars, modelVars, args>>
         /\ \E group \in SUBSET Ranks :
              /\ \A q \in group : pc[q] = "wrap"
              /\ pc' = [q \in Ranks |-> IF q \in group THEN "top" ELSE pc[q]]
BY DEF Wrap, Together, GotoAll

LEMMA ReduceLossStep ==
  ASSUME NEW r \in Ranks, ReduceLoss(r)
  PROVE  /\ UNCHANGED <<dataVars, loopVars, modelVars, args>>
         /\ \E group \in SUBSET Ranks :
              /\ \A q \in group : pc[q] = "loss"
              /\ group = IF ddp THEN Ranks ELSE {r}
              /\ pc' = [q \in Ranks |-> IF q \in group THEN "optimize" ELSE pc[q]]
BY DEF ReduceLoss, Together, GotoAll, InDDP

LEMMA ValidateForwardStep ==
  ASSUME NEW r \in Ranks, ValidateForward(r)
  PROVE  /\ UNCHANGED <<dataVars, step, grads, params, args>>
         /\ \E group \in SUBSET Ranks :
              /\ \A q \in group : pc[q] = "validate_forward"
              /\ pc' = [q \in Ranks |-> IF q \in group THEN "validate" ELSE pc[q]]
              /\ micro_step' = [q \in Ranks |-> micro_step[q] + (IF q \in group THEN 1 ELSE 0)]
BY DEF ValidateForward, Together, GotoAll

LEMMA ForwardStep ==
  ASSUME NEW r \in Ranks, Forward(r)
  PROVE  /\ UNCHANGED <<dataVars, loopVars, grads, params, args>>
         /\ \E group \in SUBSET Ranks :
              /\ \A q \in group : pc[q] = "forward"
              /\ pc' = [q \in Ranks |-> IF q \in group THEN "backward" ELSE pc[q]]
BY DEF Forward, Together, GotoAll

\* The gradients of a rank after its backward pass, before any are averaged.
Added(q) ==
  IF args.inference_only THEN grads[q] ELSE grads[q] \cup {Contribution(q, micro_step[q])}
AfterBackward(q) == IF micro_step[q] + 1 < args.grad_accum_steps THEN "fetch" ELSE "loss"

LEMMA BackwardStep ==
  ASSUME TrainTypeOK, NEW r \in Ranks, Backward(r)
  PROVE  /\ UNCHANGED <<dataVars, step, params, args>>
         /\ \/ /\ ~ ReducesGrads(r) /\ pc[r] = "backward"
               /\ grads' = [grads EXCEPT ![r] = Added(r)]
               /\ micro_step' = [micro_step EXCEPT ![r] = micro_step[r] + 1]
               /\ pc' = [pc EXCEPT ![r] = AfterBackward(r)]
            \/ /\ \A q \in Ranks : pc[q] = "backward" /\ ReducesGrads(q)
               /\ grads' = [q \in Ranks |-> UNION {Added(p) : p \in Ranks}]
               /\ micro_step' = [q \in Ranks |-> micro_step[q] + 1]
               /\ pc' = [q \in Ranks |-> AfterBackward(r)]
<1> DEFINE group == Together(r, "backward", ReducesGrads)
           added == [q \in group |-> IF args.inference_only THEN grads[q]
                                     ELSE grads[q] \cup {Contribution(q, micro_step[q])}]
<1>1. /\ r \in group
      /\ grads' = [q \in Ranks |-> IF q \notin group THEN grads[q]
                                   ELSE IF ReducesGrads(r) THEN UNION {added[p] : p \in group}
                                   ELSE added[q]]
      /\ micro_step' = [q \in Ranks |-> micro_step[q] + (IF q \in group THEN 1 ELSE 0)]
      /\ pc' = [q \in Ranks |-> IF q \in group THEN AfterBackward(r) ELSE pc[q]]
      /\ UNCHANGED <<dataVars, step, params, args>>
  BY DEF Backward, GotoAll, AfterBackward
<1>2. \A q \in group : added[q] = Added(q)
  BY DEF Added
<1>3. CASE ~ ReducesGrads(r)
  <2>1. group = {r} /\ pc[r] = "backward"
    BY <1>1, <1>3 DEF Together
  <2>2. added[r] = Added(r)
    BY <1>2, <2>1
  <2> HIDE DEF group, added
  <2>3. /\ \A q \in Ranks : micro_step[q] \in Nat
        /\ micro_step = [q \in Ranks |-> micro_step[q]] /\ pc = [q \in Ranks |-> pc[q]]
        /\ grads = [q \in Ranks |-> grads[q]]
    BY DEF TrainTypeOK
  <2>4. grads' = [grads EXCEPT ![r] = Added(r)]
    BY <1>1, <1>3, <2>1, <2>2, <2>3
  <2>5. micro_step' = [micro_step EXCEPT ![r] = micro_step[r] + 1]
    BY <1>1, <2>1, <2>3
  <2>6. pc' = [pc EXCEPT ![r] = AfterBackward(r)]
    BY <1>1, <2>1, <2>3
  <2> QED
    BY <1>1, <1>3, <2>1, <2>4, <2>5, <2>6
<1>4. CASE ReducesGrads(r)
  <2>1. group = Ranks /\ \A q \in Ranks : pc[q] = "backward" /\ ReducesGrads(q)
    BY <1>1, <1>4 DEF Together
  <2>2. {added[p] : p \in group} = {Added(p) : p \in Ranks}
    BY <1>2, <2>1
  <2> HIDE DEF group, added
  <2>3. grads' = [q \in Ranks |-> UNION {Added(p) : p \in Ranks}]
    BY <1>1, <1>4, <2>1, <2>2
  <2>4. micro_step' = [q \in Ranks |-> micro_step[q] + 1]
    BY <1>1, <2>1
  <2>5. pc' = [q \in Ranks |-> AfterBackward(r)]
    BY <1>1, <2>1
  <2> QED
    BY <1>1, <2>1, <2>3, <2>4, <2>5
<1> QED
  BY <1>3, <1>4

Update(q, parts) == [lr |-> get_lr(step[q]), parts |-> parts]
OptimizeStepped(q, parts) ==
  IF grads[q] # {} THEN Append(params[q], Update(q, parts)) ELSE params[q]

LEMMA OptimizeStep ==
  ASSUME TrainTypeOK, NEW r \in Ranks, Optimize(r)
  PROVE  /\ UNCHANGED <<dataVars, micro_step, grads, args>>
         /\ \/ /\ ~ ShardsOptimizer(r) /\ pc[r] = "optimize"
               /\ params' = [params EXCEPT ![r] =
                               OptimizeStepped(r, [p \in Ranks |-> grads[r]])]
               /\ step' = [step EXCEPT ![r] = step[r] + 1]
               /\ pc' = [pc EXCEPT ![r] = "top"]
            \/ /\ ShardsOptimizer(r) /\ \A q \in Ranks : pc[q] = "optimize"
               /\ params' = [q \in Ranks |-> OptimizeStepped(q, grads)]
               /\ step' = [q \in Ranks |-> step[q] + 1]
               /\ pc' = [q \in Ranks |-> "top"]
<1> DEFINE group == Together(r, "optimize", ShardsOptimizer)
           source(q) == IF ShardsOptimizer(q) THEN grads ELSE [p \in Ranks |-> grads[q]]
<1>1. /\ r \in group
      /\ params' = [q \in Ranks |->
                     IF q \in group /\ grads[q] # {}
                     THEN Append(params[q], Update(q, source(q)))
                     ELSE params[q]]
      /\ step' = [q \in Ranks |-> step[q] + (IF q \in group THEN 1 ELSE 0)]
      /\ pc' = [q \in Ranks |-> IF q \in group THEN "top" ELSE pc[q]]
      /\ UNCHANGED <<micro_step, dataVars, grads, args>>
  BY DEF Optimize, GotoAll, Update
<1>2. /\ \A q \in Ranks : step[q] \in Nat
      /\ step = [q \in Ranks |-> step[q]] /\ pc = [q \in Ranks |-> pc[q]]
      /\ params = [q \in Ranks |-> params[q]]
  BY DEF TrainTypeOK
<1>3. CASE ~ ShardsOptimizer(r)
  <2>1. group = {r} /\ pc[r] = "optimize"
    BY <1>1, <1>3 DEF Together
  <2>2. source(r) = [p \in Ranks |-> grads[r]]
    BY <1>3
  <2> HIDE DEF group, source
  <2>3. params' = [params EXCEPT ![r] = OptimizeStepped(r, [p \in Ranks |-> grads[r]])]
    BY <1>1, <1>2, <2>1, <2>2 DEF OptimizeStepped
  <2>4. step' = [step EXCEPT ![r] = step[r] + 1]
    BY <1>1, <1>2, <2>1
  <2>5. pc' = [pc EXCEPT ![r] = "top"]
    BY <1>1, <1>2, <2>1
  <2> QED
    BY <1>1, <1>3, <2>1, <2>3, <2>4, <2>5
<1>4. CASE ShardsOptimizer(r)
  <2>1. group = Ranks /\ \A q \in Ranks : pc[q] = "optimize" /\ ShardsOptimizer(q)
    BY <1>1, <1>4 DEF Together
  <2>2. \A q \in Ranks : source(q) = grads
    BY <2>1
  <2> HIDE DEF group, source
  <2>3. params' = [q \in Ranks |-> OptimizeStepped(q, grads)]
    BY <1>1, <2>1, <2>2 DEF OptimizeStepped
  <2>4. step' = [q \in Ranks |-> step[q] + 1]
    BY <1>1, <2>1
  <2>5. pc' = [q \in Ranks |-> "top"]
    BY <1>1, <2>1
  <2> QED
    BY <1>1, <1>4, <2>1, <2>3, <2>4, <2>5
<1> QED
  BY <1>3, <1>4

LEMMA DataInvTogether ==
  ASSUME DataInv, NEW r \in Ranks,
         Wrap(r) \/ ReduceLoss(r) \/ ValidateForward(r) \/ Forward(r), UNCHANGED shardVars
  PROVE  DataInv'
<1>1. /\ UNCHANGED <<dataVars, step, grads, params, args>>
      /\ \E group \in SUBSET Ranks, place \in {"top", "optimize", "validate", "backward"} :
           /\ \A q \in group : pc[q] \notin Halted
           /\ place = "backward" => \A q \in group : pc[q] = "forward"
           /\ pc' = [q \in Ranks |-> IF q \in group THEN place ELSE pc[q]]
           /\ \/ micro_step' = micro_step
              \/ micro_step' = [q \in Ranks |-> micro_step[q] + (IF q \in group THEN 1 ELSE 0)]
  <2>1. CASE Wrap(r)
    BY <2>1, WrapStep DEF loopVars, modelVars, Halted
  <2>2. CASE ReduceLoss(r)
    BY <2>2, ReduceLossStep DEF loopVars, modelVars, Halted
  <2>3. CASE ValidateForward(r)
    BY <2>3, ValidateForwardStep DEF Halted
  <2>4. CASE Forward(r)
    BY <2>4, ForwardStep DEF loopVars, Halted
  <2> QED
    BY <2>1, <2>2, <2>3, <2>4
<1>2. PICK group \in SUBSET Ranks, place \in {"top", "optimize", "validate", "backward"} :
        /\ \A q \in group : pc[q] \notin Halted
        /\ place = "backward" => \A q \in group : pc[q] = "forward"
        /\ pc' = [q \in Ranks |-> IF q \in group THEN place ELSE pc[q]]
        /\ \/ micro_step' = micro_step
           \/ micro_step' = [q \in Ranks |-> micro_step[q] + (IF q \in group THEN 1 ELSE 0)]
  BY <1>1
<1>3. TrainTypeOK
  BY DEF DataInv
<1>4. micro_step' \in [Ranks -> Nat]
  <2>1. \A q \in Ranks : micro_step[q] + (IF q \in group THEN 1 ELSE 0) \in Nat
    BY <1>3 DEF TrainTypeOK
  <2> QED
    BY <1>2, <1>3, <2>1 DEF TrainTypeOK
<1>5. pc' \in [Ranks -> TrainPlaces]
  BY <1>2, <1>3 DEF TrainTypeOK, TrainPlaces
<1>6. \A q \in Ranks : pc'[q] = IF q \in group THEN place ELSE pc[q]
  BY <1>2
<1> QED
  BY <1>1, <1>2, <1>4, <1>5, <1>6, MovesOK

LEMMA AddedType ==
  ASSUME DataInv, NEW q \in Ranks, pc[q] = "backward"
  PROVE  /\ Added(q) \subseteq Contributions
         /\ \A c \in Added(q) : c.rank \in Ranks /\ OnGrid(c.rank, c.position)
<1>1. grads[q] \subseteq Contributions /\ micro_step[q] \in Int
  BY DEF DataInv, TrainTypeOK
<1>2. \A c \in grads[q] : c.rank \in Ranks /\ OnGrid(c.rank, c.position)
  BY DEF DataInv, PositionInv
<1>3. /\ Contribution(q, micro_step[q]) \in Contributions
      /\ Contribution(q, micro_step[q]).rank = q
      /\ OnGrid(q, Contribution(q, micro_step[q]).position)
  BY <1>1, ContributionType
<1> QED
  BY <1>1, <1>2, <1>3 DEF Added

LEMMA DataInvBackward ==
  ASSUME DataInv, NEW r \in Ranks, Backward(r), UNCHANGED shardVars
  PROVE  DataInv'
<1>1. TrainTypeOK
  BY DEF DataInv
<1>2. UNCHANGED <<dataVars, step, params, args>>
  BY <1>1, BackwardStep
<1>3. /\ pc' \in [Ranks -> TrainPlaces] /\ micro_step' \in [Ranks -> Nat]
      /\ grads' \in [Ranks -> SUBSET Contributions]
      /\ \A q \in Ranks : pc'[q] \in {pc[q], "fetch", "loss"}
      /\ \A q \in Ranks : pc'[q] \notin Halted => pc[q] \notin Halted
      /\ \A q \in Ranks : \A c \in grads'[q] : c.rank \in Ranks /\ OnGrid(c.rank, c.position)
  <2>1. \A q \in Ranks : AfterBackward(q) \in {"fetch", "loss"} /\ micro_step[q] + 1 \in Nat
    BY <1>1 DEF AfterBackward, TrainTypeOK
  <2>2. \A q \in Ranks : pc[q] \in TrainPlaces
    BY <1>1 DEF TrainTypeOK
  <2>3. CASE /\ ~ ReducesGrads(r) /\ pc[r] = "backward"
             /\ grads' = [grads EXCEPT ![r] = Added(r)]
             /\ micro_step' = [micro_step EXCEPT ![r] = micro_step[r] + 1]
             /\ pc' = [pc EXCEPT ![r] = AfterBackward(r)]
    <3>1. \A q \in Ranks : /\ pc'[q] = IF q = r THEN AfterBackward(r) ELSE pc[q]
                           /\ grads'[q] = IF q = r THEN Added(r) ELSE grads[q]
      BY <1>1, <2>3 DEF TrainTypeOK
    <3>2. \A q \in Ranks : \A c \in grads'[q] : c.rank \in Ranks /\ OnGrid(c.rank, c.position)
      BY <2>3, <3>1, AddedType DEF DataInv, PositionInv
    <3>3. Added(r) \subseteq Contributions
      BY <2>3, AddedType
    <3>4. grads' \in [Ranks -> SUBSET Contributions]
      BY <1>1, <2>3, <3>3 DEF TrainTypeOK
    <3>5. micro_step' \in [Ranks -> Nat]
      BY <1>1, <2>1, <2>3 DEF TrainTypeOK
    <3>6. pc' \in [Ranks -> TrainPlaces]
      BY <1>1, <2>1, <2>3 DEF TrainTypeOK, TrainPlaces
    <3> QED
      BY <2>1, <2>3, <3>1, <3>2, <3>4, <3>5, <3>6 DEF Halted
  <2>4. CASE /\ \A q \in Ranks : pc[q] = "backward" /\ ReducesGrads(q)
             /\ grads' = [q \in Ranks |-> UNION {Added(p) : p \in Ranks}]
             /\ micro_step' = [q \in Ranks |-> micro_step[q] + 1]
             /\ pc' = [q \in Ranks |-> AfterBackward(r)]
    <3>1. \A p \in Ranks : /\ Added(p) \subseteq Contributions
                           /\ \A c \in Added(p) : c.rank \in Ranks /\ OnGrid(c.rank, c.position)
      BY <2>4, AddedType
    <3>2. /\ UNION {Added(p) : p \in Ranks} \subseteq Contributions
          /\ \A c \in UNION {Added(p) : p \in Ranks} : c.rank \in Ranks /\ OnGrid(c.rank, c.position)
      BY <3>1
    <3>3. micro_step' \in [Ranks -> Nat]
      BY <2>1, <2>4
    <3>4. pc' \in [Ranks -> TrainPlaces] /\ \A q \in Ranks : pc'[q] \in {"fetch", "loss"}
      BY <2>1, <2>4 DEF TrainPlaces
    <3> QED
      BY <2>4, <3>2, <3>3, <3>4 DEF Halted
  <2> QED
    BY <1>1, <2>3, <2>4, BackwardStep
<1>4. /\ ShardsInv' /\ LoaderInv' /\ Ranks' = Ranks
      /\ train_loader' \in [Ranks' -> Loaders] /\ val_loader' \in [Ranks' -> Loaders]
  BY <1>2, <1>3, LoadersKept DEF dataVars
<1>5. TrainTypeOK'
  BY <1>1, <1>2, <1>3, <1>4 DEF TrainTypeOK, Updates, dataVars
<1>6. PositionInv'
  BY <1>2, <1>3, <1>4 DEF DataInv, PositionInv, OnGrid, dataVars
<1> QED
  BY <1>4, <1>5, <1>6 DEF DataInv

LEMMA LearningRateType ==
  ASSUME TrainTypeOK, NEW q \in Ranks
  PROVE  get_lr(step[q]) \in [phase : {"warmup", "decay"}, num : Int, den : Int]
<1>1. step[q] \in Nat /\ args.warmup_iters \in Nat /\ args.num_iterations \in Nat
  BY ArgsFacts DEF TrainTypeOK
<1> QED
  BY <1>1 DEF get_lr

LEMMA OptimizeSteppedType ==
  ASSUME TrainTypeOK, NEW q \in Ranks, NEW parts \in [Ranks -> SUBSET Contributions]
  PROVE  /\ OptimizeStepped(q, parts) \in Seq(Updates)
         /\ Update(q, parts) \in Updates
<1>1. Update(q, parts) \in Updates
  BY LearningRateType DEF Update, Updates
<1>2. params[q] \in Seq(Updates)
  BY DEF TrainTypeOK
<1> HIDE DEF Update, Updates
<1>3. Append(params[q], Update(q, parts)) \in Seq(Updates)
  BY <1>1, <1>2
<1> QED
  BY <1>1, <1>2, <1>3 DEF OptimizeStepped

LEMMA DataInvOptimize ==
  ASSUME DataInv, NEW r \in Ranks, Optimize(r), UNCHANGED shardVars
  PROVE  DataInv'
<1>1. TrainTypeOK /\ grads \in [Ranks -> SUBSET Contributions]
  BY DEF DataInv, TrainTypeOK
<1>2. UNCHANGED <<dataVars, micro_step, grads, args>>
  BY <1>1, OptimizeStep
<1>3. /\ pc' \in [Ranks -> TrainPlaces] /\ step' \in [Ranks -> Nat]
      /\ params' \in [Ranks -> Seq(Updates)]
      /\ \A q \in Ranks : pc'[q] \in {pc[q], "top"}
      /\ \A q \in Ranks : pc'[q] \notin Halted => pc[q] \notin Halted
  <2>1. \A q \in Ranks : /\ step[q] + 1 \in Nat /\ pc[q] \in TrainPlaces
                         /\ [p \in Ranks |-> grads[q]] \in [Ranks -> SUBSET Contributions]
    BY <1>1 DEF TrainTypeOK
  <2>2. CASE /\ ~ ShardsOptimizer(r) /\ pc[r] = "optimize"
             /\ params' = [params EXCEPT ![r] =
                             OptimizeStepped(r, [p \in Ranks |-> grads[r]])]
             /\ step' = [step EXCEPT ![r] = step[r] + 1]
             /\ pc' = [pc EXCEPT ![r] = "top"]
    <3>1. OptimizeStepped(r, [p \in Ranks |-> grads[r]]) \in Seq(Updates)
      BY <1>1, <2>1, OptimizeSteppedType
    <3>2. params' \in [Ranks -> Seq(Updates)]
      BY <1>1, <2>2, <3>1 DEF TrainTypeOK
    <3>3. step' \in [Ranks -> Nat]
      BY <1>1, <2>1, <2>2 DEF TrainTypeOK
    <3>4. /\ pc' \in [Ranks -> TrainPlaces]
          /\ \A q \in Ranks : pc'[q] = IF q = r THEN "top" ELSE pc[q]
      BY <1>1, <2>2 DEF TrainTypeOK, TrainPlaces
    <3> QED
      BY <2>2, <3>2, <3>3, <3>4 DEF Halted
  <2>3. CASE /\ ShardsOptimizer(r) /\ \A q \in Ranks : pc[q] = "optimize"
             /\ params' = [q \in Ranks |-> OptimizeStepped(q, grads)]
             /\ step' = [q \in Ranks |-> step[q] + 1]
             /\ pc' = [q \in Ranks |-> "top"]
    <3>1. \A q \in Ranks : OptimizeStepped(q, grads) \in Seq(Updates)
      BY <1>1, OptimizeSteppedType
    <3>2. params' \in [Ranks -> Seq(Updates)] /\ step' \in [Ranks -> Nat]
      BY <2>1, <2>3, <3>1
    <3>3. pc' \in [Ranks -> TrainPlaces] /\ \A q \in Ranks : pc'[q] = "top"
      BY <2>3 DEF TrainPlaces
    <3> QED
      BY <2>3, <3>2, <3>3 DEF Halted
  <2> QED
    BY <1>1, <2>2, <2>3, OptimizeStep
<1>4. /\ ShardsInv' /\ LoaderInv' /\ Ranks' = Ranks
      /\ train_loader' \in [Ranks' -> Loaders] /\ val_loader' \in [Ranks' -> Loaders]
  BY <1>2, <1>3, LoadersKept DEF dataVars
<1>5. TrainTypeOK'
  BY <1>1, <1>2, <1>3, <1>4 DEF TrainTypeOK, Updates, dataVars
<1>6. PositionInv'
  BY <1>2, <1>3, <1>4, PositionsKept DEF dataVars
<1> QED
  BY <1>4, <1>5, <1>6 DEF DataInv

\* A script that is still running trains nobody.
LEMMA DataInvScript ==
  ASSUME DataInv, ScriptNext, UNCHANGED trainVars
  PROVE  DataInv'
<1>1. ShardsInv'
  BY ShardsInvInductive DEF DataInv
<1>2. script_pc = "running"
  BY DEF ScriptNext, FineWebAppends, FineWebSplits, FineWebStops, FineWebEnds, StoriesFileCompletes,
     StoriesSplitEnds, ShakespeareSection, ShakespeareWrites, Runs
<1>3. /\ Ranks' = Ranks
      /\ UNCHANGED <<args, pc, step, micro_step, train_loader, val_loader, batch, grads, params>>
  BY DEF trainVars, Ranks
<1>4. TrainTypeOK'
  BY <1>3 DEF DataInv, TrainTypeOK, Updates
<1>5. LoaderInv'
  BY <1>2, <1>3 DEF DataInv, LoaderInv, Training
<1>6. PositionInv'
  BY <1>3 DEF DataInv, PositionInv, OnGrid
<1> QED
  BY <1>1, <1>4, <1>5, <1>6 DEF DataInv

LEMMA DataInvInit == Init => DataInv
<1> SUFFICES ASSUME Init PROVE DataInv
  OBVIOUS
<1>1. ShardsInv
  BY ShardsInvInit DEF Init
<1>2. TrainTypeOK
  <2>1. <<>> \in Seq(Updates) /\ NoShard \in Loaders /\ <<0, 0>> \in Nat \X Nat
        /\ "load" \in TrainPlaces
    BY DEF NoShard, Loaders, TrainPlaces
  <2> HIDE DEF Updates, Loaders, TrainPlaces
  <2> QED
    BY <2>1 DEF Init, TrainInit, TrainTypeOK
<1>3. LoaderInv /\ PositionInv
  BY DEF Init, TrainInit, LoaderInv, PositionInv, Training
<1> QED
  BY <1>1, <1>2, <1>3 DEF DataInv

LEMMA DataInvInductive == DataInv /\ [Next]_trainingVars => DataInv'
<1> SUFFICES ASSUME DataInv, [Next]_trainingVars PROVE DataInv'
  OBVIOUS
<1>1. CASE UNCHANGED trainingVars
  <2>1. /\ pc' = pc /\ micro_step' = micro_step
        /\ UNCHANGED <<shardVars, dataVars, step, grads, params, args>>
    BY <1>1 DEF trainingVars, trainVars, dataVars
  <2>2. pc' \in [Ranks -> TrainPlaces] /\ micro_step' \in [Ranks -> Nat]
    BY <2>1 DEF DataInv, TrainTypeOK
  <2> QED
    BY <2>1, <2>2, MovesOK
<1>2. CASE ScriptNext /\ UNCHANGED trainVars
  BY <1>2, DataInvScript
<1>3. ASSUME NEW r \in Ranks, RankNext(r), UNCHANGED shardVars
      PROVE  DataInv'
  BY <1>3, DataInvMakeLoaders, DataInvReference, DataInvReferencePass, DataInvTop,
     DataInvValidate, DataInvSample, DataInvBeginTraining, DataInvFetch, DataInvDestroy,
     DataInvTogether, DataInvBackward, DataInvOptimize DEF RankNext
<1> QED
  BY <1>1, <1>2, <1>3 DEF Next

LEMMA SpecKeepsData == Spec => []DataInv
BY DataInvInit, DataInvInductive, PTL DEF Spec

(***************************************************************************)
(* Whatever shards the scripts left, for every batch size, number of ranks *)
(* and command line: a rank that is running always has a next batch.       *)
(***************************************************************************)
THEOREM EveryBatchIsThere == Spec => []NextBatchInBounds
<1>1. DataInv => NextBatchInBounds
  <2> SUFFICES ASSUME DataInv, NEW r \in Ranks, Training(r), NEW split \in {"train", "val"}
               PROVE  LET loader == IF split = "train" THEN train_loader[r] ELSE val_loader[r]
                      IN /\ loader.loaded = loader.current_shard
                         /\ Len(NextWindow(loader, Shards(split))) = B * T + 1
    BY DEF NextBatchInBounds
  <2> DEFINE loader == IF split = "train" THEN train_loader[r] ELSE val_loader[r]
  <2>1. /\ split \in Splits /\ ShardsTypeOK /\ TrainTypeOK /\ Sound(split)
        /\ LoaderOK(loader, files[split], r)
    BY RankFacts
  <2>2. Len(NextWindow(loader, Shards(split))) = B * T + 1
    BY <2>1, WindowWhole
  <2> QED
    BY <2>1, <2>2 DEF LoaderOK
<1> QED
  BY <1>1, SpecKeepsData, PTL

\* Batches on the grid of two ranks do not overlap.
LEMMA GridsAreDisjoint ==
  ASSUME NEW v \in Nat \ {0}, NEW w \in Nat \ {0}, NEW r \in 0..(w - 1), NEW q \in 0..(w - 1),
         r # q, NEW k \in Nat, NEW m \in Nat
  PROVE  (((r + k * w) * v)..((r + k * w) * v + v - 1))
           \cap (((q + m * w) * v)..((q + m * w) * v + v - 1)) = {}
<1>1. \A a, b \in Nat : a < b => a * v + v <= b * v /\ a * v \in Nat /\ b * v \in Nat
  <2> TAKE a, b \in Nat
  <2> HAVE a < b
  <2> QED
    BY RoundArithmetic
<1>2. \A a, b \in Nat : a # b => (a * v)..(a * v + v - 1) \cap (b * v)..(b * v + v - 1) = {}
  <2> TAKE a, b \in Nat
  <2> HAVE a # b
  <2>1. CASE a < b
    <3> DEFINE av == a * v
               bv == b * v
    <3>1. av + v <= bv /\ av \in Nat /\ bv \in Nat
      BY <1>1, <2>1
    <3> HIDE DEF av, bv
    <3>2. av..(av + v - 1) \cap bv..(bv + v - 1) = {}
      BY <3>1
    <3> QED
      BY <3>2 DEF av, bv
  <2>2. CASE b < a
    <3> DEFINE av == a * v
               bv == b * v
    <3>1. bv + v <= av /\ av \in Nat /\ bv \in Nat
      BY <1>1, <2>2
    <3> HIDE DEF av, bv
    <3>2. av..(av + v - 1) \cap bv..(bv + v - 1) = {}
      BY <3>1
    <3> QED
      BY <3>2 DEF av, bv
  <2> QED
    BY <2>1, <2>2
<1>3. \A i, j \in Nat : i < j => i * w + w <= j * w /\ i * w \in Nat /\ j * w \in Nat
  <2> TAKE i, j \in Nat
  <2> HAVE i < j
  <2> QED
    BY RoundArithmetic
<1>4. k * w \in Nat /\ m * w \in Nat
  OBVIOUS
<1>5. r + k * w # q + m * w
  <2> DEFINE kw == k * w
             mw == m * w
  <2>1. CASE k < m
    <3>1. kw + w <= mw
      BY <1>3, <2>1
    <3> HIDE DEF kw, mw
    <3>2. kw \in Nat /\ mw \in Nat
      BY <1>4 DEF kw, mw
    <3>3. r + kw # q + mw
      BY <3>1, <3>2
    <3> QED
      BY <3>3 DEF kw, mw
  <2>2. CASE m < k
    <3>1. mw + w <= kw
      BY <1>3, <2>2
    <3> HIDE DEF kw, mw
    <3>2. kw \in Nat /\ mw \in Nat
      BY <1>4 DEF kw, mw
    <3>3. r + kw # q + mw
      BY <3>1, <3>2
    <3> QED
      BY <3>3 DEF kw, mw
  <2>3. CASE k = m
    BY <2>3, <1>4
  <2> QED
    BY <2>1, <2>2, <2>3
<1>6. r + k * w \in Nat /\ q + m * w \in Nat
  BY <1>4
<1> QED
  BY <1>2, <1>5, <1>6

(***************************************************************************)
(* No two ranks contribute the same input tokens to a gradient, for every  *)
(* number of ranks, batch size and shards.                                 *)
(***************************************************************************)
THEOREM DisjointTokens == Spec => []RanksTrainOnDisjointTokens
<1>1. DataInv => RanksTrainOnDisjointTokens
  <2> SUFFICES ASSUME DataInv, NEW r \in Ranks, NEW c \in grads[r], NEW d \in grads[r],
                      c.rank # d.rank
               PROVE  Inputs(c) \cap Inputs(d) = {}
    BY DEF RanksTrainOnDisjointTokens
  <2> DEFINE v == B * T
             w == args.world
  <2>1. v \in Nat \ {0} /\ w \in Nat \ {0} /\ Ranks = 0..(w - 1)
    BY ArgsFacts DEF DataInv
  <2>2. /\ c.rank \in 0..(w - 1) /\ d.rank \in 0..(w - 1)
        /\ OnGrid(c.rank, c.position) /\ OnGrid(d.rank, d.position)
    BY <2>1 DEF DataInv, PositionInv
  <2>3. PICK k \in Nat : c.position = (c.rank + k * w) * v
    BY <2>2 DEF OnGrid
  <2>4. PICK m \in Nat : d.position = (d.rank + m * w) * v
    BY <2>2 DEF OnGrid
  <2> HIDE DEF w
  <2>5. (c.position..(c.position + v - 1)) \cap (d.position..(d.position + v - 1)) = {}
    <3> HIDE DEF v
    <3>1. (((c.rank + k * w) * v)..((c.rank + k * w) * v + v - 1))
            \cap (((d.rank + m * w) * v)..((d.rank + m * w) * v + v - 1)) = {}
      BY <2>1, <2>2, GridsAreDisjoint, Zenon
    <3> QED
      BY <2>3, <2>4, <3>1, Zenon
  <2> QED
    BY <2>5 DEF Inputs
<1> QED
  BY <1>1, SpecKeepsData, PTL

-----------------------------------------------------------------------------
(***************************************************************************)
(* The replicas.  Ranks that have not failed are in the same step: what a  *)
(* rank has summed or averaged is what the others have, and what it is     *)
(* about to apply is what those that were faster have applied.             *)
(***************************************************************************)
Summing == {"fetch", "forward", "backward"}
Summed == {"loss", "optimize"}
Failed == {"dead", "killed"}
Micros == 0..(args.grad_accum_steps - 1)

\* One contribution of each of these ranks and micro-steps, of one version.
WholeBatch(part, ranks, micros, version) ==
  /\ \A c \in part : c.rank \in ranks /\ c.micro_step \in micros /\ c.version = version
  /\ \A p \in ranks, m \in micros : \E c \in part : c.rank = p /\ c.micro_step = m
  /\ \A c, d \in part : c.rank = d.rank /\ c.micro_step = d.micro_step => c = d

\* What rank r applies next.
NextUpdate(r) == Update(r, [p \in Ranks |-> grads[r]])

GradInv ==
  /\ \A r \in Ranks : pc[r] \in Summing =>
       /\ micro_step[r] < args.grad_accum_steps
       /\ WholeBatch(grads[r], {r}, 0..(micro_step[r] - 1), step[r])
  /\ \A r \in Ranks : pc[r] \in Summed => WholeBatch(grads[r], Ranks, Micros, step[r])

StepInv ==
  /\ \A r \in Ranks : step[r] <= args.num_iterations
  /\ \A r \in Ranks : pc[r] \in {"train"} \cup Summing \cup Summed => step[r] < args.num_iterations

UpdateInv ==
  /\ \A r \in Ranks : Len(params[r]) = step[r]
  /\ \A r \in Ranks, p \in Ranks : \A i \in 1..step[r] :
       /\ params[r][i].lr = get_lr(i - 1)
       /\ WholeBatch(params[r][i].parts[p], Ranks, Micros, i - 1)

\* How often the gradients, and the losses, have been averaged.
GradRounds(r) == step[r] + (IF pc[r] \in Summed THEN 1 ELSE 0)
LossRounds(r) == step[r] + (IF pc[r] = "optimize" THEN 1 ELSE 0)

LockstepInv ==
  \A r, q \in Ranks : pc[r] \notin Failed /\ pc[q] \notin Failed =>
    GradRounds(r) = GradRounds(q) /\ LossRounds(r) = LossRounds(q)

AgreeInv ==
  /\ \A r, q \in Ranks : pc[r] \in Summed /\ pc[q] \in Summed => grads[r] = grads[q]
  /\ \A r, q \in Ranks : pc[r] \in Summed /\ step[r] < step[q]
       => params[q][step[r] + 1] = NextUpdate(r)
  /\ \A r, q \in Ranks, i \in Nat \ {0} :
       i <= step[r] /\ i <= step[q] => params[r][i] = params[q][i]

\* Without training there is nothing to average and nothing to apply.
InferenceInv ==
  \A r \in Ranks : grads[r] = {} /\ params[r] = <<>> /\ pc[r] # "reference_pass"

ModelInv ==
  IF args.inference_only THEN InferenceInv
  ELSE GradInv /\ UpdateInv /\ LockstepInv /\ AgreeInv

ReplicaInv == DataInv /\ StepInv /\ ModelInv

\* A whole batch has one member for every rank and micro-step.
LEMMA WholeBatchCount ==
  ASSUME NEW w \in Nat \ {0}, NEW n \in Nat \ {0}, NEW version, NEW part,
         WholeBatch(part, 0..(w - 1), 0..(n - 1), version)
  PROVE  /\ {<<c.rank, c.micro_step>> : c \in part} = (0..(w - 1)) \X (0..(n - 1))
         /\ Cardinality(part) = w * n
<1> DEFINE S == (0..(w - 1)) \X (0..(n - 1))
           f == [c \in part |-> <<c.rank, c.micro_step>>]
<1>1. \A c \in part : <<c.rank, c.micro_step>> \in S
  BY DEF WholeBatch
<1>2. \A s \in S : \E c \in part : <<c.rank, c.micro_step>> = s
  <2> SUFFICES ASSUME NEW p \in 0..(w - 1), NEW m \in 0..(n - 1)
               PROVE  \E c \in part : <<c.rank, c.micro_step>> = <<p, m>>
    OBVIOUS
  <2>1. \E c \in part : c.rank = p /\ c.micro_step = m
    BY DEF WholeBatch
  <2> QED
    BY <2>1
<1>3. \A c, d \in part : <<c.rank, c.micro_step>> = <<d.rank, d.micro_step>> => c = d
  BY DEF WholeBatch
<1>4. {<<c.rank, c.micro_step>> : c \in part} = S
  BY <1>1, <1>2
<1>5. f \in Bijection(part, S)
  <2>1. f \in [part -> S]
    BY <1>1
  <2>2. \A a, b \in part : f[a] = f[b] => a = b
    BY <1>3
  <2>3. \A t \in S : \E s \in part : f[s] = t
    BY <1>2
  <2> HIDE DEF f, S
  <2> QED
    BY <2>1, <2>2, <2>3 DEF Bijection, Injection, Surjection, IsInjective
<1>6. ExistsBijection(S, part)
  <2>1. ExistsBijection(part, S)
    BY <1>5 DEF ExistsBijection
  <2> HIDE DEF S
  <2> QED
    BY <2>1, Fun_ExistsBijSymmetric
<1>7. /\ IsFiniteSet(0..(w - 1)) /\ Cardinality(0..(w - 1)) = w
      /\ IsFiniteSet(0..(n - 1)) /\ Cardinality(0..(n - 1)) = n
  <2>1. 0 \in Int /\ w - 1 \in Int /\ n - 1 \in Int
    OBVIOUS
  <2> QED
    BY <2>1, FS_Interval
<1>8. IsFiniteSet(S) /\ Cardinality(S) = w * n
  BY <1>7, FS_Product
<1>9. Cardinality(part) = Cardinality(S)
  <2> HIDE DEF S
  <2> QED
    BY <1>6, <1>8, FS_Bijection
<1> QED
  BY <1>4, <1>8, <1>9

\* One more micro-step of a rank; the ranks' batches together.
LEMMA AddedWhole ==
  ASSUME NEW r, NEW m \in Nat, NEW version, NEW part, NEW c,
         WholeBatch(part, {r}, 0..(m - 1), version),
         c.rank = r, c.micro_step = m, c.version = version
  PROVE  WholeBatch(part \cup {c}, {r}, 0..m, version)
<1>1. /\ \A d \in part : d.rank \in {r} /\ d.micro_step \in 0..(m - 1) /\ d.version = version
      /\ \A p \in {r}, k \in 0..(m - 1) : \E d \in part : d.rank = p /\ d.micro_step = k
      /\ \A d, e \in part : d.rank = e.rank /\ d.micro_step = e.micro_step => d = e
  BY DEF WholeBatch
<1>2. \A k \in 0..m : k = m \/ k \in 0..(m - 1)
  OBVIOUS
<1>3. \A k \in 0..(m - 1) : k # m /\ k \in 0..m
  OBVIOUS
<1>4. m \in 0..m
  OBVIOUS
<1>5. \A d \in part \cup {c} : d.rank \in {r} /\ d.micro_step \in 0..m /\ d.version = version
  BY <1>1, <1>3, <1>4
<1>6. \A p \in {r}, k \in 0..m : \E d \in part \cup {c} : d.rank = p /\ d.micro_step = k
  BY <1>1, <1>2
<1>7. \A d, e \in part \cup {c} : d.rank = e.rank /\ d.micro_step = e.micro_step => d = e
  BY <1>1, <1>3
<1> QED
  BY <1>5, <1>6, <1>7 DEF WholeBatch

LEMMA UnionWhole ==
  ASSUME NEW ranks, NEW micros, NEW version, NEW part, NEW all,
         \A p \in ranks : part[p] \subseteq all,
         \A c \in all : \E p \in ranks : c \in part[p],
         \A p \in ranks : WholeBatch(part[p], {p}, micros, version)
  PROVE  WholeBatch(all, ranks, micros, version)
<1>1. \A p \in ranks : \A c \in part[p] :
        c.rank = p /\ c.micro_step \in micros /\ c.version = version
  BY DEF WholeBatch
<1>2. \A c \in all : c.rank \in ranks /\ c \in part[c.rank]
                     /\ c.micro_step \in micros /\ c.version = version
  BY <1>1
<1>3. \A p \in ranks, m \in micros : \E c \in all : c.rank = p /\ c.micro_step = m
  <2> TAKE p \in ranks, m \in micros
  <2>1. \E c \in part[p] : c.rank = p /\ c.micro_step = m
    BY DEF WholeBatch
  <2> QED
    BY <2>1
<1>4. \A c, d \in all : c.rank = d.rank /\ c.micro_step = d.micro_step => c = d
  <2> TAKE c, d \in all
  <2> HAVE c.rank = d.rank /\ c.micro_step = d.micro_step
  <2>1. c.rank \in ranks /\ c \in part[c.rank] /\ d \in part[c.rank]
    BY <1>2
  <2> QED
    BY <2>1 DEF WholeBatch
<1> QED
  BY <1>2, <1>3, <1>4 DEF WholeBatch

\* The facts about a rank that the proofs below start from.
LEMMA ReplicaFacts ==
  ASSUME ReplicaInv
  PROVE  /\ TrainTypeOK /\ args.grad_accum_steps \in Nat \ {0} /\ args.num_iterations \in Nat
         /\ \A q \in Ranks : /\ step[q] \in Nat /\ micro_step[q] \in Nat
                             /\ pc[q] \in TrainPlaces /\ params[q] \in Seq(Updates)
                             /\ Len(params[q]) \in Nat /\ grads[q] \subseteq Contributions
<1>1. TrainTypeOK
  BY DEF ReplicaInv, DataInv
<1>2. \A q \in Ranks : /\ step[q] \in Nat /\ micro_step[q] \in Nat
                       /\ pc[q] \in TrainPlaces /\ params[q] \in Seq(Updates)
                       /\ Len(params[q]) \in Nat /\ grads[q] \subseteq Contributions
  <2> HIDE DEF Updates, Contributions
  <2> QED
    BY <1>1 DEF TrainTypeOK
<1> QED
  BY <1>1, <1>2, ArgsFacts

LEMMA UpdatesKept ==
  ASSUME UpdateInv, UNCHANGED <<args, step, params>>
  PROVE  UpdateInv'
BY DEF UpdateInv, WholeBatch, get_lr, Ranks, Micros

\* Steps that neither complete a micro-step nor an average nor an update.
LEMMA QuietOK ==
  ASSUME ReplicaInv, DataInv', UNCHANGED <<args, step, params>>,
         \A q \in Ranks : pc'[q] \in Summing =>
           pc[q] \in Summing /\ grads'[q] = grads[q] /\ micro_step'[q] = micro_step[q],
         \A q \in Ranks : pc'[q] \in Summed => pc'[q] = pc[q] /\ grads'[q] = grads[q],
         \A q \in Ranks : pc'[q] \notin Failed => pc[q] \notin Failed /\ (pc[q] \in Summed => pc'[q] = pc[q]),
         \A q \in Ranks : pc'[q] = "train" => pc[q] = "train" \/ step[q] # args.num_iterations,
         \A q \in Ranks : args.inference_only =>
           grads'[q] \in {grads[q], {}} /\ (pc'[q] = "reference_pass" => pc[q] = "reference_pass")
  PROVE  ReplicaInv'
<1>1. Ranks' = Ranks /\ Micros' = Micros
  BY DEF Ranks, Micros
<1>2. /\ args.num_iterations \in Nat
      /\ \A q \in Ranks : step[q] \in Nat
  BY ReplicaFacts
<1>3. StepInv'
  BY <1>1, <1>2 DEF ReplicaInv, StepInv, Summing, Summed
<1>4. CASE args.inference_only
  <2>1. InferenceInv'
    BY <1>1, <1>4 DEF ReplicaInv, ModelInv, InferenceInv
  <2> QED
    BY <1>3, <1>4, <2>1 DEF ReplicaInv, ModelInv
<1>5. CASE ~ args.inference_only
  <2>0. GradInv /\ UpdateInv /\ LockstepInv /\ AgreeInv
    BY <1>5 DEF ReplicaInv, ModelInv
  <2>1. GradInv'
    BY <1>1, <2>0 DEF GradInv, WholeBatch
  <2>2. UpdateInv'
    BY <1>1, <2>0, UpdatesKept
  <2>3. LockstepInv'
    <3>1. \A q \in Ranks : pc'[q] \notin Failed =>
            GradRounds(q)' = GradRounds(q) /\ LossRounds(q)' = LossRounds(q)
      BY DEF GradRounds, LossRounds, Summed
    <3> QED
      BY <1>1, <2>0, <3>1 DEF LockstepInv
  <2>4. AgreeInv'
    <3>1. \A q \in Ranks : grads'[q] = grads[q] => NextUpdate(q)' = NextUpdate(q)
      BY <1>1 DEF NextUpdate, Update, get_lr
    <3> QED
      BY <1>1, <2>0, <3>1 DEF AgreeInv
  <2> QED
    BY <1>3, <1>5, <2>1, <2>2, <2>3, <2>4 DEF ReplicaInv, ModelInv
<1> QED
  BY <1>4, <1>5

\* The steps that complete nothing.
LEMMA ReplicaInvQuiet ==
  ASSUME ReplicaInv, DataInv', NEW r \in Ranks,
         \/ MakeLoaders(r) \/ Reference(r) \/ ReferencePass(r) \/ Wrap(r)
         \/ Top(r) \/ Validate(r) \/ ValidateForward(r) \/ Sample(r)
         \/ Fetch(r) \/ Forward(r) \/ Destroy(r) \/ TorchrunStops(r)
  PROVE  ReplicaInv'
<1>0. /\ TrainTypeOK
      /\ \A q \in Ranks : micro_step[q] \in Nat
  BY ReplicaFacts
<1> DEFINE Quiet ==
      /\ UNCHANGED <<args, step, params>>
      /\ \A q \in Ranks : pc'[q] \in Summing =>
           pc[q] \in Summing /\ grads'[q] = grads[q] /\ micro_step'[q] = micro_step[q]
      /\ \A q \in Ranks : pc'[q] \in Summed => pc'[q] = pc[q] /\ grads'[q] = grads[q]
      /\ \A q \in Ranks : pc'[q] \notin Failed => pc[q] \notin Failed /\ (pc[q] \in Summed => pc'[q] = pc[q])
      /\ \A q \in Ranks : pc'[q] = "train" => pc[q] = "train" \/ step[q] # args.num_iterations
      /\ \A q \in Ranks : args.inference_only =>
           grads'[q] \in {grads[q], {}} /\ (pc'[q] = "reference_pass" => pc[q] = "reference_pass")
<1>1. ASSUME NEW place \in TrainPlaces, pc' = [pc EXCEPT ![r] = place], UNCHANGED <<args, step, params>>,
             \A q \in Ranks : q # r => micro_step'[q] = micro_step[q] /\ grads'[q] = grads[q],
             place \in Summing => pc[r] \in Summing /\ grads'[r] = grads[r] /\ micro_step'[r] = micro_step[r],
             place \notin Summed,
             place \notin Failed => pc[r] \notin Failed \cup Summed,
             place = "train" => step[r] # args.num_iterations,
             args.inference_only => grads'[r] = grads[r] /\ place # "reference_pass"
      PROVE  Quiet
  <2>1. \A q \in Ranks : pc'[q] = IF q = r THEN place ELSE pc[q]
    BY <1>0, <1>1 DEF TrainTypeOK
  <2> QED
    BY <1>1, <2>1 DEF Summing, Summed, Failed
<1>2. ASSUME NEW group \in SUBSET Ranks, NEW before \in TrainPlaces, NEW place \in TrainPlaces,
             \A q \in group : pc[q] = before,
             pc' = [q \in Ranks |-> IF q \in group THEN place ELSE pc[q]],
             UNCHANGED <<args, step, params, grads>>,
             \A q \in Ranks : q \notin group => micro_step'[q] = micro_step[q],
             place \in Summing => before \in Summing /\ micro_step' = micro_step,
             place \notin Summed \cup {"train", "reference_pass"},
             place \notin Failed => before \notin Failed \cup Summed
      PROVE  Quiet
  <2>1. \A q \in Ranks : pc'[q] = IF q \in group THEN place ELSE pc[q]
    BY <1>2
  <2> QED
    BY <1>2, <2>1 DEF Summing, Summed, Failed
<1>3. Quiet => ReplicaInv'
  BY QuietOK
<1> HIDE DEF Quiet
<1>4. CASE MakeLoaders(r)
  <2>1. PICK place \in {"reference", "dead"} : pc' = [pc EXCEPT ![r] = place]
    BY <1>4 DEF MakeLoaders, Goto, Dies
  <2> QED
    BY <1>1, <1>3, <1>4, <2>1 DEF MakeLoaders, loopVars, modelVars, Summing, Summed, Failed, TrainPlaces
<1>5. CASE Reference(r)
  <2>1. PICK place \in {"reference_pass", "wrap", "dead"} : pc' = [pc EXCEPT ![r] = place]
    BY <1>5 DEF Reference, FetchBatch, Goto, Dies
  <2>2. args.inference_only => pc' = [pc EXCEPT ![r] = "wrap"]
    BY <1>5 DEF Reference, WritesReference, Goto
  <2>3. UNCHANGED <<args, step, micro_step, params, grads>> /\ pc[r] = "reference"
    BY <1>5 DEF Reference, FetchBatch, loopVars, modelVars
  <2>4. CASE args.inference_only
    BY <1>1, <1>3, <2>2, <2>3, <2>4 DEF Summing, Summed, Failed, TrainPlaces
  <2>5. CASE ~ args.inference_only
    BY <1>1, <1>3, <2>1, <2>3, <2>5 DEF Summing, Summed, Failed, TrainPlaces
  <2> QED
    BY <2>4, <2>5
<1>6. CASE ReferencePass(r)
  <2>1. ~ args.inference_only
    BY <1>6 DEF ReferencePass, ReplicaInv, ModelInv, InferenceInv
  <2>2. /\ pc' = [pc EXCEPT ![r] = "wrap"] /\ pc[r] = "reference_pass"
        /\ UNCHANGED <<args, step, micro_step, params>>
    BY <1>6 DEF ReferencePass, Goto, loopVars
  <2>3. \A q \in Ranks : q # r => grads'[q] = grads[q]
    BY <1>0, <1>6 DEF ReferencePass, TrainTypeOK
  <2> QED
    BY <1>1, <1>3, <2>1, <2>2, <2>3 DEF Summing, Summed, Failed, TrainPlaces
<1>7. CASE Wrap(r)
  <2>1. PICK group \in SUBSET Ranks :
          /\ \A q \in group : pc[q] = "wrap"
          /\ pc' = [q \in Ranks |-> IF q \in group THEN "top" ELSE pc[q]]
    BY <1>7, WrapStep
  <2> QED
    BY <1>2, <1>3, <1>7, <2>1, WrapStep DEF loopVars, modelVars, Summing, Summed, Failed, TrainPlaces
<1>8. CASE Top(r)
  <2>1. PICK place \in {"validate", "sample", "dead"} : pc' = [pc EXCEPT ![r] = place]
    BY <1>8 DEF Top, Goto, Dies
  <2>2. \A q \in Ranks : q # r => micro_step'[q] = micro_step[q]
    BY <1>0, <1>8 DEF Top, TrainTypeOK
  <2>3. UNCHANGED <<args, step, params, grads>> /\ pc[r] = "top"
    BY <1>8 DEF Top, modelVars
  <2> QED
    BY <1>1, <1>3, <2>1, <2>2, <2>3 DEF Summing, Summed, Failed, TrainPlaces
<1>9. CASE Validate(r)
  <2>1. PICK place \in {"validate_forward", "sample", "dead"} : pc' = [pc EXCEPT ![r] = place]
    BY <1>9 DEF Validate, Goto, Dies
  <2>2. UNCHANGED <<args, step, micro_step, params, grads>> /\ pc[r] = "validate"
    BY <1>9 DEF Validate, modelVars, loopVars
  <2> QED
    BY <1>1, <1>3, <2>1, <2>2 DEF Summing, Summed, Failed, TrainPlaces
<1>10. CASE ValidateForward(r)
  <2>1. PICK group \in SUBSET Ranks :
          /\ \A q \in group : pc[q] = "validate_forward"
          /\ pc' = [q \in Ranks |-> IF q \in group THEN "validate" ELSE pc[q]]
          /\ micro_step' = [q \in Ranks |-> micro_step[q] + (IF q \in group THEN 1 ELSE 0)]
    BY <1>10, ValidateForwardStep
  <2>2. \A q \in Ranks : q \notin group => micro_step'[q] = micro_step[q]
    BY <1>0, <2>1
  <2> QED
    BY <1>2, <1>3, <1>10, <2>1, <2>2, ValidateForwardStep DEF Summing, Summed, Failed, TrainPlaces
<1>11. CASE Sample(r)
  <2>1. PICK place \in {"dead", "destroy", "train"} :
          pc' = [pc EXCEPT ![r] = place] /\ (place = "train" => ~ LastStep(r))
    BY <1>11 DEF Sample, Goto, Dies
  <2>2. UNCHANGED <<args, step, micro_step, params, grads>> /\ pc[r] = "sample"
    BY <1>11 DEF Sample, modelVars, loopVars
  <2> QED
    BY <1>1, <1>3, <2>1, <2>2 DEF Summing, Summed, Failed, TrainPlaces, LastStep
<1>12. CASE Fetch(r)
  <2>1. PICK place \in {"forward", "dead"} : pc' = [pc EXCEPT ![r] = place]
    BY <1>12 DEF Fetch, FetchBatch, Goto, Dies
  <2>2. UNCHANGED <<args, step, micro_step, params, grads>> /\ pc[r] = "fetch"
    BY <1>12 DEF Fetch, FetchBatch, modelVars, loopVars
  <2> QED
    BY <1>1, <1>3, <2>1, <2>2 DEF Summing, Summed, Failed, TrainPlaces
<1>13. CASE Forward(r)
  <2>1. PICK group \in SUBSET Ranks :
          /\ \A q \in group : pc[q] = "forward"
          /\ pc' = [q \in Ranks |-> IF q \in group THEN "backward" ELSE pc[q]]
    BY <1>13, ForwardStep
  <2> QED
    BY <1>2, <1>3, <1>13, <2>1, ForwardStep DEF loopVars, Summing, Summed, Failed, TrainPlaces
<1>14. CASE Destroy(r)
  BY <1>1, <1>3, <1>14 DEF Destroy, Goto, modelVars, loopVars, Summing, Summed, Failed, TrainPlaces
<1>15. CASE TorchrunStops(r)
  BY <1>1, <1>3, <1>15 DEF TorchrunStops, Goto, modelVars, loopVars, Summing, Summed, Failed, TrainPlaces
<1> QED
  BY <1>4, <1>5, <1>6, <1>7, <1>8, <1>9, <1>10, <1>11, <1>12, <1>13, <1>14, <1>15

LEMMA ReplicaInvBeginTraining ==
  ASSUME ReplicaInv, DataInv', NEW r \in Ranks, BeginTraining(r)
  PROVE  ReplicaInv'
<1>0. /\ TrainTypeOK /\ args.grad_accum_steps \in Nat \ {0} /\ args.num_iterations \in Nat
      /\ \A q \in Ranks : step[q] \in Nat
  BY ReplicaFacts
<1>1. PICK place \in {"fetch", "dead"} : pc' = [pc EXCEPT ![r] = place]
  BY DEF BeginTraining, Goto, Dies
<1>2. /\ UNCHANGED <<args, step, params>> /\ pc[r] = "train"
      /\ grads' = [grads EXCEPT ![r] = {}] /\ micro_step' = [micro_step EXCEPT ![r] = 0]
  BY DEF BeginTraining, ZeroGrad
<1>3. /\ Ranks' = Ranks /\ Micros' = Micros
      /\ \A q \in Ranks : q # r =>
           pc'[q] = pc[q] /\ grads'[q] = grads[q] /\ micro_step'[q] = micro_step[q]
      /\ pc'[r] = place /\ grads'[r] = {} /\ micro_step'[r] = 0
  BY <1>0, <1>1, <1>2 DEF TrainTypeOK, Ranks, Micros
<1>4. StepInv'
  <2>1. step[r] < args.num_iterations
    BY <1>2 DEF ReplicaInv, StepInv
  <2> QED
    BY <1>2, <1>3, <2>1 DEF ReplicaInv, StepInv
<1>5. CASE args.inference_only
  <2>1. InferenceInv'
    BY <1>2, <1>3, <1>5 DEF ReplicaInv, ModelInv, InferenceInv
  <2> QED
    BY <1>2, <1>4, <1>5, <2>1 DEF ReplicaInv, ModelInv
<1>6. CASE ~ args.inference_only
  <2>0. GradInv /\ UpdateInv /\ LockstepInv /\ AgreeInv
    BY <1>6 DEF ReplicaInv, ModelInv
  <2>1. GradInv'
    <3>1. 0 < args.grad_accum_steps /\ 0..(0 - 1) = {}
      BY <1>0
    <3>2. WholeBatch({}, {r}, 0..(0 - 1), step[r])
      BY <3>1 DEF WholeBatch
    <3> QED
      BY <1>2, <1>3, <2>0, <3>1, <3>2 DEF GradInv, WholeBatch, Summing, Summed
  <2>2. UpdateInv'
    BY <1>2, <2>0, UpdatesKept
  <2>3. LockstepInv'
    <3>1. \A q \in Ranks : pc'[q] \notin Failed => pc[q] \notin Failed /\
            GradRounds(q)' = GradRounds(q) /\ LossRounds(q)' = LossRounds(q)
      BY <1>2, <1>3 DEF GradRounds, LossRounds, Summed, Failed
    <3> QED
      BY <1>3, <2>0, <3>1 DEF LockstepInv
  <2>4. AgreeInv'
    <3>1. \A q \in Ranks : grads'[q] = grads[q] => NextUpdate(q)' = NextUpdate(q)
      BY <1>2, <1>3 DEF NextUpdate, Update, get_lr
    <3>2. \A q \in Ranks : pc'[q] \in Summed => q # r
      BY <1>3 DEF Summed
    <3> QED
      BY <1>2, <1>3, <2>0, <3>1, <3>2 DEF AgreeInv
  <2> QED
    BY <1>2, <1>4, <1>6, <2>1, <2>2, <2>3, <2>4 DEF ReplicaInv, ModelInv
<1> QED
  BY <1>5, <1>6

\* With the losses averaged every rank may optimize.
LEMMA ReplicaInvReduceLoss ==
  ASSUME ReplicaInv, DataInv', NEW r \in Ranks, ReduceLoss(r)
  PROVE  ReplicaInv'
<1>0. /\ TrainTypeOK /\ args.num_iterations \in Nat
      /\ \A q \in Ranks : step[q] \in Nat /\ micro_step[q] \in Nat
  BY ReplicaFacts
<1>1. UNCHANGED <<args, step, micro_step, grads, params>>
  BY ReduceLossStep DEF loopVars, modelVars
<1>2. (\A q \in Ranks : pc[q] = "loss") /\ pc' = [q \in Ranks |-> "optimize"]
  <2>1. ~ ddp => Ranks = {r}
    BY <1>0, ArgsFacts
  <2> QED
    BY <2>1, ReduceLossStep
<1>3. Ranks' = Ranks /\ Micros' = Micros /\ \A q \in Ranks : pc'[q] = "optimize"
  BY <1>1, <1>2 DEF Ranks, Micros
<1>4. StepInv'
  BY <1>1, <1>2, <1>3 DEF ReplicaInv, StepInv, Summed
<1>5. CASE args.inference_only
  <2>1. InferenceInv'
    BY <1>1, <1>3, <1>5 DEF ReplicaInv, ModelInv, InferenceInv
  <2> QED
    BY <1>1, <1>4, <1>5, <2>1 DEF ReplicaInv, ModelInv
<1>6. CASE ~ args.inference_only
  <2>0. GradInv /\ UpdateInv /\ LockstepInv /\ AgreeInv
    BY <1>6 DEF ReplicaInv, ModelInv
  <2>1. GradInv'
    BY <1>1, <1>2, <1>3, <2>0 DEF GradInv, WholeBatch, Summing, Summed
  <2>2. UpdateInv'
    BY <1>1, <2>0, UpdatesKept
  <2>3. LockstepInv'
    <3>1. \A q \in Ranks : pc[q] \notin Failed /\ GradRounds(q) = step[q] + 1
      BY <1>2 DEF GradRounds, Summed, Failed
    <3>2. \A p, q \in Ranks : step[p] = step[q]
      <4>1. \A p, q \in Ranks : step[p] + 1 = step[q] + 1
        BY <2>0, <3>1 DEF LockstepInv
      <4> QED
        BY <1>0, <4>1
    <3> QED
      BY <1>1, <1>3, <3>2 DEF LockstepInv, GradRounds, LossRounds, Summed
  <2>4. AgreeInv'
    <3>1. \A q \in Ranks : NextUpdate(q)' = NextUpdate(q)
      BY <1>1, <1>3 DEF NextUpdate, Update, get_lr
    <3>2. \A q \in Ranks : pc[q] \in Summed
      BY <1>2 DEF Summed
    <3> QED
      BY <1>1, <1>3, <2>0, <3>1, <3>2 DEF AgreeInv
  <2> QED
    BY <1>1, <1>4, <1>6, <2>1, <2>2, <2>3, <2>4 DEF ReplicaInv, ModelInv
<1> QED
  BY <1>5, <1>6

\* Before its last micro-step a rank works alone; the last one is that of all ranks.
LEMMA ReplicaInvBackward ==
  ASSUME ReplicaInv, DataInv', NEW r \in Ranks, Backward(r)
  PROVE  ReplicaInv'
<1>0. /\ TrainTypeOK /\ args.num_iterations \in Nat /\ args.grad_accum_steps \in Nat \ {0}
      /\ \A q \in Ranks : step[q] \in Nat /\ micro_step[q] \in Nat
  BY ReplicaFacts
<1>1. UNCHANGED <<args, step, params>> /\ Ranks' = Ranks /\ Micros' = Micros
  BY <1>0, BackwardStep DEF Ranks, Micros
<1> DEFINE Alone == /\ ~ ReducesGrads(r) /\ pc[r] = "backward"
                    /\ grads' = [grads EXCEPT ![r] = Added(r)]
                    /\ micro_step' = [micro_step EXCEPT ![r] = micro_step[r] + 1]
                    /\ pc' = [pc EXCEPT ![r] = AfterBackward(r)]
           AllRanks == /\ \A q \in Ranks : pc[q] = "backward" /\ ReducesGrads(q)
                       /\ grads' = [q \in Ranks |-> UNION {Added(p) : p \in Ranks}]
                       /\ micro_step' = [q \in Ranks |-> micro_step[q] + 1]
                       /\ pc' = [q \in Ranks |-> AfterBackward(r)]
<1>2. Alone \/ AllRanks
  BY <1>0, BackwardStep
<1>3. StepInv'
  <2>1. \A q \in Ranks : pc'[q] = pc[q] \/ pc[q] = "backward"
    BY <1>0, <1>2 DEF TrainTypeOK
  <2> QED
    BY <1>1, <2>1 DEF ReplicaInv, StepInv, Summing, Summed
<1>4. CASE args.inference_only
  <2>0. InferenceInv
    BY <1>4 DEF ReplicaInv, ModelInv
  <2>1. ~ AllRanks /\ Added(r) = {} /\ AfterBackward(r) # "reference_pass"
    BY <1>4, <2>0 DEF ReducesGrads, Added, InferenceInv, AfterBackward
  <2>2. \A q \in Ranks : grads'[q] = {} /\ pc'[q] # "reference_pass"
    BY <1>0, <1>2, <2>0, <2>1 DEF TrainTypeOK, InferenceInv
  <2>3. InferenceInv'
    BY <1>1, <2>0, <2>2 DEF InferenceInv
  <2> QED
    BY <1>1, <1>3, <1>4, <2>3 DEF ReplicaInv, ModelInv
<1>5. CASE ~ args.inference_only
  <2>0. GradInv /\ UpdateInv /\ LockstepInv /\ AgreeInv
    BY <1>5 DEF ReplicaInv, ModelInv
  <2>1. \A q \in Ranks : pc[q] = "backward" =>
          /\ micro_step[q] < args.grad_accum_steps
          /\ WholeBatch(Added(q), {q}, 0..micro_step[q], step[q])
    <3> SUFFICES ASSUME NEW q \in Ranks, pc[q] = "backward"
                 PROVE  /\ micro_step[q] < args.grad_accum_steps
                        /\ WholeBatch(Added(q), {q}, 0..micro_step[q], step[q])
      OBVIOUS
    <3>1. /\ micro_step[q] < args.grad_accum_steps
          /\ WholeBatch(grads[q], {q}, 0..(micro_step[q] - 1), step[q])
      BY <2>0 DEF GradInv, Summing
    <3> DEFINE c == Contribution(q, micro_step[q])
    <3>2. c.rank = q /\ c.micro_step = micro_step[q] /\ c.version = step[q]
      BY <2>0 DEF Contribution, UpdateInv
    <3> HIDE DEF c
    <3>3. WholeBatch(grads[q] \cup {c}, {q}, 0..micro_step[q], step[q])
      BY <1>0, <3>1, <3>2, AddedWhole
    <3> QED
      BY <1>5, <3>1, <3>3 DEF Added, c
  <2>2. UpdateInv'
    BY <1>1, <2>0, UpdatesKept
  <2>3. CASE Alone /\ micro_step[r] + 1 < args.grad_accum_steps
    <3>1. /\ \A q \in Ranks : q # r =>
               pc'[q] = pc[q] /\ grads'[q] = grads[q] /\ micro_step'[q] = micro_step[q]
          /\ pc'[r] = "fetch" /\ grads'[r] = Added(r) /\ micro_step'[r] = micro_step[r] + 1
      BY <1>0, <2>3 DEF AfterBackward, TrainTypeOK
    <3>2. /\ WholeBatch(Added(r), {r}, 0..(micro_step'[r] - 1), step[r])
          /\ micro_step'[r] < args.grad_accum_steps
      <4>1. micro_step'[r] - 1 = micro_step[r]
        BY <1>0, <3>1
      <4> QED
        BY <2>1, <2>3, <3>1, <4>1
    <3>3. GradInv'
      BY <1>1, <2>0, <3>1, <3>2 DEF GradInv, WholeBatch, Summing, Summed
    <3>4. LockstepInv'
      <4>1. \A q \in Ranks : pc'[q] \notin Failed => pc[q] \notin Failed /\
              GradRounds(q)' = GradRounds(q) /\ LossRounds(q)' = LossRounds(q)
        BY <1>1, <2>3, <3>1 DEF GradRounds, LossRounds, Summed, Failed
      <4> QED
        BY <1>1, <2>0, <4>1 DEF LockstepInv
    <3>5. AgreeInv'
      <4>1. \A q \in Ranks : grads'[q] = grads[q] => NextUpdate(q)' = NextUpdate(q)
        BY <1>1 DEF NextUpdate, Update, get_lr
      <4>2. \A q \in Ranks : pc'[q] \in Summed => q # r
        BY <3>1 DEF Summed
      <4> QED
        BY <1>1, <2>0, <3>1, <4>1, <4>2 DEF AgreeInv
    <3> QED
      BY <1>1, <1>3, <1>5, <2>2, <3>3, <3>4, <3>5 DEF ReplicaInv, ModelInv
  <2>4. CASE ~ (Alone /\ micro_step[r] + 1 < args.grad_accum_steps)
    <3>1. \A q \in Ranks : pc[q] = "backward" /\ micro_step[q] = args.grad_accum_steps - 1
      <4>1. CASE AllRanks
        BY <4>1 DEF ReducesGrads, GradSync
      <4>2. CASE Alone
        <5>0. micro_step[r] < args.grad_accum_steps /\ ~ (micro_step[r] + 1 < args.grad_accum_steps)
          BY <2>1, <2>4, <4>2
        <5>1. micro_step[r] = args.grad_accum_steps - 1
          BY <1>0, <5>0
        <5>2. Ranks = {r}
          BY <1>0, <1>5, <4>2, <5>1, ArgsFacts DEF ReducesGrads, GradSync
        <5> QED
          BY <4>2, <5>1, <5>2
      <4> QED
        BY <1>2, <4>1, <4>2
    <3> DEFINE part == [p \in Ranks |-> Added(p)]
               all == UNION {part[p] : p \in Ranks}
    <3>2. \A q \in Ranks : grads'[q] = all /\ pc'[q] = "loss"
      <4>1. AfterBackward(r) = "loss"
        BY <1>0, <3>1 DEF AfterBackward
      <4>2. CASE AllRanks
        <5>1. {Added(p) : p \in Ranks} = {part[p] : p \in Ranks}
          OBVIOUS
        <5> HIDE DEF part
        <5> QED
          BY <4>1, <4>2, <5>1
      <4>3. CASE Alone
        <5>1. Ranks = {r}
          BY <1>0, <1>5, <3>1, <4>3, ArgsFacts DEF ReducesGrads, GradSync
        <5>2. all = Added(r)
          BY <5>1
        <5> HIDE DEF all
        <5> QED
          BY <1>0, <4>1, <4>3, <5>1, <5>2 DEF TrainTypeOK
      <4> QED
        BY <1>2, <4>2, <4>3
    <3>3. \A p, q \in Ranks : step[p] = step[q]
      <4>1. \A q \in Ranks : pc[q] \notin Failed /\ GradRounds(q) = step[q]
        BY <1>0, <3>1 DEF GradRounds, Summed, Failed
      <4> QED
        BY <2>0, <4>1 DEF LockstepInv
    <3>4. \A q \in Ranks : WholeBatch(all, Ranks, Micros, step[q])
      <4> TAKE q \in Ranks
      <4>1. \A p \in Ranks : WholeBatch(part[p], {p}, Micros, step[q])
        <5> TAKE p \in Ranks
        <5>1. WholeBatch(Added(p), {p}, 0..micro_step[p], step[p])
          BY <2>1, <3>1
        <5>2. 0..micro_step[p] = Micros /\ step[p] = step[q]
          BY <3>1, <3>3 DEF Micros
        <5> QED
          BY <5>1, <5>2
      <4>2. (\A p \in Ranks : part[p] \subseteq all) /\ (\A c \in all : \E p \in Ranks : c \in part[p])
        <5> HIDE DEF part
        <5> QED
          OBVIOUS
      <4> HIDE DEF part, all
      <4> QED
        BY <4>1, <4>2, UnionWhole
    <3> HIDE DEF all, part
    <3>5. GradInv'
      BY <1>1, <3>2, <3>4 DEF GradInv, WholeBatch, Summing, Summed
    <3>6. LockstepInv'
      BY <1>1, <3>2, <3>3 DEF LockstepInv, GradRounds, LossRounds
    <3>7. AgreeInv'
      <4>1. \A p, q \in Ranks : ~ (step[p] < step[q])
        BY <1>0, <3>3
      <4> QED
        BY <1>1, <2>0, <3>2, <4>1 DEF AgreeInv
    <3> QED
      BY <1>1, <1>3, <1>5, <2>2, <3>5, <3>6, <3>7 DEF ReplicaInv, ModelInv
  <2> QED
    BY <2>3, <2>4
<1> QED
  BY <1>4, <1>5

LEMMA InferenceOptimizes ==
  ASSUME ReplicaInv, NEW r \in Ranks, Optimize(r), args.inference_only
  PROVE  /\ \A q \in Ranks : params'[q] = <<>> /\ grads'[q] = {} /\ pc'[q] # "reference_pass"
<1>0. TrainTypeOK
  BY ReplicaFacts
<1>1. InferenceInv
  BY DEF ReplicaInv, ModelInv
<1>2. \A q \in Ranks : \A parts : OptimizeStepped(q, parts) = <<>>
  BY <1>1 DEF OptimizeStepped, InferenceInv
<1>3. \A q \in Ranks : grads'[q] = {} /\ pc[q] # "reference_pass" /\ params[q] = <<>>
  BY <1>0, <1>1, OptimizeStep DEF InferenceInv
<1>4. pc \in [Ranks -> TrainPlaces] /\ params \in [Ranks -> Seq(Updates)]
  BY <1>0 DEF TrainTypeOK
<1> HIDE DEF TrainPlaces, Updates
<1>5. \A q \in Ranks : params'[q] = <<>> /\ pc'[q] \in {pc[q], "top"}
  <2>1. CASE /\ params' = [params EXCEPT ![r] =
                             OptimizeStepped(r, [p \in Ranks |-> grads[r]])]
             /\ pc' = [pc EXCEPT ![r] = "top"]
    BY <1>2, <1>3, <1>4, <2>1
  <2>2. CASE /\ params' = [q \in Ranks |-> OptimizeStepped(q, grads)]
             /\ pc' = [q \in Ranks |-> "top"]
    BY <1>2, <2>2
  <2> QED
    BY <1>0, <2>1, <2>2, OptimizeStep
<1> QED
  BY <1>3, <1>5

\* Every rank that optimizes applies the update all of them have the gradients of.
LEMMA OptimizeApplies ==
  ASSUME ReplicaInv, NEW r \in Ranks, Optimize(r), ~ args.inference_only
  PROVE  /\ UNCHANGED <<micro_step, grads, args>>
         /\ \E group \in SUBSET Ranks :
              /\ \A q \in group : pc[q] = "optimize"
              /\ params' = [q \in Ranks |-> IF q \in group THEN Append(params[q], NextUpdate(q))
                                            ELSE params[q]]
              /\ step' = [q \in Ranks |-> IF q \in group THEN step[q] + 1 ELSE step[q]]
              /\ pc' = [q \in Ranks |-> IF q \in group THEN "top" ELSE pc[q]]
<1>0. TrainTypeOK /\ 0 \in Micros /\ 0 \in Ranks
  BY ReplicaFacts, ArgsFacts DEF Micros
<1>1. GradInv /\ AgreeInv
  BY DEF ReplicaInv, ModelInv
<1>2. \A q \in Ranks : pc[q] = "optimize" => grads[q] # {}
  BY <1>0, <1>1 DEF GradInv, WholeBatch, Summed
<1>3. UNCHANGED <<micro_step, grads, args>>
  BY <1>0, OptimizeStep
<1>4. \A q \in Ranks : pc[q] = "optimize" =>
        OptimizeStepped(q, [p \in Ranks |-> grads[q]]) = Append(params[q], NextUpdate(q))
  BY <1>2 DEF OptimizeStepped, NextUpdate
<1>5. CASE /\ ~ ShardsOptimizer(r) /\ pc[r] = "optimize"
           /\ params' = [params EXCEPT ![r] =
                           OptimizeStepped(r, [p \in Ranks |-> grads[r]])]
           /\ step' = [step EXCEPT ![r] = step[r] + 1]
           /\ pc' = [pc EXCEPT ![r] = "top"]
  <2>1. /\ params = [q \in Ranks |-> params[q]] /\ step = [q \in Ranks |-> step[q]]
        /\ pc = [q \in Ranks |-> pc[q]]
    BY <1>0 DEF TrainTypeOK
  <2>2. params' = [params EXCEPT ![r] = Append(params[r], NextUpdate(r))]
    BY <1>4, <1>5
  <2>3. params' = [q \in Ranks |-> IF q \in {r} THEN Append(params[q], NextUpdate(q)) ELSE params[q]]
    BY <2>1, <2>2
  <2>4. step' = [q \in Ranks |-> IF q \in {r} THEN step[q] + 1 ELSE step[q]]
    BY <1>5, <2>1
  <2>5. pc' = [q \in Ranks |-> IF q \in {r} THEN "top" ELSE pc[q]]
    BY <1>5, <2>1
  <2>6. {r} \in SUBSET Ranks /\ \A q \in {r} : pc[q] = "optimize"
    BY <1>5
  <2> QED
    BY <1>3, <2>3, <2>4, <2>5, <2>6
<1>6. CASE /\ ShardsOptimizer(r) /\ \A q \in Ranks : pc[q] = "optimize"
           /\ params' = [q \in Ranks |-> OptimizeStepped(q, grads)]
           /\ step' = [q \in Ranks |-> step[q] + 1]
           /\ pc' = [q \in Ranks |-> "top"]
  <2>1. \A q \in Ranks : grads = [p \in Ranks |-> grads[q]]
    <3> TAKE q \in Ranks
    <3>1. grads = [p \in Ranks |-> grads[p]]
      BY <1>0 DEF TrainTypeOK
    <3>2. \A p \in Ranks : grads[p] = grads[q]
      BY <1>1, <1>6 DEF AgreeInv, Summed
    <3> QED
      BY <3>1, <3>2
  <2>2. \A q \in Ranks : OptimizeStepped(q, grads) = Append(params[q], NextUpdate(q))
    BY <1>4, <1>6, <2>1
  <2>3. params' = [q \in Ranks |-> IF q \in Ranks THEN Append(params[q], NextUpdate(q)) ELSE params[q]]
    BY <1>6, <2>2
  <2>4. step' = [q \in Ranks |-> IF q \in Ranks THEN step[q] + 1 ELSE step[q]]
    BY <1>6
  <2>5. pc' = [q \in Ranks |-> IF q \in Ranks THEN "top" ELSE pc[q]]
    BY <1>6
  <2> QED
    BY <1>3, <1>6, <2>3, <2>4, <2>5
<1> QED
  BY <1>0, <1>5, <1>6, OptimizeStep

LEMMA ReplicaInvOptimize ==
  ASSUME ReplicaInv, DataInv', NEW r \in Ranks, Optimize(r)
  PROVE  ReplicaInv'
<1>0. /\ TrainTypeOK /\ args.num_iterations \in Nat /\ args.grad_accum_steps \in Nat \ {0}
      /\ \A q \in Ranks : /\ step[q] \in Nat /\ micro_step[q] \in Nat
                          /\ params[q] \in Seq(Updates) /\ Len(params[q]) \in Nat
  BY ReplicaFacts
<1>1. UNCHANGED args /\ Ranks' = Ranks /\ Micros' = Micros
  BY <1>0, OptimizeStep DEF Ranks, Micros
<1>2. StepInv'
  <2>1. \A q \in Ranks : pc[q] = "optimize" => step[q] < args.num_iterations
    BY DEF ReplicaInv, StepInv, Summed
  <2>2. \A q \in Ranks : \/ pc'[q] = pc[q] /\ step'[q] = step[q]
                         \/ pc[q] = "optimize" /\ pc'[q] = "top" /\ step'[q] = step[q] + 1
    <3>1. pc \in [Ranks -> TrainPlaces] /\ step \in [Ranks -> Nat]
      BY <1>0 DEF TrainTypeOK
    <3> HIDE DEF TrainPlaces
    <3>2. CASE /\ pc[r] = "optimize" /\ step' = [step EXCEPT ![r] = step[r] + 1]
               /\ pc' = [pc EXCEPT ![r] = "top"]
      BY <3>1, <3>2
    <3>3. CASE /\ \A q \in Ranks : pc[q] = "optimize"
               /\ step' = [q \in Ranks |-> step[q] + 1] /\ pc' = [q \in Ranks |-> "top"]
      BY <3>3
    <3> QED
      BY <1>0, <3>2, <3>3, OptimizeStep
  <2> QED
    BY <1>0, <1>1, <2>1, <2>2 DEF ReplicaInv, StepInv, Summing, Summed
<1>3. CASE args.inference_only
  <2>1. InferenceInv'
    BY <1>1, <1>3, InferenceOptimizes DEF InferenceInv
  <2> QED
    BY <1>1, <1>2, <1>3, <2>1 DEF ReplicaInv, ModelInv
<1>4. CASE ~ args.inference_only
  <2>0. GradInv /\ UpdateInv /\ LockstepInv /\ AgreeInv
    BY <1>4 DEF ReplicaInv, ModelInv
  <2>1. PICK group \in SUBSET Ranks :
          /\ \A q \in group : pc[q] = "optimize"
          /\ params' = [q \in Ranks |-> IF q \in group THEN Append(params[q], NextUpdate(q))
                                        ELSE params[q]]
          /\ step' = [q \in Ranks |-> IF q \in group THEN step[q] + 1 ELSE step[q]]
          /\ pc' = [q \in Ranks |-> IF q \in group THEN "top" ELSE pc[q]]
    BY <1>4, OptimizeApplies
  <2>2. UNCHANGED <<micro_step, grads>>
    BY <1>4, OptimizeApplies
  <2>3. /\ \A q \in Ranks : q \notin group =>
             pc'[q] = pc[q] /\ step'[q] = step[q] /\ params'[q] = params[q]
        /\ \A q \in group : pc'[q] = "top" /\ step'[q] = step[q] + 1
    BY <2>1
  <2>4. \A q \in group : /\ Len(params'[q]) = step[q] + 1
                         /\ params'[q][step[q] + 1] = NextUpdate(q)
                         /\ \A i \in 1..step[q] : params'[q][i] = params[q][i]
    <3> TAKE q \in group
    <3>1. params'[q] = Append(params[q], NextUpdate(q)) /\ Len(params[q]) = step[q]
      BY <2>0, <2>1 DEF UpdateInv
    <3>2. params[q] \in Seq(Updates)
      BY <1>0
    <3> HIDE DEF Updates
    <3> QED
      BY <3>1, <3>2
  <2>5. GradInv'
    BY <1>1, <2>0, <2>2, <2>3 DEF GradInv, WholeBatch, Summing, Summed
  <2>6. UpdateInv'
    <3>1. \A q \in Ranks : Len(params'[q]) = step'[q]
      BY <2>0, <2>3, <2>4 DEF UpdateInv
    <3>2. ASSUME NEW q \in Ranks, NEW p \in Ranks, NEW i \in 1..step'[q]
          PROVE  /\ params'[q][i].lr = get_lr(i - 1)
                 /\ WholeBatch(params'[q][i].parts[p], Ranks, Micros, i - 1)
      <4>1. CASE i \in 1..step[q]
        <5>1. params'[q][i] = params[q][i]
          BY <2>3, <2>4, <4>1
        <5> QED
          BY <2>0, <4>1, <5>1 DEF UpdateInv
      <4>2. CASE i \notin 1..step[q]
        <5>1. q \in group /\ i = step[q] + 1
          BY <1>0, <2>3, <3>2, <4>2
        <5>2. i - 1 = step[q] /\ params'[q][i] = NextUpdate(q)
          BY <1>0, <2>4, <5>1
        <5>3. NextUpdate(q).lr = get_lr(step[q]) /\ NextUpdate(q).parts[p] = grads[q]
          BY DEF NextUpdate, Update
        <5>4. WholeBatch(grads[q], Ranks, Micros, step[q])
          BY <2>0, <2>1, <5>1 DEF GradInv, Summed
        <5> QED
          BY <5>2, <5>3, <5>4
      <4> QED
        BY <4>1, <4>2
    <3>3. ASSUME NEW q \in Ranks', NEW p \in Ranks', NEW i \in 1..step'[q]
          PROVE  (/\ params[q][i].lr = get_lr(i - 1)
                  /\ WholeBatch(params[q][i].parts[p], Ranks, Micros, i - 1))'
      <4>1. /\ params'[q][i].lr = get_lr(i - 1)
            /\ WholeBatch(params'[q][i].parts[p], Ranks, Micros, i - 1)
        BY <1>1, <3>2, <3>3
      <4> QED
        BY <1>1, <4>1 DEF WholeBatch, get_lr
    <3>4. \A q \in Ranks' : Len(params'[q]) = step'[q]
      BY <1>1, <3>1
    <3> QED
      BY <3>3, <3>4 DEF UpdateInv
  <2>7. LockstepInv'
    <3>1. \A q \in Ranks : pc'[q] \notin Failed => pc[q] \notin Failed /\
            GradRounds(q)' = GradRounds(q) /\ LossRounds(q)' = LossRounds(q)
      BY <1>0, <2>1, <2>3 DEF GradRounds, LossRounds, Summed, Failed
    <3> QED
      BY <1>1, <2>0, <3>1 DEF LockstepInv
  <2>8. \A a, b \in Ranks : a \notin group /\ pc[a] \in Summed /\ b \in group /\ ~ (step[a] < step[b])
                              => step[a] = step[b] /\ NextUpdate(a) = NextUpdate(b)
    <3> SUFFICES ASSUME NEW a \in Ranks, NEW b \in group, pc[a] \in Summed
                 PROVE  step[a] = step[b] /\ NextUpdate(a) = NextUpdate(b)
      OBVIOUS
    <3>1. pc[b] = "optimize" /\ pc[b] \in Summed /\ b \in Ranks
      BY <2>1 DEF Summed
    <3>2. GradRounds(a) = GradRounds(b) /\ grads[a] = grads[b]
      BY <2>0, <3>1 DEF LockstepInv, AgreeInv, Summed, Failed
    <3>3. step[a] = step[b]
      BY <1>0, <3>1, <3>2 DEF GradRounds
    <3> QED
      BY <3>2, <3>3 DEF NextUpdate, Update
  <2>9. \A a, b \in group : step[a] = step[b] /\ NextUpdate(a) = NextUpdate(b)
    <3> TAKE a, b \in group
    <3>1. pc[a] \in Summed /\ pc[b] \in Summed /\ a \in Ranks /\ b \in Ranks
          /\ pc[a] \notin Failed /\ pc[b] \notin Failed
      BY <2>1 DEF Summed, Failed
    <3>2. GradRounds(a) = GradRounds(b) /\ grads[a] = grads[b]
      BY <2>0, <3>1 DEF LockstepInv, AgreeInv
    <3>3. step[a] = step[b]
      BY <1>0, <3>1, <3>2 DEF GradRounds
    <3> QED
      BY <3>2, <3>3 DEF NextUpdate, Update
  <2>10. ASSUME NEW a \in Ranks, NEW b \in Ranks, pc'[a] \in Summed, step'[a] < step'[b]
         PROVE  params'[b][step'[a] + 1] = NextUpdate(a)
    <3>1. a \notin group /\ step'[a] = step[a] /\ pc[a] \in Summed
      BY <2>3, <2>10 DEF Summed
    <3>2. CASE step[a] < step[b]
      <4>1. params[b][step[a] + 1] = NextUpdate(a)
        BY <2>0, <3>1, <3>2 DEF AgreeInv
      <4>2. step[a] + 1 \in 1..step[b]
        BY <1>0, <3>2
      <4>3. params'[b][step[a] + 1] = params[b][step[a] + 1]
        BY <2>3, <2>4, <4>2
      <4> QED
        BY <3>1, <4>1, <4>3
    <3>3. CASE ~ (step[a] < step[b])
      <4>1. b \in group
        BY <2>3, <2>10, <3>1, <3>3
      <4>2. step[a] = step[b] /\ NextUpdate(a) = NextUpdate(b)
        BY <2>8, <3>1, <3>3, <4>1
      <4> QED
        BY <2>4, <3>1, <4>1, <4>2
    <3> QED
      BY <3>2, <3>3
  <2>11. ASSUME NEW a \in Ranks, NEW b \in Ranks, NEW i \in Nat \ {0}, i <= step'[a], i <= step'[b]
         PROVE  params'[a][i] = params'[b][i]
    <3>1. \A q \in Ranks : i <= step'[q] =>
            \/ i <= step[q] /\ params'[q][i] = params[q][i]
            \/ q \in group /\ i = step[q] + 1 /\ params'[q][i] = NextUpdate(q)
      <4> TAKE q \in Ranks
      <4> HAVE i <= step'[q]
      <4>1. CASE i <= step[q]
        <5>1. i \in 1..step[q]
          BY <1>0, <4>1
        <5> QED
          BY <2>3, <2>4, <4>1, <5>1
      <4>2. CASE ~ (i <= step[q])
        <5>1. step[q] \in Nat /\ i \in Nat
          BY <1>0
        <5>2. q \in group /\ step'[q] = step[q] + 1
          BY <2>3, <4>2
        <5>3. i = step[q] + 1
          BY <4>2, <5>1, <5>2
        <5> QED
          BY <2>4, <5>2, <5>3
      <4> QED
        BY <4>1, <4>2
    <3>2. \A p, q \in Ranks : p \in group /\ i = step[p] + 1 /\ i <= step[q]
            => params[q][i] = NextUpdate(p)
      <4> TAKE p, q \in Ranks
      <4> HAVE p \in group /\ i = step[p] + 1 /\ i <= step[q]
      <4>1. step[p] < step[q] /\ pc[p] \in Summed
        BY <1>0, <2>1 DEF Summed
      <4> QED
        BY <2>0, <4>1 DEF AgreeInv
    <3>3. CASE i <= step[a] /\ params'[a][i] = params[a][i] /\ i <= step[b] /\ params'[b][i] = params[b][i]
      BY <2>0, <3>3 DEF AgreeInv
    <3>4. CASE /\ a \in group /\ i = step[a] + 1 /\ params'[a][i] = NextUpdate(a)
               /\ i <= step[b] /\ params'[b][i] = params[b][i]
      BY <3>2, <3>4
    <3>5. CASE /\ b \in group /\ i = step[b] + 1 /\ params'[b][i] = NextUpdate(b)
               /\ i <= step[a] /\ params'[a][i] = params[a][i]
      BY <3>2, <3>5
    <3>6. CASE a \in group /\ b \in group /\ params'[a][i] = NextUpdate(a) /\ params'[b][i] = NextUpdate(b)
      BY <2>9, <3>6
    <3> QED
      BY <2>11, <3>1, <3>3, <3>4, <3>5, <3>6
  <2>12. AgreeInv'
    <3>1. \A q \in Ranks : pc'[q] \in Summed => NextUpdate(q)' = NextUpdate(q) /\ pc[q] \in Summed
      BY <1>1, <2>2, <2>3 DEF NextUpdate, Update, get_lr, Summed
    <3>2. \A a, b \in Ranks : pc'[a] \in Summed /\ pc'[b] \in Summed => grads'[a] = grads'[b]
      BY <2>0, <2>2, <3>1 DEF AgreeInv
    <3>3. \A a, b \in Ranks : pc'[a] \in Summed /\ step'[a] < step'[b]
            => params'[b][step'[a] + 1] = NextUpdate(a)'
      BY <2>10, <3>1
    <3>4. \A a, b \in Ranks, i \in Nat \ {0} :
            i <= step'[a] /\ i <= step'[b] => params'[a][i] = params'[b][i]
      BY <2>11
    <3> QED
      BY <1>1, <3>2, <3>3, <3>4 DEF AgreeInv
  <2> QED
    BY <1>1, <1>2, <1>4, <2>5, <2>6, <2>7, <2>12 DEF ReplicaInv, ModelInv
<1> QED
  BY <1>3, <1>4

LEMMA ReplicaInvInit == Init => ReplicaInv
<1> SUFFICES ASSUME Init PROVE ReplicaInv
  OBVIOUS
<1>1. DataInv
  BY DataInvInit
<1>2. TrainTypeOK /\ args.num_iterations \in Nat
  BY <1>1, ArgsFacts DEF DataInv
<1>3. \A r \in Ranks : pc[r] = "load" /\ step[r] = 0 /\ grads[r] = {} /\ params[r] = <<>>
  BY DEF Init, TrainInit
<1>4. StepInv
  BY <1>2, <1>3 DEF StepInv, Summing, Summed
<1>5. GradInv /\ InferenceInv
  BY <1>3 DEF GradInv, InferenceInv, Summing, Summed
<1>6. UpdateInv
  BY <1>3 DEF UpdateInv
<1>7. LockstepInv
  BY <1>3 DEF LockstepInv, GradRounds, LossRounds, Summed
<1>8. AgreeInv
  <2>1. \A i \in Nat \ {0} : ~ (i <= 0)
    OBVIOUS
  <2> QED
    BY <1>3, <2>1 DEF AgreeInv, Summed
<1> QED
  BY <1>1, <1>4, <1>5, <1>6, <1>7, <1>8 DEF ReplicaInv, ModelInv

LEMMA ReplicaInvInductive == ReplicaInv /\ [Next]_trainingVars => ReplicaInv'
<1> SUFFICES ASSUME ReplicaInv, [Next]_trainingVars PROVE ReplicaInv'
  OBVIOUS
<1>1. DataInv'
  BY DataInvInductive DEF ReplicaInv
<1>2. CASE UNCHANGED trainVars
  <2>1. UNCHANGED <<args, pc, step, micro_step, grads, params>>
    BY <1>2 DEF trainVars
  <2> QED
    BY <1>1, <2>1, QuietOK
<1>3. ASSUME NEW r \in Ranks, RankNext(r)
      PROVE  ReplicaInv'
  BY <1>1, <1>3, ReplicaInvQuiet, ReplicaInvBeginTraining, ReplicaInvReduceLoss,
     ReplicaInvBackward, ReplicaInvOptimize DEF RankNext
<1> QED
  BY <1>2, <1>3 DEF Next, trainingVars

LEMMA SpecKeepsReplicas == Spec => []ReplicaInv
BY ReplicaInvInit, ReplicaInvInductive, PTL DEF Spec

(***************************************************************************)
(* Every update is made of one contribution of every rank and micro-step,  *)
(* computed with the parameters it is applied to, at a positive rate: for  *)
(* every number of ranks, of micro-steps and of warmup iterations, with    *)
(* and without the ZeRO optimizer.                                         *)
(***************************************************************************)
THEOREM UpdatesAreWhole == Spec => []StepUsesWholeBatch
<1>1. ReplicaInv => StepUsesWholeBatch
  <2> SUFFICES ASSUME ReplicaInv, NEW r \in Ranks, NEW i \in DOMAIN params[r], NEW p \in Ranks
               PROVE  LET update == params[r][i]
                          part == update.parts[p]
                      IN /\ {<<c.rank, c.micro_step>> : c \in part}
                              = Ranks \X (0..(args.grad_accum_steps - 1))
                         /\ Cardinality(part) = args.world * args.grad_accum_steps
                         /\ \A c \in part : c.version = i - 1
                         /\ update.lr.phase = "warmup" => 0 < update.lr.num /\ update.lr.num <= update.lr.den
                         /\ update.lr.phase = "decay" => 0 <= update.lr.num /\ update.lr.num < update.lr.den
    BY DEF StepUsesWholeBatch
  <2> DEFINE part == params[r][i].parts[p]
  <2>1. /\ TrainTypeOK /\ args.num_iterations \in Nat /\ step[r] \in Nat
        /\ params[r] \in Seq(Updates)
    BY ReplicaFacts
  <2>2. /\ args.world \in Nat \ {0} /\ args.grad_accum_steps \in Nat \ {0}
        /\ args.warmup_iters \in Nat /\ Ranks = 0..(args.world - 1)
    BY <2>1, ArgsFacts
  <2>3. ~ args.inference_only
    BY DEF ReplicaInv, ModelInv, InferenceInv
  <2>4. i \in 1..step[r]
    <3>1. Len(params[r]) = step[r]
      BY <2>3 DEF ReplicaInv, ModelInv, UpdateInv
    <3> HIDE DEF Updates
    <3> QED
      BY <2>1, <3>1
  <2>5. params[r][i].lr = get_lr(i - 1) /\ WholeBatch(part, Ranks, Micros, i - 1)
    BY <2>3, <2>4 DEF ReplicaInv, ModelInv, UpdateInv
  <2>6. /\ {<<c.rank, c.micro_step>> : c \in part} = Ranks \X (0..(args.grad_accum_steps - 1))
        /\ Cardinality(part) = args.world * args.grad_accum_steps
    <3> HIDE DEF part
    <3>1. WholeBatch(part, 0..(args.world - 1), 0..(args.grad_accum_steps - 1), i - 1)
      BY <2>2, <2>5 DEF Micros
    <3> QED
      BY <2>2, <3>1, WholeBatchCount
  <2>7. \A c \in part : c.version = i - 1
    BY <2>5 DEF WholeBatch
  <2>8. step[r] <= args.num_iterations
    BY DEF ReplicaInv, StepInv
  <2>9. i - 1 \in Nat /\ i - 1 < args.num_iterations
    BY <2>1, <2>4, <2>8
  <2>10. LET rate == get_lr(i - 1)
         IN /\ rate.phase = "warmup" => 0 < rate.num /\ rate.num <= rate.den
            /\ rate.phase = "decay" => 0 <= rate.num /\ rate.num < rate.den
    BY <2>1, <2>2, <2>9 DEF get_lr
  <2> HIDE DEF part
  <2>11. LET rate == params[r][i].lr
         IN /\ rate.phase = "warmup" => 0 < rate.num /\ rate.num <= rate.den
            /\ rate.phase = "decay" => 0 <= rate.num /\ rate.num < rate.den
    BY <2>5, <2>10
  <2> QED
    BY <2>6, <2>7, <2>11 DEF part
<1> QED
  BY <1>1, SpecKeepsReplicas, PTL

(***************************************************************************)
(* The copies of the model never diverge, however the ranks interleave and *)
(* whichever of them have failed.                                          *)
(***************************************************************************)
THEOREM ReplicasStayEqual == Spec => []ReplicasAgree
<1>1. ReplicaInv => ReplicasAgree
  <2> SUFFICES ASSUME ReplicaInv, NEW r \in Ranks, NEW q \in Ranks
               PROVE  IsPrefix(params[r], params[q]) \/ IsPrefix(params[q], params[r])
    BY DEF ReplicasAgree
  <2>1. \A p \in Ranks : params[p] \in Seq(Updates) /\ Len(params[p]) \in Nat
    BY ReplicaFacts
  <2>2. ASSUME NEW a \in Ranks, NEW b \in Ranks, Len(params[a]) <= Len(params[b])
        PROVE  IsPrefix(params[a], params[b])
    <3>1. \A i \in 1..Len(params[a]) : params[a][i] = params[b][i]
      <4>1. CASE args.inference_only
        BY <4>1 DEF ReplicaInv, ModelInv, InferenceInv
      <4>2. CASE ~ args.inference_only
        <5>1. Len(params[a]) = step[a] /\ Len(params[b]) = step[b]
          BY <4>2 DEF ReplicaInv, ModelInv, UpdateInv
        <5>2. \A i \in 1..Len(params[a]) : i \in Nat \ {0} /\ i <= step[a] /\ i <= step[b]
          BY <2>1, <2>2, <5>1
        <5> QED
          BY <4>2, <5>2 DEF ReplicaInv, ModelInv, AgreeInv
      <4> QED
        BY <4>1, <4>2
    <3>2. SubSeq(params[a], 1, Len(params[a])) = SubSeq(params[b], 1, Len(params[a]))
      BY <3>1, <2>1, <2>2
    <3> QED
      BY <2>2, <3>2 DEF IsPrefix
  <2>3. Len(params[r]) <= Len(params[q]) \/ Len(params[q]) <= Len(params[r])
    BY <2>1
  <2> QED
    BY <2>2, <2>3
<1> QED
  BY <1>1, SpecKeepsReplicas, PTL

=============================================================================
