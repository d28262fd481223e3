------------------------------ MODULE Weights ------------------------------
(***************************************************************************)
(* The weights on their way through the Python programs: imported from a   *)
(* published checkpoint (GPT.from_pretrained, the two importers of LLaMA), *)
(* written as a .bin file (write_model), and, for GPT-2, exported to the   *)
(* Hugging Face format again (dev/eval/export_hf.py).  Operators only.     *)
(*                                                                         *)
(* A parameter's name is a pair of its kind and its layer (0 outside the   *)
(* layers).  A tensor says what it holds: the parameter it came from, the  *)
(* number of training steps made, its precision, its shape, and whether it *)
(* is transposed against the layout the programs compute with.             *)
(***************************************************************************)
EXTENDS Integers, Sequences, FiniteSets, SequencesExt

CONSTANTS
  L,          \* number of layers
  V,          \* vocabulary; 50,257 in the code
  PadTo,      \* its padding; 128 in the code
  Channels,   \* C, the width of the model
  MaxT,       \* positions
  Heads, KVHeads, HeadDim  \* Llama's attention

ASSUME WeightsAssumption ==
  /\ {L, V, PadTo, Channels, MaxT, Heads, KVHeads, HeadDim} \subseteq Nat \ {0}
  /\ HeadDim % 2 = 0 /\ Heads % KVHeads = 0
  \* the exporter tells the embedding by its padded number of rows alone
  /\ V % PadTo # 0 /\ (V \div PadTo + 1) * PadTo \notin {L, MaxT, Channels}

Layers == 1..L

-----------------------------------------------------------------------------
(***************************************************************************)
(* Names and their order in the .bin files: all layers of a kind together. *)
(***************************************************************************)
GPT2Order ==
  [first |-> <<"wte.weight", "wpe.weight">>,
   layers |-> <<"ln_1.weight", "ln_1.bias", "attn.c_attn.weight", "attn.c_attn.bias",
                "attn.c_proj.weight", "attn.c_proj.bias", "ln_2.weight", "ln_2.bias",
                "mlp.c_fc.weight", "mlp.c_fc.bias", "mlp.c_proj.weight", "mlp.c_proj.bias">>,
   last |-> <<"ln_f.weight", "ln_f.bias">>]
LlamaOrder ==
  [first |-> <<"wte.weight">>,
   layers |-> <<"ln_1.weight", "attn.c_attn.weight", "attn.c_proj.weight", "ln_2.weight",
                "mlp.c_fc.weight", "mlp.c_fc2.weight", "mlp.c_proj.weight">>,
   last |-> <<"ln_f.weight", "lm_head.weight">>]

\* The names in the order write_tensors writes them.
WriteOrder_LayerByLayer(order) ==
  [k \in DOMAIN order.first |-> <<order.first[k], 0>>]
  \o FlattenSeq([i \in Layers |-> [k \in DOMAIN order.layers |-> <<order.layers[k], i>>]])
  \o [k \in DOMAIN order.last |-> <<order.last[k], 0>>]
WriteOrder(order) ==
  [k \in DOMAIN order.first |-> <<order.first[k], 0>>]
  \o FlattenSeq([k \in DOMAIN order.layers |-> [i \in Layers |-> <<order.layers[k], i>>]])
  \o [k \in DOMAIN order.last |-> <<order.last[k], 0>>]

OrderOf(src) == IF src = "gpt2" THEN GPT2Order ELSE LlamaOrder
Names(src) == Range(WriteOrder(OrderOf(src)))

-----------------------------------------------------------------------------
(***************************************************************************)
(* GPT-2.                                                                  *)
(***************************************************************************)
\* The shapes of GPT's parameters, rows and columns.
C == Channels
Shape(kind) ==
  CASE kind = "wte.weight" -> <<V, C>>
    [] kind = "wpe.weight" -> <<MaxT, C>>
    [] kind = "attn.c_attn.weight" -> <<3 * C, C>>
    [] kind = "attn.c_attn.bias" -> <<3 * C, 1>>
    [] kind = "attn.c_proj.weight" -> <<C, C>>
    [] kind = "mlp.c_fc.weight" -> <<4 * C, C>>
    [] kind = "mlp.c_fc.bias" -> <<4 * C, 1>>
    [] kind = "mlp.c_proj.weight" -> <<C, 4 * C>>
    [] OTHER -> <<C, 1>>

Transposed(t) == [t EXCEPT !.shape = <<@[2], @[1]>>, !.transposed = ~@]

\* The layers that are a Conv1D in the published model, a Linear here.
ConvKinds == {"attn.c_attn.weight", "attn.c_proj.weight", "mlp.c_fc.weight", "mlp.c_proj.weight"}

Linear(name, n) ==
  [of |-> name, step |-> n, dtype |-> "float32", shape |-> Shape(name[1]), transposed |-> FALSE]
Published(name, n) ==
  IF name[1] \in ConvKinds THEN Transposed(Linear(name, n)) ELSE Linear(name, n)

\* The weights to transpose on the way in: a list of name endings.
ToTranspose == {"attn.c_attn.weight", "attn.c_proj.weight", "mlp.c_fc.weight", "mlp.c_proj.weight"}

\* from_pretrained copies name by name, and asserts that the shapes agree.
FromPretrained ==
  [name \in Names("gpt2") |->
     IF name[1] \in ToTranspose THEN Transposed(Published(name, 0)) ELSE Published(name, 0)]
\* (the assertion of the copy)
ShapesAgree(params) == \A name \in DOMAIN params : params[name].shape = Shape(name[1])

\* pad_vocab: the number of rows rounded up, only written, never computed with.
Vp == ((V + PadTo - 1) \div PadTo) * PadTo
PadVocab(t) == [t EXCEPT !.shape = <<Vp, @[2]>>]

-----------------------------------------------------------------------------
(***************************************************************************)
(* Llama.  The weights of a projection are given as the sequence of their  *)
(* rows, because the two published forms differ in the rows' order.        *)
(***************************************************************************)
Rows(matrix, i, n) == [j \in 1..n |-> <<matrix, i, j>>]
NEmbd == Heads * HeadDim

\* unpermute of n_heads heads: of each head, two halves become alternating rows.  The
\* first is the permutation of the published Hugging Face form, which it must undo.
HFPermuted(w, n_heads) ==
  LET hd == Len(w) \div n_heads
  IN [j \in DOMAIN w |->
        LET h == (j - 1) \div hd  x == (j - 1) % hd
        IN w[h * hd + (x % (hd \div 2)) * 2 + x \div (hd \div 2) + 1]]
Unpermute_OneHead(w, n_heads) ==
  LET hd == Len(w)
  IN [j \in DOMAIN w |-> w[((j - 1) % 2) * (hd \div 2) + (j - 1) \div 2 + 1]]
Unpermute(w, n_heads) ==
  LET hd == Len(w) \div n_heads
  IN [j \in DOMAIN w |->
        LET h == (j - 1) \div hd  x == (j - 1) % hd
        IN w[h * hd + (x % 2) * (hd \div 2) + x \div 2 + 1]]

\* What is published, by Meta's names and by Hugging Face's.
MetaCheckpoint ==
  [name \in {<<k, 0>> : k \in {"tok_embeddings", "norm", "output"}}
            \cup ({"attention_norm", "ffn_norm", "wq", "wk", "wv", "wo", "w1", "w2", "w3"} \X Layers) |->
     CASE name[1] = "wq" -> Rows("wq", name[2], NEmbd)
       [] name[1] \in {"wk", "wv"} -> Rows(name[1], name[2], KVHeads * HeadDim)
       [] OTHER -> <<name>>]
HFNames ==
  [embed_tokens |-> "tok_embeddings", norm |-> "norm", lm_head |-> "output",
   input_layernorm |-> "attention_norm", post_attention_layernorm |-> "ffn_norm",
   q_proj |-> "wq", k_proj |-> "wk", v_proj |-> "wv", o_proj |-> "wo",
   gate_proj |-> "w1", down_proj |-> "w2", up_proj |-> "w3"]
HFCheckpoint ==
  [name \in ({"embed_tokens", "norm", "lm_head"} \X {0})
            \cup ((DOMAIN HFNames \ {"embed_tokens", "norm", "lm_head"}) \X Layers) |->
     LET w == MetaCheckpoint[<<HFNames[name[1]], name[2]>>]
     IN IF name[1] = "q_proj" THEN HFPermuted(w, Heads)
        ELSE IF name[1] = "k_proj" THEN HFPermuted(w, KVHeads) ELSE w]

\* The names both importers give to what they find: our name of each of theirs.
MetaMap ==
  [tok_embeddings |-> "wte.weight", norm |-> "ln_f.weight", output |-> "lm_head.weight",
   attention_norm |-> "ln_1.weight", ffn_norm |-> "ln_2.weight", wo |-> "attn.c_proj.weight",
   w1 |-> "mlp.c_fc2.weight", w2 |-> "mlp.c_proj.weight", w3 |-> "mlp.c_fc.weight"]
\* lm_head.weight keeps its name.
HFMap ==
  [embed_tokens |-> "wte.weight", norm |-> "ln_f.weight", lm_head |-> "lm_head.weight",
   input_layernorm |-> "ln_1.weight", post_attention_layernorm |-> "ln_2.weight",
   o_proj |-> "attn.c_proj.weight",
   gate_proj |-> "mlp.c_fc2.weight", down_proj |-> "mlp.c_proj.weight", up_proj |-> "mlp.c_fc.weight"]

\* The renamed checkpoint, with the three projections merged in one.
Adapted(checkpoint, map, qkv) ==
  LET renamed == {n \in DOMAIN checkpoint : n[1] \in DOMAIN map}
  IN [name \in {<<map[n[1]], n[2]>> : n \in renamed} \cup ({"attn.c_attn.weight"} \X Layers) |->
        IF name[1] = "attn.c_attn.weight" THEN qkv[name[2]]
        ELSE checkpoint[CHOOSE n \in renamed : <<map[n[1]], n[2]>> = name]]

AdaptLlamaStateDictKeys ==
  LET qkv == [i \in Layers |-> MetaCheckpoint[<<"wq", i>>] \o MetaCheckpoint[<<"wk", i>>]
                              \o MetaCheckpoint[<<"wv", i>>]]
  IN Adapted(MetaCheckpoint, MetaMap, qkv)
AdaptLlamaStateDictKeysHF ==
  LET qkv == [i \in Layers |-> Unpermute(HFCheckpoint[<<"q_proj", i>>], Heads)
                              \o Unpermute(HFCheckpoint[<<"k_proj", i>>], KVHeads)
                              \o HFCheckpoint[<<"v_proj", i>>]]
  IN Adapted(HFCheckpoint, HFMap, qkv)

\* load_state_dict with strict=False: a parameter the checkpoint lacks stays random, and
\* a name the model lacks is ignored.
Loaded(checkpoint) ==
  [name \in Names("llama3_meta") |->
     [of |-> IF name \in DOMAIN checkpoint THEN checkpoint[name] ELSE <<"random">>,
      step |-> 0, dtype |-> "bfloat16"]]

\* The imported model.
Imported(source) ==
  CASE source = "gpt2" -> FromPretrained
    [] source = "llama3_meta" -> Loaded(AdaptLlamaStateDictKeys)
    [] source = "llama3_hf" -> Loaded(AdaptLlamaStateDictKeysHF)

-----------------------------------------------------------------------------
(***************************************************************************)
(* The .bin file and its export.                                           *)
(***************************************************************************)
\* write_fp32 and write_bf16: rounding loses what bfloat16 cannot hold, for good.
Cast(t, dtype) == [t EXCEPT !.dtype = IF dtype = "bfloat16" THEN dtype ELSE @]

Header(dtype) ==
  [version |-> IF dtype = "float32" THEN 3 ELSE 5, maxT |-> MaxT, V |-> V, L |-> L, C |-> C, Vp |-> Vp]

\* The first n tensors write_model writes of a model.
WriteModel(source, params, dtype, n) ==
  LET order == WriteOrder(OrderOf(source))
  IN [header |-> Header(dtype),
      tensors |-> [k \in 1..n |->
                     LET t == Cast(params[order[k]], dtype)
                     IN IF source = "gpt2" /\ order[k][1] = "wte.weight" THEN PadVocab(t) ELSE t]]
TensorCount(source) == Len(WriteOrder(OrderOf(source)))

\* The keys of the exporter, in the order it reads them, with their names and shapes.
ReadKinds(header) ==
  <<<<"wte.weight", <<header.Vp, C>>>>, <<"wpe.weight", <<header.maxT, C>>>>,
    <<"ln_1.weight", <<C, 1>>>>, <<"ln_1.bias", <<C, 1>>>>,
    <<"attn.c_attn.weight", <<3 * C, C>>>>, <<"attn.c_attn.bias", <<3 * C, 1>>>>,
    <<"attn.c_proj.weight", <<C, C>>>>, <<"attn.c_proj.bias", <<C, 1>>>>,
    <<"ln_2.weight", <<C, 1>>>>, <<"ln_2.bias", <<C, 1>>>>,
    <<"mlp.c_fc.weight", <<4 * C, C>>>>, <<"mlp.c_fc.bias", <<4 * C, 1>>>>,
    <<"mlp.c_proj.weight", <<C, 4 * C>>>>, <<"mlp.c_proj.bias", <<C, 1>>>>,
    <<"ln_f.weight", <<C, 1>>>>, <<"ln_f.bias", <<C, 1>>>>>>

\* Where the tensor of the k-th key and layer i lies: keys 3 to 14 hold all layers.
Place(k, i) == IF k <= 2 THEN k ELSE IF k <= 14 THEN 2 + (k - 3) * L + i ELSE 2 + 12 * L + (k - 14)

\* The data at a place as a tensor of the key's shape: its own content if it has that
\* shape, and otherwise the mixture of tensors a cut of the wrong size gives.
Read(file, k, i) ==
  LET t == file.tensors[Place(k, i)]
      shape == ReadKinds(file.header)[k][2]
  IN IF t.shape = shape THEN t ELSE [t EXCEPT !.of = <<"mixed">>, !.shape = shape]

\* A key whose first dimension is the padded vocabulary loses its padding; that of a key
\* of all layers is L.
DropPadding(t, k, header) ==
  IF k \notin 3..14 /\ t.shape[1] = header.Vp THEN [t EXCEPT !.shape = <<header.V, @[2]>>] ELSE t

ModelDict(file) ==
  [name \in Names("gpt2") |->
     LET k == CHOOSE n \in 1..16 : ReadKinds(file.header)[n][1] = name[1]
         t == DropPadding(Read(file, k, name[2]), k, file.header)
     IN IF name[1] \in ConvKinds THEN Transposed(t) ELSE t]

\* convert reads the whole file, no less (reshape fails) and no more (an assertion).
ConvertAccepts(file) == Len(file.tensors) = 4 + 12 * L
Convert(file, out_dtype) == [name \in Names("gpt2") |-> Cast(ModelDict(file)[name], out_dtype)]
=============================================================================
