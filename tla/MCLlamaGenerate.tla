-------------------------- MODULE MCLlamaGenerate --------------------------
(***************************************************************************)
(* Five tokens: 0 pads, 1 begins a text, 4 ends it, 2 and 3 are words; a   *)
(* text of at most five, a cache of two rows.  The weights are in tenths.  *)
(***************************************************************************)
EXTENDS LlamaGenerate

\* The weights move with the text: a clear favourite, a tie for the second place, or a
\* nearly certain end.
MCProbs(s) ==
  LET h == (FoldSeq(LAMBDA t, n : n + t, Len(s), s)) % 3
  IN  CASE h = 0 -> (0 :> 0 @@ 1 :> 0 @@ 2 :> 5 @@ 3 :> 2 @@ 4 :> 3)
        [] h = 1 -> (0 :> 0 @@ 1 :> 0 @@ 2 :> 2 @@ 3 :> 6 @@ 4 :> 2)
        [] h = 2 -> (0 :> 0 @@ 1 :> 1 @@ 2 :> 1 @@ 3 :> 1 @@ 4 :> 7)

Llama(prompts, n, sampling, threshold, echo) ==
  [model |-> "llama", prompts |-> prompts, max_gen_len |-> n, sampling |-> sampling,
   threshold |-> threshold, echo |-> echo]

MCValidationRow == <<3, 2, 3, 2, 2>>

\* Two prompts of different lengths; a single one, greedily, up to the end of the block; a
\* full block; too many prompts; too long a prompt; and GPT-2 beyond its block.
MCCalls ==
  {Llama(<<<<1, 2>>, <<1, 2, 3>>>>, 2, "top_p", 7, FALSE),
   Llama(<<<<1, 3>>, <<2>>>>, 3, "top_p", 6, FALSE),
   Llama(<<<<2, 3>>>>, 9, "argmax", 0, TRUE),
   Llama(<<<<2, 2, 3, 3, 2>>>>, 1, "argmax", 0, FALSE),
   Llama(<<<<2>>, <<2>>, <<3>>>>, 1, "argmax", 0, FALSE),
   Llama(<<<<2, 2, 2, 3, 3, 2>>>>, 1, "argmax", 0, FALSE),
   [Llama(<<<<1, 2, 3, 2>>>>, 3, "top_k", 2, FALSE) EXCEPT !.model = "gpt2"]}

\* Two endings: a long one, right by its average only; the same, first; one of two that
\* are as long, answered wrongly; and one too long for its row in a file that is not.
MCExamples ==
  {[ctx |-> <<1, 2>>, endings |-> <<<<3>>, <<3, 2>>>>, label |-> 1],
   [ctx |-> <<1, 1>>, endings |-> <<<<3, 2>>, <<4>>>>, label |-> 0],
   [ctx |-> <<3>>, endings |-> <<<<3, 2>>, <<4, 3>>>>, label |-> 1],
   [ctx |-> <<2>>, endings |-> <<<<4>>, <<2, 2, 3, 3>>>>, label |-> 0]}
\* Batches of one, two and (with a row to spare) two examples, for one to four processes.
MCEvalConfigs == [B : {2, 4, 5}, T : {5}, num_processes : 1 .. 4]
=============================================================================
