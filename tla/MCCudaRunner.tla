---------------------------- MODULE MCCudaRunner ----------------------------
(***************************************************************************)
(* Two requests on interleaved pages, three tokens a page: one with a      *)
(* prompt that takes two pages, one with a prompt of one token that then   *)
(* decodes.  Up to three rows and two items a run, in all four modes.      *)
(***************************************************************************)
EXTENDS CudaRunner

CONSTANTS a, b

MCPromptLen == a :> 4 @@ b :> 1
MCTotal == a :> 5 @@ b :> 3
MCTable == a :> <<2, 0>> @@ b :> <<1>>
MCModes == BOOLEAN \X BOOLEAN
=============================================================================
