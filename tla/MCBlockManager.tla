--------------------------- MODULE MCBlockManager ---------------------------
(***************************************************************************)
(* Instances of BlockManager for TLC.  Blocks hold two tokens.  Two of the *)
(* prompts share their first block, a has a second cacheable block, and c  *)
(* starts with the tokens of that second block.                            *)
(***************************************************************************)
EXTENDS BlockManager, TLC

CONSTANTS a, b, c

MCRequests == {a, b, c}
MCPrompt == a :> <<1, 1, 2, 2, 1>> @@ b :> <<1, 1, 2>> @@ c :> <<2, 2, 1>>
MCMaxNewTokens == a :> 1 @@ b :> 2 @@ c :> 1
MCHonorsEos == {b}

=============================================================================
