------------------------------ MODULE MCEngine ------------------------------
(***************************************************************************)
(* Instances of Engine for TLC: blocks of two tokens.  a and b share two   *)
(* prompt blocks, c starts with the tokens of the second one, and e does   *)
(* not fit the context.                                                    *)
(***************************************************************************)
EXTENDS Engine, TLC

CONSTANTS a, b, c, e

MCRequests == {a, b, c, e}

Catalogue ==
  a :> [prompt |-> <<1, 1, 2, 2, 2>>, max_new_tokens |-> 2] @@
  b :> [prompt |-> <<1, 1, 2, 2, 1>>, max_new_tokens |-> 2] @@
  c :> [prompt |-> <<2, 2, 1>>,       max_new_tokens |-> 1] @@
  e :> [prompt |-> <<1, 1, 2>>,       max_new_tokens |-> 5]

MCPrompt == [r \in Requests |-> Catalogue[r].prompt]
MCMaxNewTokens == [r \in Requests |-> Catalogue[r].max_new_tokens]
MCHonorsEos == {a}

=============================================================================
