----------------------------- MODULE MCPDEngine -----------------------------
(***************************************************************************)
(* Instances of PDEngine for TLC: pages of two tokens.  D's pool holds any *)
(* one of a, b and c, and b with c; a may end with its first token, which  *)
(* P generates; and e does not fit D.                                      *)
(***************************************************************************)
EXTENDS PDEngine, TLC

CONSTANTS a, b, c, e

MCRequests == {a, b, c, e}

Catalogue ==
  a :> [prompt |-> <<1, 2, 3>>, max_new_tokens |-> 3] @@
  b :> [prompt |-> <<4, 5>>,    max_new_tokens |-> 3] @@
  c :> [prompt |-> <<1, 5>>,    max_new_tokens |-> 2] @@
  e :> [prompt |-> <<1, 2>>,    max_new_tokens |-> 8]

MCPrompt == [r \in Requests |-> Catalogue[r].prompt]
MCMaxNewTokens == [r \in Requests |-> Catalogue[r].max_new_tokens]
MCHonorsEos == {a}

=============================================================================
