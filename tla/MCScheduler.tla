---------------------------- MODULE MCScheduler ----------------------------
(***************************************************************************)
(* Instances of Scheduler for TLC: blocks of two tokens.  a and b share    *)
(* two prompt blocks, d (whose prompt ends at a block boundary) the first  *)
(* of them, and c starts with the tokens of their second block.            *)
(***************************************************************************)
EXTENDS Scheduler, TLC

CONSTANTS a, b, c, d

MCRequests == {a, b, c, d}
MCFewRequests == {a, b, c}

Catalogue ==
  a :> [prompt |-> <<1, 1, 2, 2, 2>>, max_new_tokens |-> 1] @@
  b :> [prompt |-> <<1, 1, 2, 2, 1>>, max_new_tokens |-> 3] @@
  c :> [prompt |-> <<2, 2, 1>>,       max_new_tokens |-> 2] @@
  d :> [prompt |-> <<1, 1, 2, 2>>,    max_new_tokens |-> 2]

MCPrompt == [r \in Requests |-> Catalogue[r].prompt]
MCMaxNewTokens == [r \in Requests |-> Catalogue[r].max_new_tokens]
MCHonorsEos == {b}

\* No request computes more than MCMaxComputed tokens: the last one is never fed back.
MCMaxComputed == 7
ASSUME MCRequestsBounded ==
  \A r \in Requests : PromptLen(r) + MaxNewTokens[r] - 1 <= MCMaxComputed

=============================================================================
