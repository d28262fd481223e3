------------------------------ MODULE Serving ------------------------------
(***************************************************************************)
(* What the user of any of the engines sees, and nothing else: a request   *)
(* is accepted once, its tokens come one at a time and are never taken     *)
(* back, and it is finished with the token that meets its stop condition,  *)
(* for good.  The engines (src/mini_vllm/) are shown to implement this.    *)
(***************************************************************************)
EXTENDS Naturals

CONSTANTS Requests, MaxNewTokens, HonorsEos

VARIABLES
  phase,    \* how the request looks through its handle
  generated \* num_completion_tokens() of the handle's sequence

Init ==
  /\ phase = [r \in Requests |-> "unknown"]
  /\ generated = [r \in Requests |-> 0]

Submit(r) ==
  /\ phase[r] = "unknown"
  /\ phase' = [phase EXCEPT ![r] = "accepted"]
  /\ UNCHANGED generated

\* The next token.  A request stops at its limit or at its end-of-sequence token.
Generate(r) ==
  /\ phase[r] = "accepted"
  /\ generated' = [generated EXCEPT ![r] = @ + 1]
  /\ \/ /\ generated[r] + 1 < MaxNewTokens[r]
        /\ UNCHANGED phase
     \/ /\ generated[r] + 1 = MaxNewTokens[r] \/ r \in HonorsEos
        /\ phase' = [phase EXCEPT ![r] = "finished"]

Next == \E r \in Requests : Submit(r) \/ Generate(r)

Spec == Init /\ [][Next]_<<phase, generated>>

=============================================================================
