---------------------------- MODULE Autoregress ----------------------------
(***************************************************************************)
(* What generation promises, without batch, cache or padding: each row is  *)
(* a text of its own, every token added to it is drawn from the model's    *)
(* distribution after exactly that text, and a row is returned only once   *)
(* it is full or has reached a stop token.                                 *)
(***************************************************************************)
EXTENDS Sampling

CONSTANTS Calls, NoCall

VARIABLES call, text, out
vars == <<call, text, out>>

\* The model sees the last block_size tokens.
Context(row) == SubSeq(row, IF Len(row) > BlockLength THEN Len(row) - BlockLength + 1 ELSE 1, Len(row))

Allowed(row) ==
  LET w == Probs(Context(row))
  IN  CASE call.sampling = "top_p" -> {t \in UNION Nuclei(w, call.threshold) : w[t] > 0}
        [] call.sampling = "top_k" -> TopKDraws(w, call.threshold)
        [] OTHER -> ArgMax(w)

Full(i) == Len(text[i]) = TotalLen(call)
Stopped(i) ==
  call.model = "llama" /\ \E k \in Len(call.prompts[i]) + 1 .. Len(text[i]) : text[i][k] \in StopTokens

Init == call = NoCall /\ text = << >> /\ out = << >>

Begin ==
  /\ call' \in Calls
  /\ text' = call'.prompts
  /\ out' = << >>

Extend ==
  /\ call # NoCall
  /\ DOMAIN text' = DOMAIN text
  /\ \A i \in DOMAIN text :
       \/ text'[i] = text[i]
       \/ ~ Full(i) /\ \E t \in Allowed(text[i]) : text'[i] = Append(text[i], t)
  /\ UNCHANGED <<call, out>>

Return ==
  /\ call # NoCall
  /\ \A i \in DOMAIN text : Full(i) \/ Stopped(i)
  /\ out' = [i \in DOMAIN text |-> Returned(call, i, text[i])]
  /\ UNCHANGED <<call, text>>

Next == Begin \/ Extend \/ Return
Spec == Init /\ [][Next]_vars
=============================================================================
