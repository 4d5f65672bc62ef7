----------------------------- MODULE TokenChain -----------------------------
(***************************************************************************)
(* What the shop promises of a signed-in session: it is a chain of refresh *)
(* tokens, of which only the last can be exchanged, each for one new one;  *)
(* and once the session has ended no token of it works again.              *)
(***************************************************************************)
CONSTANTS Tokens, Families, NoToken, NoFamily

VARIABLES
  family,     \* the session of each token, NoFamily before it is issued
  current     \* the token of each session that works, NoToken if none does

Init ==
  /\ family = [t \in Tokens |-> NoFamily]
  /\ current = [f \in Families |-> NoToken]

Extend(f, t) ==
  /\ family[t] = NoFamily
  /\ family' = [family EXCEPT ![t] = f]
  /\ current' = [current EXCEPT ![f] = t]

Open(f, t) == (\A s \in Tokens : family[s] # f) /\ Extend(f, t)

Rotate(f, t) == current[f] # NoToken /\ Extend(f, t)

End(ended) ==
  /\ current' = [f \in Families |-> IF f \in ended THEN NoToken ELSE current[f]]
  /\ UNCHANGED family

Next ==
  \/ \E f \in Families, t \in Tokens : Open(f, t) \/ Rotate(f, t)
  \/ \E ended \in SUBSET Families : End(ended)

Spec == Init /\ [][Next]_<<family, current>>
=============================================================================
