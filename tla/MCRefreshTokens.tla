-------------------------- MODULE MCRefreshTokens --------------------------
(* Instances of RefreshTokens for TLC, and a claim of the documentation that *)
(* its code does not keep.                                                   *)
EXTENDS RefreshTokens

CONSTANTS alice

MCUserOf == [f \in Families |-> alice]

\* REFERENCE.md:172: "reuse of a rotated token revokes the whole token family".
ReuseEndsFamily ==
  \A r \in Requests : pc[r] = "reused" => Live(family[token[r]]) = {}
=============================================================================
