--------------------------- MODULE RefreshTokens ---------------------------
(***************************************************************************)
(* Refresh tokens: logins start a family, every refresh exchanges a token  *)
(* for the next of its family, and a logout, a password reset or the       *)
(* second use of a token revokes.  Requests race: the tabs of a browser    *)
(* share one cookie, and a lost response leaves a client with a used token.*)
(*                                                                         *)
(* The exchange is a Postgres transaction whose first statement claims the *)
(* row and keeps its lock until the commit; a revocation is one UPDATE,    *)
(* which chooses its rows when it starts and waits for those that are      *)
(* locked.  It does not see rows committed after it started.               *)
(***************************************************************************)
EXTENDS Naturals, FiniteSets

CONSTANTS
  Tokens, Families,
  Users, UserOf,      \* UserOf[f]: the user who signed in
  Requests,           \* bound: the refresh, logout and reset calls of a behaviour
  MaxExpired,         \* bound: tokens whose seven days pass
  NoToken, NoFamily, Free

VARIABLES
  family,      \* familyId of each row, NoFamily if there is no row
  revoked,     \* rows with revokedAt
  successor,   \* replacedById
  expired,     \* rows past expiresAt
  lock,        \* who holds the lock of each row
  pc,
  token,       \* the token that a refresh presented
  chosen,      \* the rows that a revocation chose when it started
  ended        \* history: the sessions that an answered revocation was to end,
               \* but for those whose chosen token was exchanged while it waited

vars == <<family, revoked, successor, expired, lock, pc, token, chosen, ended>>
rows == <<family, revoked, successor, expired>>

Waiting == {"claim", "issue", "reuse", "revokeFamily", "revokeOne", "revokeAll"}
Answered == {"rotated", "expired", "reused", "loggedOut", "reset", "failed"}

ASSUME TokensAssumption ==
  /\ UserOf \in [Families -> Users]
  /\ NoToken \notin Tokens
  /\ NoFamily \notin Families
  /\ Free \notin Requests
  /\ MaxExpired \in Nat

Rows == {t \in Tokens : family[t] # NoFamily}

TypeOK ==
  /\ family \in [Tokens -> Families \cup {NoFamily}]
  /\ revoked \subseteq Rows
  /\ successor \in [Tokens -> Tokens \cup {NoToken}]
  /\ expired \subseteq Tokens
  /\ lock \in [Tokens -> Requests \cup {Free}]
  /\ pc \in [Requests -> {"idle"} \cup Waiting \cup Answered]
  /\ token \in [Requests -> Tokens \cup {NoToken}]
  /\ chosen \in [Requests -> SUBSET Rows]
  /\ ended \subseteq Families

Init ==
  /\ family = [t \in Tokens |-> NoFamily]
  /\ revoked = {}
  /\ successor = [t \in Tokens |-> NoToken]
  /\ expired = {}
  /\ lock = [t \in Tokens |-> Free]
  /\ pc = [r \in Requests |-> "idle"]
  /\ token = [r \in Requests |-> NoToken]
  /\ chosen = [r \in Requests |-> {}]
  /\ ended = {}

\* A new token is random and like any other: one that has no row yet.
Fresh == CHOOSE t \in Tokens : t \notin Rows
LiveOfAnyone(f) == {t \in Tokens : t \notin revoked}
Live(f) == {t \in Tokens : family[t] = f /\ t \notin revoked}

\* A login, registration or OAuth callback starts a family.
IssuePair(f) ==
  /\ \A t \in Tokens : family[t] # f
  /\ Rows # Tokens
  /\ family' = [family EXCEPT ![Fresh] = f]
  /\ UNCHANGED <<revoked, successor, expired, lock, pc, token, chosen, ended>>

Expire(t) ==
  /\ t \in Rows \ expired
  /\ Cardinality(expired) < MaxExpired
  /\ expired' = expired \cup {t}
  /\ UNCHANGED <<family, revoked, successor, lock, pc, token, chosen, ended>>

\* rotate reads the presented row and rejects one that was used or has expired.
Present(r, t) ==
  /\ pc[r] = "idle"
  /\ t \in Rows
  /\ token' = [token EXCEPT ![r] = t]
  /\ pc' = [pc EXCEPT ![r] = IF t \in revoked \/ successor[t] # NoToken THEN "reuse"
                             ELSE IF t \in expired THEN "expired"
                             ELSE "claim"]
  /\ UNCHANGED <<rows, lock, chosen, ended>>

\* The conditional update is what makes a token single-use.
ClaimableIfIssued(t) == family[t] # NoFamily
Claimable(t) == t \notin revoked /\ successor[t] = NoToken

\* A lost race is tried again.
ClaimAgain(r) ==
  /\ pc[r] = "claim"
  /\ lock[token[r]] = Free
  /\ Claimable(token[r])
  /\ lock' = [lock EXCEPT ![token[r]] = r]
  /\ pc' = [pc EXCEPT ![r] = "issue"]
  /\ UNCHANGED <<rows, token, chosen, ended>>
Claim(r) ==
  /\ pc[r] = "claim"
  /\ lock[token[r]] = Free
  /\ IF Claimable(token[r])
     THEN /\ lock' = [lock EXCEPT ![token[r]] = r]
          /\ pc' = [pc EXCEPT ![r] = "issue"]
     ELSE /\ pc' = [pc EXCEPT ![r] = "reuse"]
          /\ UNCHANGED lock
  /\ UNCHANGED <<rows, token, chosen, ended>>

Released(r) == [t \in Tokens |-> IF lock[t] = r THEN Free ELSE lock[t]]

\* The rest of the transaction, as others see it: its commit.
Issue(r) ==
  /\ pc[r] = "issue"
  /\ Rows # Tokens
  /\ family' = [family EXCEPT ![Fresh] = family[token[r]]]
  /\ revoked' = revoked \cup {token[r]}
  /\ successor' = [successor EXCEPT ![token[r]] = Fresh]
  /\ lock' = Released(r)
  /\ pc' = [pc EXCEPT ![r] = "rotated"]
  /\ UNCHANGED <<expired, token, chosen, ended>>

\* An UPDATE that revokes: it chooses its rows ...
StartRevoking(r, targets, step) ==
  /\ chosen' = [chosen EXCEPT ![r] = targets \ revoked]
  /\ pc' = [pc EXCEPT ![r] = step]
  /\ UNCHANGED <<rows, lock, token, ended>>

RevokeFamily(r) ==
  /\ pc[r] = "reuse"
  /\ StartRevoking(r, Live(family[token[r]]), "revokeFamily")

RevokeRefreshToken(r, t) ==
  /\ pc[r] = "idle"
  /\ t \in Rows
  /\ StartRevoking(r, {t}, "revokeOne")

\* resetPassword's transaction, of which only this statement concerns sessions.
ResetPassword(r, u) ==
  /\ pc[r] = "idle"
  /\ StartRevoking(r, UNION {Live(f) : f \in {g \in Families : UserOf[g] = u}}, "revokeAll")

RolledBack(r) == IF pc[r] = "revokeFamily" THEN revoked ELSE revoked \cup chosen[r]
RevokedBy(r) == revoked \cup chosen[r]

\* The sessions that it is to end, and those of them in which a rotation that
\* held the lock of a chosen row has meanwhile exchanged it.
Covers(r) == {family[t] : t \in chosen[r]} \cup
             (IF pc[r] = "revokeFamily" THEN {family[token[r]]} ELSE {})
BeatenTo(r) == {family[t] : t \in {s \in chosen[r] : successor[s] # NoToken}}

\* ... and revokes them once it has their locks.
FinishRevoking(r) ==
  /\ pc[r] \in {"revokeFamily", "revokeOne", "revokeAll"}
  /\ \A t \in chosen[r] : lock[t] = Free
  /\ revoked' = RevokedBy(r)
  /\ ended' = ended \cup (Covers(r) \ BeatenTo(r))
  /\ pc' = [pc EXCEPT ![r] = CASE pc[r] = "revokeFamily" -> "reused"
                               [] pc[r] = "revokeOne" -> "loggedOut"
                               [] pc[r] = "revokeAll" -> "reset"]
  /\ UNCHANGED <<family, successor, expired, lock, token, chosen>>

\* A database error or a restart rolls back whatever the request was doing.
Fail(r) ==
  /\ pc[r] \in Waiting
  /\ lock' = Released(r)
  /\ pc' = [pc EXCEPT ![r] = "failed"]
  /\ UNCHANGED <<rows, token, chosen, ended>>

Next ==
  \/ \E f \in Families : IssuePair(f)
  \/ \E t \in Tokens : Expire(t)
  \/ \E r \in Requests :
       \/ \E t \in Tokens : Present(r, t) \/ RevokeRefreshToken(r, t)
       \/ \E u \in Users : ResetPassword(r, u)
       \/ Claim(r) \/ Issue(r) \/ RevokeFamily(r) \/ FinishRevoking(r) \/ Fail(r)

Spec == Init /\ [][Next]_vars

\* The database runs the statements it is sent.
Fairness ==
  \A r \in Requests :
    WF_vars(Claim(r) \/ Issue(r) \/ RevokeFamily(r) \/ FinishRevoking(r))
FairSpec == Spec /\ Fairness

-----------------------------------------------------------------------------
\* Only one token of a session works at any time: however many requests present
\* the same token at once, it is exchanged once (tokens.service.ts:46-48).
OneLiveToken == \A f \in Families : \A s, t \in Live(f) : s = t

\* The sessions are chains of tokens, and one that has ended stays ended: no
\* rotation in flight revives a revoked session.
Only(S) == CHOOSE t \in S : TRUE
Current == [f \in Families |-> IF Live(f) = {} THEN NoToken ELSE Only(Live(f))]
Chain == INSTANCE TokenChain WITH current <- Current
SessionsAreChains == Chain!Spec

\* Once a reuse is detected, a logout or a reset answered, every session it was to
\* end is over: no token of it works, whatever was presented, claimed or about to
\* commit meanwhile (tokens.service.ts:171: a reuse must revoke outside any
\* transaction that rolls back).  The one way out is a rotation that exchanged a
\* chosen token while the revocation waited for its lock: MCRefreshTokens shows it.
RevocationsEndSessions == \A f \in ended : Live(f) = {}

\* Every request is answered: the requests that wait for a row get it.
EveryRequestAnswered == \A r \in Requests : pc[r] \in Waiting ~> pc[r] \in Answered
=============================================================================
