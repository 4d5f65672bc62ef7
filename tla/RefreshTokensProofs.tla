------------------------ MODULE RefreshTokensProofs ------------------------
(***************************************************************************)
(* For any number of users, sessions, tokens and racing requests: sessions *)
(* are chains of tokens of which one works at a time, and an ended session *)
(* is never revived.                                                       *)
(***************************************************************************)
EXTENDS RefreshTokens, TLAPS

\* Only issued tokens are revoked, or chosen to be: this part of TypeOK is about
\* two variables.
RevokedAreRows == revoked \subseteq Rows /\ \A r \in Requests : chosen[r] \subseteq Rows

\* A refresh beyond its read has presented an issued token.
PresentedIsRow == \A r \in Requests : pc[r] \in {"claim", "issue", "reuse"} => token[r] \in Rows

\* A row is locked by the one request that rotates it, and until that commits
\* nobody else can revoke it.
LockedIsLive ==
  \A t \in Tokens : lock[t] # Free => /\ pc[lock[t]] = "issue"
                                      /\ token[lock[t]] = t
                                      /\ t \in Rows \ revoked

\* A token that was exchanged is revoked.
LiveHasNoSuccessor == \A t \in Tokens : successor[t] # NoToken => t \in revoked

IssuerHoldsLock == \A r \in Requests : pc[r] = "issue" => lock[token[r]] = r

\* A session that was ended has rows, so no login can take it up again.
EndedHaveRows == \A f \in ended : \E t \in Rows : family[t] = f

Revoking == {"revokeFamily", "revokeOne", "revokeAll"}

\* A revocation that waits has chosen the live token of every session it is to
\* end, if there is one, or was beaten to it.
WaitersChoseTheLive ==
  \A r \in Requests : pc[r] \in Revoking =>
    \A f \in Covers(r) : Live(f) \subseteq chosen[r] \/ f \in BeatenTo(r)

\* A revocation of a family has presented a token of it.
RevokerPresented == \A r \in Requests : pc[r] = "revokeFamily" => token[r] \in Rows

EndingInv == /\ EndedHaveRows /\ RevokerPresented /\ WaitersChoseTheLive
             /\ RevocationsEndSessions

IInv == /\ TypeOK /\ RevokedAreRows /\ PresentedIsRow /\ LockedIsLive /\ IssuerHoldsLock
        /\ LiveHasNoSuccessor /\ OneLiveToken /\ EndingInv

\* While there are tokens left, a fresh one has no row.
LEMMA FreshIsUnused ==
  ASSUME Rows # Tokens
  PROVE  Fresh \in Tokens /\ Fresh \notin Rows
<1>1. \E t \in Tokens : t \notin Rows
  BY DEF Rows
<1>2. QED
  BY <1>1 DEF Fresh

\* The invariant holds initially.
LEMMA Initially == Init => IInv
<1> SUFFICES ASSUME Init PROVE IInv
  OBVIOUS
<1>1. TypeOK
  BY DEF Init, TypeOK
<1>2. Rows = {} /\ revoked = {}
  BY DEF Init, Rows
<1>3. OneLiveToken
  BY TokensAssumption DEF Init, OneLiveToken, Live
<1>4. QED
  BY <1>1, <1>2, <1>3 DEF Init, IInv, RevokedAreRows, PresentedIsRow, LockedIsLive,
                          IssuerHoldsLock, LiveHasNoSuccessor, EndingInv, EndedHaveRows,
                          RevokerPresented, WaitersChoseTheLive, RevocationsEndSessions, Revoking

\* A step that ends no session, adds no live token to one that has rows and starts
\* no revocation keeps what is known of the endings.
LEMMA EndingStays ==
  ASSUME IInv, TypeOK', ended' = ended, chosen' = chosen, token' = token,
         \A t \in Rows : family'[t] = family[t] /\ t \in Rows',
         \A t \in Tokens : successor[t] # NoToken => successor'[t] = successor[t],
         \A r \in Requests : pc'[r] \in Revoking => pc'[r] = pc[r],
         \A f \in Families : (\E t \in Rows : family[t] = f) =>
            \/ Live(f)' \subseteq Live(f)
            \/ /\ Live(f) # {}
               /\ \A r \in Requests : pc[r] \in Revoking /\ f \in Covers(r) =>
                    \E t \in chosen[r] : family[t] = f /\ successor'[t] # NoToken
  PROVE  EndingInv'
<1> USE DEF IInv, EndingInv
<1>1. EndedHaveRows'
  BY DEF EndedHaveRows, Rows
<1>2. RevokerPresented'
  BY DEF RevokerPresented, Revoking
<1>3. RevocationsEndSessions'
  <2> SUFFICES ASSUME NEW f \in ended PROVE Live(f)' = {}
    BY DEF RevocationsEndSessions
  <2>1. Live(f) = {} /\ f \in Families /\ \E t \in Rows : family[t] = f
    BY DEF RevocationsEndSessions, EndedHaveRows, TypeOK
  <2>2. QED
    BY <2>1
<1>4. WaitersChoseTheLive'
  <2> SUFFICES ASSUME NEW r \in Requests, pc'[r] \in Revoking, NEW f \in Covers(r)'
               PROVE  Live(f)' \subseteq chosen[r] \/ f \in BeatenTo(r)'
    BY DEF WaitersChoseTheLive
  <2>1. pc'[r] = pc[r] /\ pc[r] \in Revoking /\ chosen[r] \subseteq Rows
    BY DEF TypeOK
  <2>2. f \in Covers(r) /\ \E t \in Rows : family[t] = f
    BY <2>1 DEF Covers, RevokerPresented
  <2>3. f \in Families
    BY <2>2 DEF Rows, TypeOK
  <2>4. BeatenTo(r) \subseteq BeatenTo(r)'
    BY <2>1 DEF BeatenTo, Rows
  <2>5. CASE Live(f)' \subseteq Live(f)
    BY <2>1, <2>2, <2>4, <2>5 DEF WaitersChoseTheLive
  <2>6. CASE \E t \in chosen[r] : family[t] = f /\ successor'[t] # NoToken
    BY <2>1, <2>6 DEF BeatenTo
  <2>7. QED
    BY <2>1, <2>2, <2>3, <2>5, <2>6
<1>5. QED
  BY <1>1, <1>2, <1>3, <1>4

\* A login keeps the invariant: its family is new, and so is its token.
LEMMA IssuePairKeeps ==
  ASSUME IInv, NEW f \in Families, IssuePair(f)
  PROVE  IInv'
<1>1. Fresh \in Tokens /\ family[Fresh] = NoFamily /\ Fresh \notin revoked
  BY FreshIsUnused DEF IssuePair, Rows, IInv, RevokedAreRows
<1>2. /\ UNCHANGED <<revoked, successor, expired, lock, pc, token, chosen, ended>>
      /\ \A t \in Tokens : family'[t] = IF t = Fresh THEN f ELSE family[t]
  BY DEF IssuePair, IInv, TypeOK
<1>3. TypeOK'
  BY <1>1, <1>2 DEF IssuePair, IInv, TypeOK, Rows
<1>4. Rows \subseteq Rows'
  BY <1>1, <1>2, TokensAssumption DEF Rows
<1>5. /\ RevokedAreRows' /\ PresentedIsRow' /\ LockedIsLive' /\ IssuerHoldsLock'
      /\ LiveHasNoSuccessor'
  BY <1>2, <1>4 DEF IInv, RevokedAreRows, PresentedIsRow, LockedIsLive, IssuerHoldsLock,
                    LiveHasNoSuccessor
<1>6. OneLiveToken'
  BY <1>1, <1>2 DEF IssuePair, IInv, OneLiveToken, Live
<1>7. EndingInv'
  <2>1. \A t \in Rows : family'[t] = family[t] /\ t \in Rows' /\ family[t] # f
    BY <1>1, <1>2, <1>4 DEF IssuePair, Rows
  <2>2. \A g \in Families : g # f => Live(g)' = Live(g)
    BY <1>1, <1>2, TokensAssumption DEF Live
  <2>3. QED
    BY <1>2, <1>3, <2>1, <2>2, EndingStays
<1>8. QED
  BY <1>3, <1>5, <1>6, <1>7 DEF IInv

\* Presenting, claiming and choosing rows keep the invariant: the rows stay as
\* they are.
LEMMA ReadsKeep ==
  ASSUME IInv, NEW r \in Requests,
         \/ \E t \in Tokens : Present(r, t) \/ RevokeRefreshToken(r, t)
         \/ \E u \in Users : ResetPassword(r, u)
         \/ RevokeFamily(r)
  PROVE  IInv'
<1>1. UNCHANGED <<rows, lock, ended>> /\ pc[r] \in {"idle", "reuse"}
  BY DEF Present, RevokeRefreshToken, ResetPassword, RevokeFamily, StartRevoking
<1>2. /\ pc'[r] \in {"claim", "expired", "reuse", "revokeFamily", "revokeOne", "revokeAll"}
      /\ token'[r] \in Rows \/ pc'[r] \notin {"claim", "reuse"}
      /\ chosen'[r] \subseteq Rows
      /\ token' \in [Requests -> Tokens \cup {NoToken}]
      /\ chosen' \in [Requests -> SUBSET Tokens]
  <2>1. ASSUME NEW targets \in SUBSET Rows, NEW step \in {"revokeFamily", "revokeOne", "revokeAll"},
               StartRevoking(r, targets, step)
        PROVE  <1>2
    <3>1. pc'[r] = step /\ chosen'[r] = targets \ revoked /\ token' = token
      BY <2>1 DEF StartRevoking, IInv, TypeOK
    <3>2. chosen' \in [Requests -> SUBSET Tokens]
      BY <2>1 DEF StartRevoking, IInv, TypeOK, Rows
    <3>3. QED
      BY <3>1, <3>2 DEF IInv, TypeOK
  <2>2. CASE \E t \in Tokens : Present(r, t)
    BY <2>2 DEF Present, IInv, TypeOK, RevokedAreRows, Rows
  <2>3. CASE \E t \in Tokens : RevokeRefreshToken(r, t)
    BY <2>1, <2>3 DEF RevokeRefreshToken
  <2>4. CASE RevokeFamily(r)
    BY <2>1, <2>4, TokensAssumption DEF RevokeFamily, Live, Rows, IInv, PresentedIsRow, TypeOK
  <2>5. CASE \E u \in Users : ResetPassword(r, u)
    BY <2>1, <2>5, TokensAssumption DEF ResetPassword, Live, Rows
  <2>6. QED
    BY <2>2, <2>3, <2>4, <2>5
<1>3. \A q \in Requests : q # r => pc'[q] = pc[q] /\ token'[q] = token[q] /\ chosen'[q] = chosen[q]
  BY DEF Present, RevokeRefreshToken, ResetPassword, RevokeFamily, StartRevoking, IInv, TypeOK
<1>4. pc' \in [Requests -> {"idle"} \cup Waiting \cup Answered]
  BY DEF Present, RevokeRefreshToken, ResetPassword, RevokeFamily, StartRevoking, IInv, TypeOK,
         Waiting, Answered
<1>5. TypeOK'
  <2>1. Rows' = Rows
    BY <1>1 DEF Rows, rows
  <2>2. chosen' \in [Requests -> SUBSET Rows]
    BY <1>2, <1>3 DEF IInv, TypeOK
  <2>3. QED
    BY <1>1, <1>2, <1>4, <2>1, <2>2 DEF IInv, TypeOK, rows
<1>6. RevokedAreRows' /\ PresentedIsRow'
  BY <1>1, <1>2, <1>3 DEF IInv, RevokedAreRows, PresentedIsRow, Rows, rows
<1>7. LockedIsLive' /\ IssuerHoldsLock'
  BY <1>1, <1>2, <1>3, TokensAssumption DEF IInv, TypeOK, LockedIsLive, IssuerHoldsLock, Rows, rows
<1>8. OneLiveToken' /\ LiveHasNoSuccessor'
  BY <1>1 DEF IInv, OneLiveToken, LiveHasNoSuccessor, Live, rows
<1>9. EndingInv'
  <2>1. EndedHaveRows' /\ RevocationsEndSessions'
    BY <1>1 DEF IInv, EndingInv, EndedHaveRows, RevocationsEndSessions, Live, Rows, rows
  <2>2. pc'[r] \in Revoking =>
          /\ pc'[r] = "revokeFamily" => token'[r] \in Rows /\ chosen'[r] = Live(family[token'[r]])
          /\ \A t \in chosen'[r] : Live(family[t]) \subseteq chosen'[r]
    <3>1. CASE \E t \in Tokens : Present(r, t)
      BY <3>1 DEF Present, IInv, TypeOK, Revoking
    <3>2. CASE \E t \in Tokens : RevokeRefreshToken(r, t)
      <4>1. PICK t \in Tokens : t \in Rows /\ chosen'[r] = {t} \ revoked /\ pc'[r] = "revokeOne"
        BY <3>2 DEF RevokeRefreshToken, StartRevoking, IInv, TypeOK
      <4>2. family[t] \in Families
        BY <4>1 DEF Rows, IInv, TypeOK
      <4>3. t \notin revoked => \A s \in Live(family[t]) : s = t
        BY <4>1, <4>2 DEF IInv, OneLiveToken, Live
      <4>4. QED
        BY <4>1, <4>3
    <3>3. CASE RevokeFamily(r)
      <4>1. /\ pc'[r] = "revokeFamily" /\ token'[r] = token[r] /\ token[r] \in Rows
            /\ chosen'[r] = Live(family[token[r]]) \ revoked
        BY <3>3 DEF RevokeFamily, StartRevoking, IInv, TypeOK, PresentedIsRow
      <4>2. chosen'[r] = Live(family[token[r]])
        BY <4>1 DEF Live
      <4>3. \A t \in chosen'[r] : family[t] = family[token[r]]
        BY <4>2 DEF Live
      <4>4. QED
        BY <4>1, <4>2, <4>3
    <3>4. CASE \E u \in Users : ResetPassword(r, u)
      <4>1. PICK u \in Users :
              /\ pc'[r] = "revokeAll"
              /\ chosen'[r] = (UNION {Live(f) : f \in {g \in Families : UserOf[g] = u}}) \ revoked
        BY <3>4 DEF ResetPassword, StartRevoking, IInv, TypeOK
      <4>2. ASSUME NEW t \in chosen'[r] PROVE Live(family[t]) \subseteq chosen'[r]
        <5>1. PICK f \in Families : UserOf[f] = u /\ t \in Live(f)
          BY <4>1, <4>2
        <5>2. family[t] = f
          BY <5>1 DEF Live
        <5>3. QED
          BY <4>1, <5>1, <5>2 DEF Live
      <4>3. QED
        BY <4>1, <4>2
    <3>5. QED
      BY <3>1, <3>2, <3>3, <3>4
  <2>3. RevokerPresented'
    BY <1>1, <1>3, <2>2 DEF IInv, EndingInv, RevokerPresented, Revoking, Rows, rows
  <2>4. WaitersChoseTheLive'
    <3> SUFFICES ASSUME NEW q \in Requests, pc'[q] \in Revoking, NEW f \in Covers(q)'
                 PROVE  Live(f)' \subseteq chosen'[q] \/ f \in BeatenTo(q)'
      BY DEF WaitersChoseTheLive
    <3>1. CASE q = r
      BY <1>1, <2>2, <3>1 DEF Covers, Live, rows
    <3>2. CASE q # r
      BY <1>1, <1>3, <3>2 DEF IInv, EndingInv, WaitersChoseTheLive, Covers, BeatenTo, Live, rows
    <3>3. QED
      BY <3>1, <3>2
  <2>5. QED
    BY <2>1, <2>3, <2>4 DEF EndingInv
<1>10. QED
  BY <1>5, <1>6, <1>7, <1>8, <1>9 DEF IInv

\* Claiming a row keeps the invariant: it was free.
LEMMA ClaimKeeps ==
  ASSUME IInv, NEW r \in Requests, Claim(r)
  PROVE  IInv'
<1>1. UNCHANGED <<rows, token, chosen, ended>> /\ token[r] \in Rows
  BY DEF Claim, IInv, PresentedIsRow
<1>2. CASE ~Claimable(token[r])
  <2>1. lock' = lock /\ pc' = [pc EXCEPT ![r] = "reuse"] /\ pc[r] = "claim"
    BY <1>2 DEF Claim
  <2>2. TypeOK'
    BY <1>1, <2>1 DEF IInv, TypeOK, rows, Waiting, Rows
  <2>3. RevokedAreRows' /\ PresentedIsRow' /\ OneLiveToken' /\ LiveHasNoSuccessor'
    BY <1>1, <2>1 DEF IInv, TypeOK, RevokedAreRows, PresentedIsRow, OneLiveToken,
                      LiveHasNoSuccessor, Rows, Live, rows
  <2>4. EndingInv'
    <3>1. \A q \in Requests : pc'[q] \in Revoking => pc'[q] = pc[q]
      BY <2>1 DEF IInv, TypeOK, Revoking
    <3>2. \A f \in Families : Live(f)' = Live(f)
      BY <1>1 DEF Live, rows
    <3>3. Rows' = Rows
      BY <1>1 DEF Rows, rows
    <3>4. QED
      BY <1>1, <2>2, <3>1, <3>2, <3>3, EndingStays DEF rows
  <2>5. LockedIsLive' /\ IssuerHoldsLock'
    BY <1>1, <2>1 DEF IInv, TypeOK, LockedIsLive, IssuerHoldsLock, Rows, rows
  <2>6. QED
    BY <2>2, <2>3, <2>4, <2>5 DEF IInv
<1>3. CASE Claimable(token[r])
  <2>1. /\ lock' = [lock EXCEPT ![token[r]] = r] /\ pc' = [pc EXCEPT ![r] = "issue"]
        /\ pc[r] = "claim" /\ lock[token[r]] = Free /\ token[r] \notin revoked
    BY <1>3 DEF Claim, Claimable
  <2>2. TypeOK'
    BY <1>1, <2>1 DEF IInv, TypeOK, rows, Waiting, Rows
  <2>3. RevokedAreRows' /\ PresentedIsRow' /\ OneLiveToken' /\ LiveHasNoSuccessor'
    BY <1>1, <2>1 DEF IInv, TypeOK, RevokedAreRows, PresentedIsRow, OneLiveToken,
                      LiveHasNoSuccessor, Rows, Live, rows
  <2>4. EndingInv'
    <3>1. \A q \in Requests : pc'[q] \in Revoking => pc'[q] = pc[q]
      BY <2>1 DEF IInv, TypeOK, Revoking
    <3>2. \A f \in Families : Live(f)' = Live(f)
      BY <1>1 DEF Live, rows
    <3>3. Rows' = Rows
      BY <1>1 DEF Rows, rows
    <3>4. QED
      BY <1>1, <2>2, <3>1, <3>2, <3>3, EndingStays DEF rows
  <2>5. LockedIsLive'
    <3> SUFFICES ASSUME NEW t \in Tokens, lock'[t] # Free
                 PROVE  /\ pc'[lock'[t]] = "issue" /\ token[lock'[t]] = t
                        /\ t \in Rows \ revoked
      BY <1>1 DEF LockedIsLive, Rows, rows
    <3>1. CASE t = token[r]
      BY <1>1, <2>1, <3>1 DEF IInv, TypeOK
    <3>2. CASE t # token[r]
      BY <2>1, <3>2 DEF IInv, TypeOK, LockedIsLive
    <3>3. QED
      BY <3>1, <3>2
  <2>6. IssuerHoldsLock'
    BY <1>1, <2>1, TokensAssumption DEF IInv, TypeOK, IssuerHoldsLock, Rows
  <2>7. QED
    BY <2>2, <2>3, <2>4, <2>5, <2>6 DEF IInv
<1>4. QED
  BY <1>2, <1>3

\* The rotation's commit keeps the invariant: the one live token of the family is
\* the one it held locked.
LEMMA IssueKeeps ==
  ASSUME IInv, NEW r \in Requests, Issue(r)
  PROVE  IInv'
<1> DEFINE old == token[r]
<1>1. /\ Fresh \in Tokens /\ family[Fresh] = NoFamily /\ Fresh \notin revoked
      /\ old \in Rows \ revoked /\ old \in Tokens /\ lock[old] = r /\ old # Fresh
  BY FreshIsUnused, TokensAssumption
     DEF Issue, Rows, IInv, RevokedAreRows, PresentedIsRow, IssuerHoldsLock, LockedIsLive
<1>2. /\ \A t \in Tokens : family'[t] = IF t = Fresh THEN family[old] ELSE family[t]
      /\ revoked' = revoked \cup {old}
      /\ \A t \in Tokens : lock'[t] = IF lock[t] = r THEN Free ELSE lock[t]
      /\ pc' = [pc EXCEPT ![r] = "rotated"]
      /\ \A t \in Tokens : successor'[t] = IF t = old THEN Fresh ELSE successor[t]
      /\ UNCHANGED <<expired, token, chosen, ended>>
  BY DEF Issue, IInv, TypeOK, Released
<1>3. family[old] \in Families
  BY <1>1 DEF Rows, IInv, TypeOK
<1>4. TypeOK'
  BY <1>1, <1>2, <1>3 DEF Issue, IInv, TypeOK, Released, Answered, Rows
<1>5. Rows \subseteq Rows'
  BY <1>1, <1>2, <1>3, TokensAssumption DEF Rows
<1>6. RevokedAreRows' /\ PresentedIsRow' /\ LiveHasNoSuccessor'
  BY <1>1, <1>2, <1>5 DEF IInv, TypeOK, RevokedAreRows, PresentedIsRow, LiveHasNoSuccessor
<1>7. LockedIsLive'
  <2> SUFFICES ASSUME NEW t \in Tokens, lock'[t] # Free
               PROVE  /\ pc'[lock'[t]] = "issue" /\ token[lock'[t]] = t
                      /\ t \in Rows' \ revoked'
    BY <1>2 DEF LockedIsLive
  <2>1. lock'[t] = lock[t] /\ lock[t] # r /\ lock[t] \in Requests
    BY <1>2 DEF IInv, TypeOK
  <2>2. pc[lock[t]] = "issue" /\ token[lock[t]] = t /\ t \in Rows \ revoked
    BY <2>1 DEF IInv, LockedIsLive
  <2>3. QED
    BY <1>1, <1>2, <1>5, <2>1, <2>2 DEF IInv, TypeOK
<1>8. IssuerHoldsLock'
  BY <1>2, TokensAssumption DEF IInv, TypeOK, IssuerHoldsLock, PresentedIsRow, Rows
<1>9. OneLiveToken'
  BY <1>1, <1>2 DEF IInv, OneLiveToken, Live, Rows
<1>10. EndingInv'
  <2>1. \A t \in Rows : family'[t] = family[t] /\ t \in Rows'
    BY <1>1, <1>2, <1>5 DEF Rows
  <2>2. \A q \in Requests : pc'[q] \in Revoking => pc'[q] = pc[q]
    BY <1>2 DEF IInv, TypeOK, Revoking
  <2>3. \A t \in Tokens : successor[t] # NoToken => successor'[t] = successor[t]
    BY <1>1, <1>2 DEF IInv, LiveHasNoSuccessor
  <2>4. ASSUME NEW f \in Families, ~(Live(f)' \subseteq Live(f))
        PROVE  /\ Live(f) # {}
               /\ \A q \in Requests : pc[q] \in Revoking /\ f \in Covers(q) =>
                    \E t \in chosen[q] : family[t] = f /\ successor'[t] # NoToken
    <3>1. f = family[old]
      BY <1>1, <1>2, <2>4 DEF Live
    <3>2. old \in Live(f)
      BY <1>1, <3>1 DEF Live
    <3>3. ASSUME NEW q \in Requests, pc[q] \in Revoking, f \in Covers(q)
          PROVE  \E t \in chosen[q] : family[t] = f /\ successor'[t] # NoToken
      <4>1. CASE Live(f) \subseteq chosen[q]
        BY <1>1, <1>2, <3>1, <3>2, <4>1, TokensAssumption
      <4>2. CASE f \in BeatenTo(q)
        <5>1. PICK t \in chosen[q] : successor[t] # NoToken /\ family[t] = f
          BY <4>2 DEF BeatenTo
        <5>2. t \in Tokens
          BY <5>1 DEF IInv, TypeOK, Rows
        <5>3. QED
          BY <2>3, <5>1, <5>2
      <4>3. QED
        BY <3>3, <4>1, <4>2 DEF IInv, EndingInv, WaitersChoseTheLive
    <3>4. QED
      BY <3>2, <3>3
  <2>5. QED
    BY <1>2, <1>4, <2>1, <2>2, <2>3, <2>4, EndingStays
<1>11. QED
  BY <1>4, <1>6, <1>7, <1>8, <1>9, <1>10 DEF IInv

\* A revocation keeps the invariant: none of its rows is locked.
LEMMA FinishRevokingKeeps ==
  ASSUME IInv, NEW r \in Requests, FinishRevoking(r)
  PROVE  IInv'
<1>1. /\ revoked' = revoked \cup chosen[r]
      /\ \A t \in chosen[r] : lock[t] = Free
      /\ pc[r] \in Revoking
      /\ ended' = ended \cup (Covers(r) \ BeatenTo(r))
      /\ UNCHANGED <<family, successor, expired, lock, token, chosen>>
  BY DEF FinishRevoking, RevokedBy, Revoking
<1>2. /\ pc'[r] \in {"reused", "loggedOut", "reset"}
      /\ \A q \in Requests : q # r => pc'[q] = pc[q]
      /\ pc' \in [Requests -> {"idle"} \cup Waiting \cup Answered]
  BY DEF FinishRevoking, IInv, TypeOK, Answered
<1>3. \A f \in Covers(r) : \E t \in Rows : family[t] = f
  BY <1>1 DEF Covers, IInv, EndingInv, RevokerPresented, TypeOK
<1>4. TypeOK'
  <2>1. Covers(r) \subseteq Families
    BY <1>3 DEF Rows, IInv, TypeOK
  <2>2. QED
    BY <1>1, <1>2, <2>1 DEF IInv, TypeOK, Rows
<1>5. RevokedAreRows' /\ PresentedIsRow' /\ LiveHasNoSuccessor'
  BY <1>1, <1>2 DEF IInv, TypeOK, RevokedAreRows, PresentedIsRow, LiveHasNoSuccessor, Rows
<1>6. LockedIsLive' /\ IssuerHoldsLock'
  BY <1>1, <1>2, TokensAssumption DEF IInv, TypeOK, LockedIsLive, IssuerHoldsLock, Rows, Revoking
<1>7. OneLiveToken'
  BY <1>1 DEF IInv, OneLiveToken, Live
<1>8. EndedHaveRows' /\ RevokerPresented'
  BY <1>1, <1>2, <1>3 DEF IInv, EndingInv, EndedHaveRows, RevokerPresented, Rows, Revoking
<1>9. RevocationsEndSessions'
  <2> SUFFICES ASSUME NEW f \in ended' PROVE Live(f)' = {}
    BY DEF RevocationsEndSessions
  <2>1. CASE f \in ended
    BY <1>1, <2>1 DEF IInv, EndingInv, RevocationsEndSessions, Live
  <2>2. CASE f \in Covers(r) \ BeatenTo(r)
    <3>1. Live(f) \subseteq chosen[r]
      BY <1>1, <2>2 DEF IInv, EndingInv, WaitersChoseTheLive
    <3>2. QED
      BY <1>1, <3>1 DEF Live
  <2>3. QED
    BY <1>1, <2>1, <2>2
<1>10. WaitersChoseTheLive'
  <2> SUFFICES ASSUME NEW q \in Requests, pc'[q] \in Revoking, NEW f \in Covers(q)'
               PROVE  Live(f)' \subseteq chosen[q] \/ f \in BeatenTo(q)'
    BY <1>1 DEF WaitersChoseTheLive
  <2>1. q # r /\ pc'[q] = pc[q]
    BY <1>2 DEF Revoking
  <2>2. f \in Covers(q) /\ BeatenTo(q)' = BeatenTo(q) /\ Live(f)' \subseteq Live(f)
    BY <1>1, <2>1 DEF Covers, BeatenTo, Live
  <2>3. QED
    BY <2>1, <2>2 DEF IInv, EndingInv, WaitersChoseTheLive
<1>11. QED
  BY <1>5, <1>6, <1>7, <1>8, <1>9, <1>10, <1>4 DEF IInv, EndingInv

\* A failed request keeps the invariant: it only lets go of its lock.
LEMMA FailKeeps ==
  ASSUME IInv, NEW r \in Requests, Fail(r)
  PROVE  IInv'
<1>1. /\ UNCHANGED <<rows, token, chosen, ended>>
      /\ \A t \in Tokens : lock'[t] = IF lock[t] = r THEN Free ELSE lock[t]
      /\ pc' = [pc EXCEPT ![r] = "failed"]
  BY DEF Fail, Released
<1>2. TypeOK'
  BY <1>1 DEF Fail, Released, IInv, TypeOK, rows, Answered, Rows
<1>3. RevokedAreRows' /\ PresentedIsRow' /\ OneLiveToken' /\ LiveHasNoSuccessor'
  BY <1>1 DEF IInv, TypeOK, RevokedAreRows, PresentedIsRow, OneLiveToken, LiveHasNoSuccessor,
              Live, Rows, rows
<1>4. LockedIsLive' /\ IssuerHoldsLock'
  BY <1>1, TokensAssumption DEF IInv, TypeOK, LockedIsLive, IssuerHoldsLock, PresentedIsRow,
                                Rows, rows
<1>5. EndingInv'
  <2>1. \A q \in Requests : pc'[q] \in Revoking => pc'[q] = pc[q]
    BY <1>1 DEF IInv, TypeOK, Revoking
  <2>2. \A f \in Families : Live(f)' = Live(f)
    BY <1>1 DEF Live, rows
  <2>3. Rows' = Rows
    BY <1>1 DEF Rows, rows
  <2>4. QED
    BY <1>1, <1>2, <2>1, <2>2, <2>3, EndingStays DEF rows
<1>6. QED
  BY <1>2, <1>3, <1>4, <1>5 DEF IInv

\* Every step keeps the invariant.
LEMMA Stepwise == IInv /\ [Next]_vars => IInv'
<1> SUFFICES ASSUME IInv, [Next]_vars PROVE IInv'
  OBVIOUS
<1>1. CASE UNCHANGED vars
  BY <1>1 DEF vars, IInv, TypeOK, RevokedAreRows, PresentedIsRow, LockedIsLive,
              IssuerHoldsLock, OneLiveToken, LiveHasNoSuccessor, EndingInv, EndedHaveRows,
              RevokerPresented, WaitersChoseTheLive, RevocationsEndSessions, Covers, BeatenTo,
              Revoking, Live, Rows
<1>2. ASSUME NEW f \in Families, IssuePair(f) PROVE IInv'
  BY <1>2, IssuePairKeeps
<1>3. ASSUME NEW t \in Tokens, Expire(t) PROVE IInv'
  BY <1>3 DEF Expire, IInv, TypeOK, RevokedAreRows, PresentedIsRow, LockedIsLive,
              IssuerHoldsLock, OneLiveToken, LiveHasNoSuccessor, EndingInv, EndedHaveRows,
              RevokerPresented, WaitersChoseTheLive, RevocationsEndSessions, Covers, BeatenTo,
              Revoking, Live, Rows
<1>4. ASSUME NEW r \in Requests,
             \/ \E t \in Tokens : Present(r, t) \/ RevokeRefreshToken(r, t)
             \/ \E u \in Users : ResetPassword(r, u)
             \/ RevokeFamily(r)
      PROVE  IInv'
  BY <1>4, ReadsKeep
<1>5. ASSUME NEW r \in Requests, Claim(r) PROVE IInv'
  BY <1>5, ClaimKeeps
<1>6. ASSUME NEW r \in Requests, Issue(r) PROVE IInv'
  BY <1>6, IssueKeeps
<1>7. ASSUME NEW r \in Requests, FinishRevoking(r) PROVE IInv'
  BY <1>7, FinishRevokingKeeps
<1>8. ASSUME NEW r \in Requests, Fail(r) PROVE IInv'
  BY <1>8, FailKeeps
<1>9. QED
  BY <1>1, <1>2, <1>3, <1>4, <1>5, <1>6, <1>7, <1>8 DEF Next

\* The invariant is inductive.
LEMMA Invariance == Spec => []IInv
BY Initially, Stepwise, PTL DEF Spec

\* Every variable keeps its type.
THEOREM TypeCorrect == Spec => []TypeOK
<1>1. IInv => TypeOK
  BY DEF IInv
<1>2. QED
  BY <1>1, Invariance, PTL

\* However many requests present a token at once, it is exchanged once, and only
\* the last token of a session works.
THEOREM TokensAreSingleUse == Spec => []OneLiveToken
<1>1. IInv => OneLiveToken
  BY DEF IInv
<1>2. QED
  BY <1>1, Invariance, PTL

\* Once a reuse, a logout or a reset is answered, the sessions it was to end are
\* over for good, but for one in which a rotation beat it to the chosen token.
THEOREM RevocationsStand == Spec => []RevocationsEndSessions
<1>1. IInv => RevocationsEndSessions
  BY DEF IInv, EndingInv
<1>2. QED
  BY <1>1, Invariance, PTL

-----------------------------------------------------------------------------
\* The live token of a session is its current one.
LEMMA LiveIsCurrent ==
  ASSUME OneLiveToken, NEW f \in Families, NEW t \in Live(f)
  PROVE  Current[f] = t
<1>1. \A s \in Live(f) : s = t
  BY DEF OneLiveToken
<1>2. Only(Live(f)) = t
  BY <1>1 DEF Only
<1>3. QED
  BY <1>2 DEF Current

\* A step that makes t the only live token of f and changes no other session
\* extends the chain of f.
LEMMA Extends ==
  ASSUME IInv, IInv', NEW f \in Families, NEW t \in Tokens, family[t] = NoFamily,
         family' = [family EXCEPT ![t] = f], t \in Live(f)',
         \A g \in Families : g # f => Live(g)' = Live(g)
  PROVE  Chain!Extend(f, t)
<1>1. Current'[f] = t
  <2>1. \A s \in Live(f)' : s = t
    BY DEF IInv, OneLiveToken
  <2>2. Only(Live(f)') = t
    BY <2>1 DEF Only
  <2>3. QED
    BY <2>2 DEF Current
<1>2. \A g \in Families : g # f => Current'[g] = Current[g]
  BY DEF Current
<1>3. Current' = [Current EXCEPT ![f] = t]
  BY <1>1, <1>2 DEF Current
<1>4. QED
  BY <1>3 DEF Chain!Extend

\* The rows implement the chains of TokenChain: a login opens one, a rotation
\* extends one at its live end, a revocation ends some for good.
THEOREM SessionsImplementChains == Spec => SessionsAreChains
<1>1. Init => Chain!Init
  <2> SUFFICES ASSUME Init PROVE Chain!Init
    OBVIOUS
  <2>1. \A f \in Families : Live(f) = {}
    BY TokensAssumption DEF Init, Live
  <2>2. QED
    BY <2>1 DEF Init, Chain!Init, Current
<1>2. ASSUME IInv, IInv', [Next]_vars PROVE [Chain!Next]_<<family, Current>>
  <2>1. CASE UNCHANGED <<family, revoked>>
    BY <2>1 DEF Current, Live
  <2>2. ASSUME NEW f \in Families, IssuePair(f) PROVE Chain!Next
    <3>1. Fresh \in Tokens /\ family[Fresh] = NoFamily /\ Fresh \notin revoked
      BY <1>2, <2>2, FreshIsUnused DEF IssuePair, Rows, IInv, RevokedAreRows
    <3>2. /\ \A t \in Tokens : family'[t] = IF t = Fresh THEN f ELSE family[t]
          /\ revoked' = revoked
      BY <1>2, <2>2 DEF IssuePair, IInv, TypeOK
    <3>3. Fresh \in Live(f)' /\ \A g \in Families : g # f => Live(g)' = Live(g)
      BY <3>1, <3>2, TokensAssumption DEF Live
    <3>4. Chain!Extend(f, Fresh)
      BY <1>2, <2>2, <3>1, <3>3, Extends DEF IssuePair
    <3>5. QED
      BY <2>2, <3>1, <3>4 DEF IssuePair, Chain!Next, Chain!Open
  <2>3. ASSUME NEW r \in Requests, Issue(r) PROVE Chain!Next
    <3> DEFINE old == token[r]
    <3>1. /\ Fresh \in Tokens /\ family[Fresh] = NoFamily /\ Fresh \notin revoked
          /\ old \in Rows \ revoked /\ old \in Tokens /\ old # Fresh
      BY <1>2, <2>3, FreshIsUnused, TokensAssumption
         DEF Issue, Rows, IInv, RevokedAreRows, PresentedIsRow, IssuerHoldsLock, LockedIsLive
    <3>2. PICK f \in Families : f = family[old]
      BY <1>2, <3>1 DEF Rows, IInv, TypeOK
    <3>3. /\ \A t \in Tokens : family'[t] = IF t = Fresh THEN f ELSE family[t]
          /\ revoked' = revoked \cup {old}
      BY <1>2, <2>3, <3>2 DEF Issue, IInv, TypeOK
    <3>4. Fresh \in Live(f)' /\ \A g \in Families : g # f => Live(g)' = Live(g)
      BY <3>1, <3>2, <3>3, TokensAssumption DEF Live
    <3>5. Chain!Extend(f, Fresh)
      BY <1>2, <2>3, <3>1, <3>2, <3>4, Extends DEF Issue
    <3>6. Current[f] = old
      BY <1>2, <3>1, <3>2, LiveIsCurrent DEF IInv, Live
    <3>7. QED
      BY <3>1, <3>2, <3>5, <3>6, TokensAssumption DEF Chain!Next, Chain!Rotate
  <2>4. ASSUME NEW r \in Requests, FinishRevoking(r) PROVE Chain!Next
    <3> DEFINE over == {f \in Families : Live(f)' = {}}
    <3>1. family' = family /\ revoked \subseteq revoked'
      BY <2>4 DEF FinishRevoking, RevokedBy
    <3>2. \A f \in Families : Live(f)' \subseteq Live(f)
      BY <3>1 DEF Live
    <3>3. ASSUME NEW f \in Families \ over PROVE Current'[f] = Current[f]
      <4>1. Live(f)' = Live(f)
        BY <1>2, <3>2, <3>3 DEF IInv, OneLiveToken
      <4>2. QED
        BY <4>1 DEF Current
    <3>4. Current' = [f \in Families |-> IF f \in over THEN NoToken ELSE Current[f]]
      BY <3>3 DEF Current
    <3>5. QED
      BY <3>1, <3>4 DEF Chain!Next, Chain!End
  <2>5. CASE UNCHANGED vars
    BY <2>1, <2>5 DEF vars
  <2>6. ASSUME NEW t \in Tokens, Expire(t) PROVE UNCHANGED <<family, revoked>>
    BY <2>6 DEF Expire
  <2>7. ASSUME NEW r \in Requests,
               \/ \E t \in Tokens : Present(r, t) \/ RevokeRefreshToken(r, t)
               \/ \E u \in Users : ResetPassword(r, u)
               \/ Claim(r) \/ RevokeFamily(r) \/ Fail(r)
        PROVE  UNCHANGED <<family, revoked>>
    BY <2>7 DEF Present, RevokeRefreshToken, ResetPassword, Claim, RevokeFamily, Fail,
                StartRevoking, rows
  <2>8. QED
    BY <1>2, <2>1, <2>2, <2>3, <2>4, <2>5, <2>6, <2>7 DEF Next
<1>3. QED
  BY <1>1, <1>2, Invariance, PTL DEF Spec, SessionsAreChains, Chain!Spec
=============================================================================
