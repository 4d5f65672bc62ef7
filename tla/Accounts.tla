------------------------------ MODULE Accounts ------------------------------
(***************************************************************************)
(* The accounts of one email address: registration, sign-in by password    *)
(* and through a provider, a forgotten password and its reset, deletion.   *)
(* Requests interleave between their statements; a provider's sign-in and  *)
(* a reset end in a transaction.  A user row, a password, a reset link and *)
(* a session are named by the request that made them.                      *)
(***************************************************************************)
EXTENDS Naturals, FiniteSets

CONSTANTS
  AccountCalls,     \* bound: the requests of a behaviour
  AccountMenu,      \* bound: AccountMenu[r] are the kinds of request that r may be
  Nobody            \* no user, no password

VARIABLES
  users,         \* each user row: missing, live under the email, or deleted
  password,      \* passwordHash of each row
  provider,      \* the user that the provider's identity is linked to
  resetLinks,    \* PasswordResetToken rows
  sessions,      \* the refresh token each sign-in was given
  accountTask,   \* the kind of each request, and the link or password it presents
  accountAt,     \* the statement each request is at
  seen,          \* the user it read, with the password that the row had then
  overtaken,     \* ghost: requests past that read when a reset committed
  timesUsed,     \* ghost: the passwords set through each link
  goneBefore     \* ghost: the rows that were deleted when each request began

accountVars == <<users, password, provider, resetLinks, sessions, accountTask, accountAt, seen,
                 overtaken, timesUsed, goneBefore>>
userRows == <<users, password, provider>>
accountGhosts == <<overtaken, timesUsed, goneBefore>>

AccountKinds == {"register", "oauth", "login", "forgot", "reset", "delete"}
SomeoneOrNobody == AccountCalls \cup {Nobody}
AccountTasks == [kind : AccountKinds \cup {"none"}, with : SomeoneOrNobody]
Unseen == [user |-> Nobody, password |-> Nobody]
AccountSteps == {"idle", "find", "create", "link", "provision", "issue", "write", "done", "refused", "failed"}

ASSUME AccountsAssumption ==
  /\ IsFiniteSet(AccountCalls)
  /\ Nobody \notin AccountCalls
  /\ AccountMenu \in [AccountCalls -> SUBSET AccountKinds]

AccountsTypeOK ==
  /\ users \in [AccountCalls -> {"none", "live", "deleted"}]
  /\ Cardinality({u \in AccountCalls : users[u] = "live"}) <= 1
  /\ password \in [AccountCalls -> SomeoneOrNobody]
  /\ provider \in SomeoneOrNobody
  /\ resetLinks \in [AccountCalls -> {"none", "fresh", "used", "expired"}]
  /\ sessions \in [AccountCalls -> {"none", "open", "revoked"}]
  /\ accountTask \in [AccountCalls -> AccountTasks]
  /\ accountAt \in [AccountCalls -> AccountSteps]
  /\ seen \in [AccountCalls -> [user : SomeoneOrNobody, password : SomeoneOrNobody]]
  /\ overtaken \subseteq AccountCalls
  /\ timesUsed \in [AccountCalls -> Nat]
  /\ goneBefore \in [AccountCalls -> SUBSET AccountCalls]

AccountsInit ==
  /\ users = [r \in AccountCalls |-> "none"]
  /\ password = [r \in AccountCalls |-> Nobody]
  /\ provider = Nobody
  /\ resetLinks = [r \in AccountCalls |-> "none"]
  /\ sessions = [r \in AccountCalls |-> "none"]
  /\ accountTask = [r \in AccountCalls |-> [kind |-> "none", with |-> Nobody]]
  /\ accountAt = [r \in AccountCalls |-> "idle"]
  /\ seen = [r \in AccountCalls |-> Unseen]
  /\ overtaken = {}
  /\ timesUsed = [r \in AccountCalls |-> 0]
  /\ goneBefore = [r \in AccountCalls |-> {}]

\* findUnique by the hash of the email: of a deleted row it is another.
FindByEmail ==
  IF \E u \in AccountCalls : users[u] = "live" THEN CHOOSE u \in AccountCalls : users[u] = "live" ELSE Nobody
Sight(u) == [user |-> u, password |-> IF u = Nobody THEN Nobody ELSE password[u]]
See(r, u) == seen' = [seen EXCEPT ![r] = Sight(u)]
AccountGoes(r, step) == accountAt' = [accountAt EXCEPT ![r] = step]

-----------------------------------------------------------------------------
\* What a request presents: a login a password, a reset a link that was mailed, a
\* deletion the token of a session.
Presentable(kind) ==
  CASE kind = "login" -> {w \in AccountCalls : accountTask[w].kind \in {"register", "reset"}} \cup {Nobody}
    [] kind = "reset" -> {w \in AccountCalls : resetLinks[w] # "none"}
    [] kind = "delete" -> {w \in AccountCalls : sessions[w] # "none"}
    [] OTHER -> {Nobody}
AccountBegins(r, kind, w) ==
  /\ accountAt[r] = "idle"
  /\ kind \in AccountMenu[r]
  /\ w \in Presentable(kind)
  /\ accountTask' = [accountTask EXCEPT ![r] = [kind |-> kind, with |-> w]]
  /\ AccountGoes(r, CASE kind = "oauth" -> "link" [] kind = "delete" -> "write" [] OTHER -> "find")
  /\ goneBefore' = [goneBefore EXCEPT ![r] = {u \in AccountCalls : users[u] = "deleted"}]
  /\ UNCHANGED <<userRows, resetLinks, sessions, seen, overtaken, timesUsed>>

\* register: the captcha has passed; the first statement refuses an email that is
\* there, and the unique key the second.
Register(r) ==
  /\ accountAt[r] = "find" /\ accountTask[r].kind = "register"
  /\ AccountGoes(r, IF FindByEmail = Nobody THEN "create" ELSE "refused")
  /\ UNCHANGED <<userRows, resetLinks, sessions, accountTask, seen, accountGhosts>>
CreateUser(r) ==
  /\ accountAt[r] = "create"
  /\ IF FindByEmail # Nobody
     THEN AccountGoes(r, "failed") /\ UNCHANGED <<userRows, seen>>
     ELSE /\ users' = [users EXCEPT ![r] = "live"]
          /\ password' = [password EXCEPT ![r] = r]
          /\ seen' = [seen EXCEPT ![r] = [user |-> r, password |-> r]]
          /\ AccountGoes(r, "issue")
          /\ UNCHANGED provider
  /\ UNCHANGED <<resetLinks, sessions, accountTask, accountGhosts>>

\* findOrCreateFromOAuth: by the link...
FindLink(r) ==
  /\ accountAt[r] = "link"
  /\ IF provider # Nobody
     THEN See(r, provider) /\ AccountGoes(r, "issue")
     ELSE See(r, FindByEmail) /\ AccountGoes(r, "provision")
  /\ UNCHANGED <<userRows, resetLinks, sessions, accountTask, accountGhosts>>
\* ... or in a transaction that found the email's row, or adds one, and links it;
\* the unique keys of both rows roll back the one that comes second.
Provisions(r) == provider = Nobody /\ (seen[r].user = Nobody => FindByEmail = Nobody)
Provision(r) ==
  /\ accountAt[r] = "provision"
  /\ IF ~Provisions(r)
     THEN AccountGoes(r, "failed") /\ UNCHANGED <<userRows, seen>>
     ELSE LET u == IF seen[r].user = Nobody THEN r ELSE seen[r].user IN
          /\ users' = [users EXCEPT ![u] = IF u = r THEN "live" ELSE @]
          /\ provider' = u
          /\ seen' = [seen EXCEPT ![r].user = u]
          /\ AccountGoes(r, "issue")
          /\ UNCHANGED password
  /\ UNCHANGED <<resetLinks, sessions, accountTask, accountGhosts>>

\* login: validateCredentials; a row without a password has none to verify.
ValidateCredentials(r) ==
  /\ accountAt[r] = "find" /\ accountTask[r].kind = "login"
  /\ See(r, FindByEmail)
  /\ AccountGoes(r, IF Sight(FindByEmail).password \in {Nobody} \cup (SomeoneOrNobody \ {accountTask[r].with})
                    THEN "refused" ELSE "issue")
  /\ UNCHANGED <<userRows, resetLinks, sessions, accountTask, accountGhosts>>

IssuePair(r) ==
  /\ accountAt[r] = "issue"
  /\ sessions' = [sessions EXCEPT ![r] = "open"]
  /\ AccountGoes(r, "done")
  /\ UNCHANGED <<userRows, resetLinks, accountTask, seen, accountGhosts>>

-----------------------------------------------------------------------------
\* forgotPassword answers the same whether the email is there or not.
ForgotPassword(r) ==
  /\ accountAt[r] = "find" /\ accountTask[r].kind = "forgot"
  /\ See(r, FindByEmail)
  /\ AccountGoes(r, IF FindByEmail = Nobody THEN "done" ELSE "write")
  /\ UNCHANGED <<userRows, resetLinks, sessions, accountTask, accountGhosts>>
CreateResetLink(r) ==
  /\ accountAt[r] = "write" /\ accountTask[r].kind = "forgot"
  /\ resetLinks' = [resetLinks EXCEPT ![r] = "fresh"]
  /\ AccountGoes(r, "done")
  /\ UNCHANGED <<userRows, sessions, accountTask, seen, accountGhosts>>
LinkExpires(r) ==
  /\ resetLinks[r] = "fresh"
  /\ resetLinks' = [resetLinks EXCEPT ![r] = "expired"]
  /\ UNCHANGED <<userRows, sessions, accountTask, accountAt, seen, accountGhosts>>

Unexpired(f) == resetLinks[f] # "expired"
Usable(f) == resetLinks[f] = "fresh"
FindResetLink(r) ==
  LET f == accountTask[r].with IN
  /\ accountAt[r] = "find" /\ accountTask[r].kind = "reset"
  /\ AccountGoes(r, IF Usable(f) THEN "write" ELSE "refused")
  /\ seen' = [seen EXCEPT ![r].user = seen[f].user]
  /\ UNCHANGED <<userRows, resetLinks, sessions, accountTask, accountGhosts>>
\* The transaction: the password, the link, and every session of the user there is.
Revoked(r, s) == sessions[s] = "open" /\ seen[s].user = seen[r].user
ResetPassword(r) ==
  LET f == accountTask[r].with IN
  /\ accountAt[r] = "write" /\ accountTask[r].kind = "reset"
  /\ password' = [password EXCEPT ![seen[r].user] = r]
  /\ resetLinks' = [resetLinks EXCEPT ![f] = "used"]
  /\ sessions' = [s \in AccountCalls |-> IF Revoked(r, s) THEN "revoked" ELSE sessions[s]]
  /\ AccountGoes(r, "done")
  /\ overtaken' = overtaken \cup
       {q \in AccountCalls \ {r} : accountAt[q] \in {"issue", "provision", "write"} /\ accountTask[q].kind # "delete"}
  /\ timesUsed' = [timesUsed EXCEPT ![f] = @ + 1]
  /\ UNCHANGED <<users, provider, accountTask, seen, goneBefore>>

\* deleteAccount: the row stays, under another email and without a password.
DeleteAccount(r) ==
  LET u == seen[accountTask[r].with].user IN
  /\ accountAt[r] = "write" /\ accountTask[r].kind = "delete"
  /\ users' = [users EXCEPT ![u] = "deleted"]
  /\ password' = [password EXCEPT ![u] = Nobody]
  /\ AccountGoes(r, "done")
  /\ UNCHANGED <<provider, resetLinks, sessions, accountTask, seen, accountGhosts>>

AccountsNext == \E r \in AccountCalls :
  \/ Register(r) \/ CreateUser(r) \/ FindLink(r) \/ Provision(r) \/ ValidateCredentials(r) \/ IssuePair(r)
  \/ ForgotPassword(r) \/ CreateResetLink(r) \/ LinkExpires(r) \/ FindResetLink(r) \/ ResetPassword(r)
  \/ DeleteAccount(r)
  \/ \E kind \in AccountKinds, w \in SomeoneOrNobody : AccountBegins(r, kind, w)
AccountsSpec == AccountsInit /\ [][AccountsNext]_accountVars

-----------------------------------------------------------------------------
\* Whichever way a customer signs in, and however two first sign-ins race, it is to
\* one account, while none is deleted.
SignInsMeet ==
  (\A u \in AccountCalls : users[u] # "deleted") =>
    \A r, s \in AccountCalls : sessions[r] # "none" /\ sessions[s] # "none" => seen[r].user = seen[s].user

\* "a password reset invalidates existing refresh tokens" (auth.service.ts:151): an
\* open session of a live account was opened with the password it has now, unless
\* the sign-in was already past its check when the reset committed.
ResetEndsSessions ==
  \A r \in AccountCalls \ overtaken :
    sessions[r] = "open" /\ users[seen[r].user] = "live" => password[seen[r].user] = seen[r].password

\* A reset link sets a password once, unless two resets with it overlapped.
ResetLinkWorksOnce ==
  \A f \in AccountCalls : timesUsed[f] > 1 =>
    \E r \in overtaken : accountTask[r].kind = "reset" /\ accountTask[r].with = f

\* A sign-in that begins after an account was deleted does not reach it by its
\* email; the provider's link still does.
DeletedStaysDeleted ==
  \A r \in AccountCalls : sessions[r] # "none" /\ seen[r].user \in goneBefore[r] =>
    accountTask[r].kind = "oauth"

\* What the accounts of one email promise, whichever way their owner signs in, resets the
\* password or leaves.
AccountsHold == SignInsMeet /\ ResetEndsSessions /\ ResetLinkWorksOnce /\ DeletedStaysDeleted
=============================================================================
