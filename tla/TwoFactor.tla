------------------------------ MODULE TwoFactor ------------------------------
(***************************************************************************)
(* The second factor of one account: its enrolment (a secret to scan, then *)
(* a code that proves it was scanned), its removal, and the sign-ins that  *)
(* must show it.  Requests interleave between their statements.  A secret  *)
(* is named by the setup that made it, and so are its recovery codes.      *)
(***************************************************************************)
EXTENDS Naturals, FiniteSets

CONSTANTS
  SecretCalls,     \* bound: the requests of a behaviour
  SecretMenu,      \* bound: SecretMenu[r] are the kinds of call that r may be
  PerSetup,        \* recovery codes made by a setup
  NoSetup

VARIABLES
  role,        \* the account's role: staff must have a second factor
  secret,      \* the TwoFactorSecret row
  secretTask,  \* what each request asks, and the code it shows
  secretAt,    \* the statement each request is at
  secretSeen,  \* the row each request read
  proved,      \* ghost: setups whose secret a code has proved
  usedCodes,   \* ghost: how many sign-ins each recovery code let in
  crossed      \* ghost: requests that overlapped one that writes the row

secretVars == <<role, secret, secretTask, secretAt, secretSeen, proved, usedCodes, crossed>>

\* Support and sales staff are treated alike.
Staff == role # "USER"
Codes == SecretCalls \X (1..PerSetup)
NoCode == <<NoSetup, 0>>
\* A request shows the code of the app that scanned a setup's secret, or a recovery
\* code, or none.
SecretKinds == {"setup", "enable", "disable", "login"}
SecretTasks ==
  [kind : {"enable", "login"}, app : SecretCalls, code : {NoCode}]
  \cup [kind : {"login"}, app : {NoSetup}, code : Codes]
  \cup [kind : SecretKinds \cup {"none"}, app : {NoSetup}, code : {NoCode}]
NoSecret == [by |-> NoSetup, enabled |-> FALSE, codes |-> {}]
SecretRows == [by : SecretCalls \cup {NoSetup}, enabled : BOOLEAN, codes : SUBSET Codes]
NoSecretTask == [kind |-> "none", app |-> NoSetup, code |-> NoCode]
SecretSteps == {"idle", "check", "verify", "find", "write", "issue", "enrol", "session", "done", "askCode",
                "refused", "failed"}

ASSUME TwoFactorAssumption ==
  /\ IsFiniteSet(SecretCalls)
  /\ PerSetup \in Nat
  /\ NoSetup \notin SecretCalls
  /\ SecretMenu \in [SecretCalls -> SUBSET SecretKinds]

TwoFactorTypeOK ==
  /\ role \in {"USER", "SUPPORT", "ADMIN"}
  /\ secret \in SecretRows /\ (secret.by = NoSetup => secret = NoSecret)
  /\ secretTask \in [SecretCalls -> SecretTasks]
  /\ secretAt \in [SecretCalls -> SecretSteps]
  /\ secretSeen \in [SecretCalls -> SecretRows]
  /\ proved \subseteq SecretCalls
  /\ usedCodes \in [Codes -> Nat]
  /\ crossed \subseteq SecretCalls

TwoFactorInit ==
  /\ role \in {"USER", "SUPPORT", "ADMIN"}
  /\ secret = NoSecret
  /\ secretTask = [r \in SecretCalls |-> NoSecretTask]
  /\ secretAt = [r \in SecretCalls |-> "idle"]
  /\ secretSeen = [r \in SecretCalls |-> NoSecret]
  /\ proved = {}
  /\ usedCodes = [c \in Codes |-> 0]
  /\ crossed = {}

SecretGoes(r, step) == secretAt' = [secretAt EXCEPT ![r] = step]
Forget(r) == secretSeen' = [secretSeen EXCEPT ![r] = NoSecret]
Remember(r) == secretSeen' = [secretSeen EXCEPT ![r] = secret]
\* A write changes the row under the others that have read it.
Crossed(r) == crossed' = crossed \cup {q \in SecretCalls \ {r} : secretSeen[q] # NoSecret}

-----------------------------------------------------------------------------
\* A request arrives; one that shows a code shows that of a setup made before.
SecretBegins(r, t) ==
  /\ secretAt[r] = "idle"
  /\ t.kind \in SecretMenu[r]
  /\ \A s \in {t.app, t.code[1]} \ {NoSetup} : secretAt[s] = "done" /\ secretTask[s].kind = "setup"
  /\ secretTask' = [secretTask EXCEPT ![r] = t]
  /\ SecretGoes(r, CASE t.kind = "login" -> "check"
                     [] t.kind = "enable" -> "find"
                     [] t.kind = "disable" /\ role = "ADMIN" -> "refused"
                     [] OTHER -> "write")
  /\ Forget(r)
  /\ UNCHANGED <<role, secret, proved, usedCodes, crossed>>

StaysEnabled(r) == [by |-> r, enabled |-> secret.enabled, codes |-> {c \in Codes : c[1] = r}]
NewSecret(r) == [by |-> r, enabled |-> FALSE, codes |-> {c \in Codes : c[1] = r}]
\* beginSetup: the row is replaced, and is not enabled until a code proves it.
BeginSetup(r) ==
  /\ secretAt[r] = "write" /\ secretTask[r].kind = "setup"
  /\ secret' = NewSecret(r)
  /\ SecretGoes(r, "done")
  /\ Crossed(r)
  /\ UNCHANGED <<role, secretTask, secretSeen, proved, usedCodes>>

Disable(r) ==
  /\ secretAt[r] = "write" /\ secretTask[r].kind = "disable"
  /\ secret' = NoSecret
  /\ SecretGoes(r, "done")
  /\ Crossed(r)
  /\ UNCHANGED <<role, secretTask, secretSeen, proved, usedCodes>>

\* confirm: the code is checked against the secret read...
FindSecret(r) ==
  /\ secretAt[r] = "find"
  /\ IF secret.by = NoSetup \/ secretTask[r].app # secret.by
     THEN SecretGoes(r, "refused") /\ Forget(r) /\ UNCHANGED proved
     ELSE /\ SecretGoes(r, "write") /\ Remember(r)
          /\ proved' = proved \cup {secret.by}
  /\ UNCHANGED <<role, secret, secretTask, usedCodes, crossed>>

\* ... and the row that is there then is enabled.  A member of staff who enrolled in
\* the middle of a sign-in is given the session.
RowThere == secret.by # NoSetup
Enabled(row) == [row EXCEPT !.enabled = TRUE]
Confirm(r) ==
  /\ secretAt[r] = "write" /\ secretTask[r].kind = "enable"
  /\ IF ~RowThere
     THEN SecretGoes(r, "failed") /\ UNCHANGED <<secret, crossed>>
     ELSE /\ secret' = Enabled(secret)
          /\ \E step \in {"done"} \cup (IF Staff THEN {"session"} ELSE {}) : SecretGoes(r, step)
          /\ Crossed(r)
  /\ Forget(r)
  /\ UNCHANGED <<role, secretTask, proved, usedCodes>>

-----------------------------------------------------------------------------
MustEnrol == Staff /\ ~secret.enabled
\* login: the password was right; isEnabled.
CheckEnabled(r) ==
  /\ secretAt[r] = "check"
  /\ SecretGoes(r, IF MustEnrol THEN "enrol"
                   ELSE IF ~secret.enabled THEN "issue"
                   ELSE IF secretTask[r].app = NoSetup /\ secretTask[r].code = NoCode THEN "askCode"
                   ELSE "verify")
  /\ UNCHANGED <<role, secret, secretTask, secretSeen, proved, usedCodes, crossed>>

\* verifyCode: the app's code, or else one of the recovery codes read, which is
\* then taken out of them.
VerifyCode(r) ==
  /\ secretAt[r] = "verify"
  /\ CASE ~secret.enabled -> SecretGoes(r, "refused") /\ Forget(r)
       [] secret.enabled /\ secretTask[r].app = secret.by -> SecretGoes(r, "issue") /\ Forget(r)
       [] secret.enabled /\ secretTask[r].app # secret.by /\ secretTask[r].code \in secret.codes ->
            SecretGoes(r, "write") /\ Remember(r)
       [] OTHER -> SecretGoes(r, "refused") /\ Forget(r)
  /\ UNCHANGED <<role, secret, secretTask, proved, usedCodes, crossed>>

Remaining(r) == secretSeen[r].codes \ {secretTask[r].code}
SpendCode(r) ==
  /\ secretAt[r] = "write" /\ secretTask[r].kind = "login"
  /\ IF ~RowThere
     THEN SecretGoes(r, "failed") /\ UNCHANGED <<secret, usedCodes, crossed>>
     ELSE /\ secret' = [secret EXCEPT !.codes = Remaining(r)]
          /\ usedCodes' = [usedCodes EXCEPT ![secretTask[r].code] = @ + 1]
          /\ SecretGoes(r, "issue")
          /\ Crossed(r)
  /\ Forget(r)
  /\ UNCHANGED <<role, secretTask, proved>>

\* isEnabled once more, for the token's claim, and issuePair.
OpenSession(r) ==
  /\ secretAt[r] = "issue"
  /\ SecretGoes(r, "session")
  /\ UNCHANGED <<role, secret, secretTask, secretSeen, proved, usedCodes, crossed>>

SecretNext == \E r \in SecretCalls :
  \/ BeginSetup(r) \/ Disable(r) \/ FindSecret(r) \/ Confirm(r)
  \/ CheckEnabled(r) \/ VerifyCode(r) \/ SpendCode(r) \/ OpenSession(r)
  \/ \E t \in SecretTasks : SecretBegins(r, t)
TwoFactorSpec == TwoFactorInit /\ [][SecretNext]_secretVars

-----------------------------------------------------------------------------
\* Nobody is locked out: the secret that sign-ins are checked against is one whose
\* code was shown, unless a new setup replaced it while a code was being confirmed.
EnabledSecretIsProved ==
  secret.enabled /\ secret.by \notin proved => \E r \in crossed : secretTask[r].kind = "enable"

\* "single-use recovery codes" (two-factor.service.ts:72): a code lets in one
\* sign-in, unless a sign-in with it overlapped another write of the row.
RecoveryCodesAreSpent ==
  \A c \in Codes : usedCodes[c] > 1 =>
    \E r \in crossed : secretTask[r].kind = "login" /\ secretTask[r].code # NoCode

\* The recovery codes kept are those shown with the secret kept, unless a sign-in
\* with an older one overlapped the setup; and none of those spent.
CodesGoWithSecret ==
  \/ \E r \in crossed : secretTask[r].kind = "login" /\ secretTask[r].code # NoCode
  \/ \A c \in secret.codes : c[1] = secret.by /\ usedCodes[c] = 0

\* A member of staff has a session only after a second factor was shown, whatever
\* was set up or confirmed meanwhile.
StaffShowACode ==
  \A r \in SecretCalls : Staff /\ secretAt[r] = "session" =>
    secretTask[r].app # NoSetup \/ secretTask[r].code # NoCode

\* What the second factor promises of its secrets, its codes and the staff's sign-ins.
SecondFactorHolds ==
  EnabledSecretIsProved /\ RecoveryCodesAreSpent /\ CodesGoWithSecret /\ StaffShowACode
=============================================================================
