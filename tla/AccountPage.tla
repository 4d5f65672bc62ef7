----------------------------- MODULE AccountPage -----------------------------
(***************************************************************************)
(* The account page: the second factor, which it reads once and then       *)
(* changes by calls whose buttons are never disabled, and the profile.     *)
(* The server keeps one secret for an account, and a setup replaces it.    *)
(***************************************************************************)
EXTENDS Integers

CONSTANTS TfaCalls,    \* bound: the calls about the second factor under way
          MaxSecrets   \* bound: setups begun

VARIABLES
  secretNow, begun, tfaOn,    \* of the server: the secret (0: none), setups so far, whether it is confirmed
  enabledShown, qrShown,      \* of the page: "enabled", and the secret whose QR code shows (0: none)
  scanned,                    \* the secret the shopper's authenticator has
  tfaCall,                    \* the calls
  surely,                     \* ghost: no call crossed another, was lost, or came before the status
  nameSaved, nameShown,       \* the name on the server, and in the session's user
  nameTyped, nameForm, saving, nameDoubt  \* the form, its save under way; ghost: an answer was lost

ASSUME AccountPageAssumption == TfaCalls # {} /\ MaxSecrets \in Nat \ {0}

tfaVars == <<secretNow, begun, tfaOn, enabledShown, qrShown, scanned, tfaCall, surely>>
nameVars == <<nameSaved, nameShown, nameTyped, nameForm, saving, nameDoubt>>
accountPageVars == <<tfaVars, nameVars>>

Names == {"n1", "n2"}
NotSaving == [at |-> "no", name |-> "n1"]
NoCall == [at |-> "idle", kind |-> "status", secret |-> 0]

AccountPageTypeOK ==
  /\ {tfaOn, enabledShown, surely, nameForm, nameDoubt} \subseteq BOOLEAN
  /\ {secretNow, begun, qrShown, scanned} \subseteq 0..MaxSecrets
  /\ tfaCall \in [TfaCalls -> [at : {"idle", "sent", "on", "off", "ok", "failed"},
                               kind : {"status", "setup", "enable", "disable"}, secret : 0..MaxSecrets]]
  /\ {nameSaved, nameShown, nameTyped} \subseteq Names
  /\ saving \in [at : {"no", "patch", "patched", "fetch", "read"}, name : Names]

AccountPageInit ==
  /\ tfaOn \in BOOLEAN /\ secretNow = (IF tfaOn THEN 1 ELSE 0)
  /\ begun = secretNow /\ scanned = secretNow
  /\ enabledShown = FALSE /\ qrShown = 0 /\ surely = TRUE
  /\ LET first == CHOOSE c \in TfaCalls : TRUE
     IN  tfaCall = [c \in TfaCalls |-> IF c = first THEN [NoCall EXCEPT !.at = "sent"] ELSE NoCall]
  /\ nameSaved = "n1" /\ nameShown = "n1" /\ nameTyped = "n1" /\ nameForm = FALSE /\ saving = NotSaving
  /\ nameDoubt = FALSE

-----------------------------------------------------------------------------
Calling == {c \in TfaCalls : tfaCall[c].at # "idle"}
TfaSend(c, kind, k) ==
  /\ tfaCall[c].at = "idle" /\ c = CHOOSE d \in TfaCalls : tfaCall[d].at = "idle"
  /\ tfaCall' = [tfaCall EXCEPT ![c] = [at |-> "sent", kind |-> kind, secret |-> k]]
  /\ surely' = (surely /\ Calling = {})
  /\ UNCHANGED <<secretNow, begun, tfaOn, enabledShown, qrShown, scanned, nameVars>>

\* What shows decides which button there is, whether or not the status has come.
OffersSetupAlways == qrShown = 0
OffersSetup == ~enabledShown /\ qrShown = 0
TfaBeginSetup(c) == OffersSetup /\ TfaSend(c, "setup", 0)
TfaConfirm(c) == ~enabledShown /\ qrShown # 0 /\ TfaSend(c, "enable", scanned)
TfaDisable(c) == enabledShown /\ TfaSend(c, "disable", 0)

Scan ==
  /\ ~enabledShown /\ qrShown # scanned /\ qrShown # 0
  /\ scanned' = qrShown
  /\ UNCHANGED <<secretNow, begun, tfaOn, enabledShown, qrShown, tfaCall, surely, nameVars>>

\* The server: a new secret is not confirmed, whatever the old one was.
ConfirmsWith(k) == k = secretNow /\ secretNow # 0
ServeTfa(c) ==
  LET w == tfaCall[c] IN
  /\ w.at = "sent"
  /\ CASE w.kind = "status" ->
            /\ tfaCall' = [tfaCall EXCEPT ![c].at = IF tfaOn THEN "on" ELSE "off"]
            /\ UNCHANGED <<secretNow, begun, tfaOn>>
       [] w.kind = "setup" ->
            /\ begun < MaxSecrets
            /\ begun' = begun + 1 /\ secretNow' = begun + 1 /\ tfaOn' = FALSE
            /\ tfaCall' = [tfaCall EXCEPT ![c].at = "ok", ![c].secret = begun + 1]
       [] w.kind = "enable" ->
            /\ tfaOn' = (tfaOn \/ ConfirmsWith(w.secret))
            /\ tfaCall' = [tfaCall EXCEPT ![c].at = IF ConfirmsWith(w.secret) THEN "ok" ELSE "failed"]
            /\ UNCHANGED <<secretNow, begun>>
       [] OTHER ->
            /\ tfaOn' = FALSE /\ secretNow' = 0 /\ UNCHANGED begun
            /\ tfaCall' = [tfaCall EXCEPT ![c].at = "ok"]
  /\ UNCHANGED <<enabledShown, qrShown, scanned, surely, nameVars>>

LoseTfa(c) ==
  /\ tfaCall[c].at \notin {"idle", "failed"}
  /\ tfaCall' = [tfaCall EXCEPT ![c].at = "failed"]
  /\ surely' = FALSE
  /\ UNCHANGED <<secretNow, begun, tfaOn, enabledShown, qrShown, scanned, nameVars>>

EnabledAfter(w) ==
  CASE w.kind = "status" -> w.at = "on"
    [] w.kind = "enable" -> TRUE
    [] w.kind = "disable" -> FALSE
    [] OTHER -> enabledShown
QrAfter(w) ==
  CASE w.kind = "setup" -> w.secret
    [] w.kind \in {"enable", "disable"} -> 0
    [] OTHER -> qrShown
TfaAnswered(c) ==
  LET w == tfaCall[c] IN
  /\ w.at \in {"on", "off", "ok", "failed"}
  /\ enabledShown' = IF w.at = "failed" THEN enabledShown ELSE EnabledAfter(w)
  /\ qrShown' = IF w.at = "failed" THEN qrShown ELSE QrAfter(w)
  /\ tfaCall' = [tfaCall EXCEPT ![c] = NoCall]
  /\ UNCHANGED <<secretNow, begun, tfaOn, scanned, surely, nameVars>>

-----------------------------------------------------------------------------
StartEditingProfile ==
  /\ ~nameForm
  /\ nameForm' = TRUE /\ nameTyped' = nameShown
  /\ UNCHANGED <<tfaVars, nameSaved, nameShown, saving, nameDoubt>>

TypeName ==
  /\ nameForm
  /\ \E n \in Names \ {nameTyped} : nameTyped' = n
  /\ UNCHANGED <<tfaVars, nameSaved, nameShown, nameForm, saving, nameDoubt>>

CancelProfile ==
  /\ nameForm /\ saving = NotSaving
  /\ nameForm' = FALSE
  /\ UNCHANGED <<tfaVars, nameSaved, nameShown, nameTyped, saving, nameDoubt>>

\* Save, then fetch the profile anew, which is what the rest of the page shows; the
\* fields may be typed in meanwhile, and what is typed is lost when the form closes.
SaveProfile ==
  /\ nameForm /\ saving = NotSaving
  /\ saving' = [at |-> "patch", name |-> nameTyped]
  /\ UNCHANGED <<tfaVars, nameSaved, nameShown, nameTyped, nameForm, nameDoubt>>

ServeProfile ==
  /\ \/ saving.at = "patch" /\ nameSaved' = saving.name /\ saving' = [saving EXCEPT !.at = "patched"]
     \/ saving.at = "fetch" /\ saving' = [at |-> "read", name |-> nameSaved] /\ UNCHANGED nameSaved
  /\ UNCHANGED <<tfaVars, nameShown, nameTyped, nameForm, nameDoubt>>

ProfilePatched ==
  /\ saving.at = "patched"
  /\ saving' = [saving EXCEPT !.at = "fetch"]
  /\ UNCHANGED <<tfaVars, nameSaved, nameShown, nameTyped, nameForm, nameDoubt>>

ProfileFetched ==
  /\ saving.at = "read"
  /\ nameShown' = saving.name /\ nameForm' = FALSE /\ nameDoubt' = FALSE
  /\ saving' = NotSaving
  /\ UNCHANGED <<tfaVars, nameSaved, nameTyped>>

SaveFailed ==
  /\ saving # NotSaving
  /\ saving' = NotSaving /\ nameDoubt' = TRUE
  /\ UNCHANGED <<tfaVars, nameSaved, nameShown, nameTyped, nameForm>>

\* The two share nothing but the messages at the top of the page.
TfaNext ==
  \/ \E c \in TfaCalls :
       TfaBeginSetup(c) \/ TfaConfirm(c) \/ TfaDisable(c) \/ ServeTfa(c) \/ LoseTfa(c) \/ TfaAnswered(c)
  \/ Scan
ProfileNext ==
  \/ StartEditingProfile \/ TypeName \/ CancelProfile \/ SaveProfile \/ ServeProfile
  \/ ProfilePatched \/ ProfileFetched \/ SaveFailed
AccountPageSpec == AccountPageInit /\ [][TfaNext \/ ProfileNext]_accountPageVars

-----------------------------------------------------------------------------
\* The page says "enabled" of the account that is, and shows the QR code of the secret
\* the server will check, unless calls crossed or were lost.
PageKnowsTheFactor ==
  surely /\ Calling = {} => enabledShown = tfaOn /\ (qrShown # 0 => qrShown = secretNow)

\* Only Disable takes a second factor away, or an Enable that was pressed before the page
\* knew there was one: beginning a setup drops the confirmed secret.
OnlyDisableDisarms ==
  [][tfaOn /\ ~tfaOn' /\ surely => \E c \in TfaCalls : tfaCall[c].kind = "disable"]_accountPageVars

\* The name that shows is the one on the server, unless a save or its refetch was lost.
NameShownIsSaved == ~nameDoubt /\ saving = NotSaving => nameShown = nameSaved

\* What the page says of the second factor and the name is so, and only Disable disarms.
AccountPageIsTrue == [](PageKnowsTheFactor /\ NameShownIsSaved) /\ OnlyDisableDisarms
==============================================================================
