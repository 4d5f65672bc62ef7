------------------------------ MODULE FormPages ------------------------------
(***************************************************************************)
(* The pages made of one form: sign-in with its second factor and the      *)
(* enrolment of staff, registration with its captcha, the two of the       *)
(* password reset, the return from an OAuth provider, the contact form and *)
(* the two bulk uploads.  Each validates, disables its button, calls the   *)
(* server, and shows what came of it; a call may be lost after the server  *)
(* has done its part.                                                      *)
(***************************************************************************)
EXTENDS Integers

CONSTANTS MaxSends   \* bound: the submissions of a behaviour

ASSUME FormPagesAssumption == MaxSends \in Nat

VARIABLES
  formPage, account,  \* the page; at sign-in, what the account has for a second factor
  filled, code,       \* the fields, and the code, pass validation
  captcha,            \* the token of the captcha: none, fresh, or verified once already
  view, enrolment,    \* the part of the page that shows; the QR code of an enrolment
  working, complaint, \* the button is disabled; an error shows
  post,               \* the call under way
  served,             \* how often the server did what the form is for
  sends, told, wanted, doubtful  \* ghosts: submissions, successes shown, asked for; an answer was lost

postVars == <<formPage, account, filled, code, captcha, view, enrolment, working, complaint, post, served,
              sends, told, wanted, doubtful>>

FormPagesList == {"login", "register", "forgot", "reset", "contact", "csv", "json", "oauth"}
Uploads == {"csv", "json"}
Idle0 == [at |-> "idle", step |-> "submit", code |-> FALSE, captcha |-> "none"]

FormPagesTypeOK ==
  /\ formPage \in FormPagesList /\ account \in {"plain", "enrolled", "staff"}
  /\ {filled, code, enrolment, working, complaint, doubtful} \subseteq BOOLEAN
  /\ captcha \in {"none", "fresh", "spent"}
  /\ view \in {"form", "code", "setup", "done"}
  /\ post \in [at : {"idle", "sent", "ok", "needsCode", "needsSetup", "refused", "lost"},
               step : {"submit", "setup", "enable", "profile"}, code : BOOLEAN, captcha : {"none", "fresh", "spent"}]
  /\ {served, sends, told, wanted} \subseteq 0..MaxSends + 1

FormPagesInit ==
  /\ formPage \in FormPagesList
  /\ account \in IF formPage = "login" THEN {"plain", "enrolled", "staff"} ELSE {"plain"}
  /\ filled = FALSE /\ code = FALSE /\ captcha = "none"
  /\ view = "form" /\ enrolment = FALSE /\ complaint = FALSE
  \* The token of the URL's fragment is used at once, and taken out of the address.
  /\ post = IF formPage = "oauth" THEN [Idle0 EXCEPT !.at = "sent", !.step = "profile"] ELSE Idle0
  /\ working = (formPage = "oauth")
  /\ served = 0 /\ sends = 0 /\ told = 0 /\ wanted = 1 /\ doubtful = FALSE

-----------------------------------------------------------------------------
Showing == view # "done"
\* A file is chosen, or text typed, even while an upload runs; fields once filled stay.
Fill ==
  /\ Showing /\ view # "setup" /\ formPage # "oauth" /\ ~filled
  /\ filled' = TRUE
  /\ wanted' = IF told > 0 \/ (formPage \in Uploads /\ working) THEN wanted + 1 ELSE wanted
  /\ wanted <= MaxSends
  /\ UNCHANGED <<formPage, account, code, captcha, view, enrolment, working, complaint, post, served, sends, told, doubtful>>

\* Any code that is not blank passes; recovery codes are taken as well.
TypeCode ==
  /\ (view = "code" \/ (view = "setup" /\ enrolment)) /\ ~code
  /\ code' = TRUE
  /\ UNCHANGED <<formPage, account, filled, captcha, view, enrolment, working, complaint, post, served, sends, told,
                 wanted, doubtful>>

\* The captcha's box is ticked; its token runs out, and nothing else resets it.
Tick ==
  /\ formPage = "register" /\ Showing /\ captcha' = (IF captcha = "none" THEN "fresh" ELSE "none")
  /\ UNCHANGED <<formPage, account, filled, code, view, enrolment, working, complaint, post, served, sends, told,
                 wanted, doubtful>>

\* One call at a time: the button is disabled while the form works.
Pressable == ~working
Send(step) ==
  /\ sends < MaxSends
  /\ sends' = sends + 1
  /\ working' = TRUE /\ complaint' = FALSE
  /\ post' = [at |-> "sent", step |-> step, code |-> view = "code", captcha |-> captcha]
  /\ UNCHANGED <<formPage, account, filled, code, captcha, view, enrolment, served, told, wanted, doubtful>>

SubmitForm ==
  /\ formPage # "oauth" /\ view \in {"form", "code"} /\ Pressable
  /\ IF view = "code" THEN code ELSE filled
  /\ formPage = "register" => captcha # "none"
  /\ Send("submit")

ConfirmMandatorySetup ==
  /\ view = "setup" /\ enrolment /\ code /\ Pressable
  /\ Send("enable")

-----------------------------------------------------------------------------
\* The server: a refusal changes nothing, but for the captcha, which was verified first.
Outcome ==
  IF post.step # "submit" \/ formPage # "login" THEN "ok"
  ELSE IF account = "staff" THEN "needsSetup"
  ELSE IF account = "enrolled" /\ ~post.code THEN "needsCode"
  ELSE "ok"
Refusable == {Outcome, "refused"}
DidAnyway(outcome) == TRUE
Did(outcome) == outcome = "ok"
Verified(p) == ~(formPage = "register" /\ p.captcha # "fresh")
ServeForm ==
  /\ post.at = "sent"
  /\ \E outcome \in IF Verified(post) THEN Refusable ELSE {"refused"} :
       /\ post' = [post EXCEPT !.at = outcome]
       /\ served' = IF Did(outcome) /\ post.step # "setup" THEN served + 1 ELSE served
  /\ captcha' = IF captcha = "fresh" /\ formPage = "register" /\ post.captcha = "fresh" THEN "spent" ELSE captcha
  /\ UNCHANGED <<formPage, account, filled, code, view, enrolment, working, complaint, sends, told, wanted, doubtful>>

LosePost ==
  /\ post.at \notin {"idle", "lost", "refused"}
  /\ post' = [post EXCEPT !.at = "lost"]
  /\ doubtful' = TRUE
  /\ UNCHANGED <<formPage, account, filled, code, captcha, view, enrolment, working, complaint, served, sends, told, wanted>>

-----------------------------------------------------------------------------
Stay == UNCHANGED <<formPage, account, captcha, served, sends, wanted, doubtful>>
Resting == working' = FALSE /\ post' = Idle0

\* The uploads empty the form whatever it holds by now, and stay; the others leave it.
ViewAfter(p) == IF formPage \in Uploads THEN "form" ELSE "done"
Succeeded ==
  /\ post.at = "ok" /\ post.step # "setup"
  /\ view' = ViewAfter(post) /\ told' = told + 1
  /\ filled' = (filled /\ formPage \notin Uploads)
  /\ Resting /\ Stay /\ UNCHANGED <<code, enrolment, complaint>>

NeedsCode ==
  /\ post.at = "needsCode"
  /\ view' = "code"
  /\ Resting /\ Stay /\ UNCHANGED <<filled, code, enrolment, complaint, told>>

\* Staff without a second factor enrol before anything else; the page asks at once.
NeedsSetup ==
  /\ post.at = "needsSetup"
  /\ view' = "setup" /\ post' = [Idle0 EXCEPT !.at = "sent", !.step = "setup"]
  /\ Stay /\ UNCHANGED <<filled, code, enrolment, working, complaint, told>>

SetupArrived ==
  /\ post.at = "ok" /\ post.step = "setup"
  /\ enrolment' = TRUE
  /\ Resting /\ Stay /\ UNCHANGED <<filled, code, view, complaint, told>>

Failed ==
  /\ post.at \in {"refused", "lost"}
  /\ complaint' = TRUE
  /\ Resting /\ Stay /\ UNCHANGED <<filled, code, view, enrolment, told>>

\* "Send Another Message": the form comes back as it was, filled.
Another ==
  /\ formPage = "contact" /\ view = "done" /\ wanted <= MaxSends
  /\ view' = "form" /\ wanted' = wanted + 1
  /\ UNCHANGED <<formPage, account, filled, code, captcha, enrolment, working, complaint, post, served, sends, told, doubtful>>

FormPagesNext ==
  \/ Fill \/ TypeCode \/ Tick \/ SubmitForm \/ ConfirmMandatorySetup
  \/ ServeForm \/ LosePost
  \/ Succeeded \/ NeedsCode \/ NeedsSetup \/ SetupArrived \/ Failed \/ Another

FormPagesSpec == FormPagesInit /\ [][FormPagesNext]_postVars

-----------------------------------------------------------------------------
\* A form at rest has told the shopper of each thing the server did, and of nothing
\* else: an error means nothing was done, unless an answer was lost.
SaysWhatHappened == ~working /\ ~doubtful => served = told

\* Nothing is done more often than the shopper asked: the button cannot send twice.
NothingTwice == ~doubtful => served <= wanted

\* The button comes back: it is disabled for a call that is under way.
WorkingHasACall == working <=> post.at # "idle"

\* "Preparing your enrollment..." is followed by the enrolment, or by an error.
SetupShowsOrFails == view = "setup" /\ ~enrolment /\ ~working => complaint

\* A form says what happened, does it once, and always leaves a way on.
FormsTellTheTruth == SaysWhatHappened /\ NothingTwice /\ WorkingHasACall /\ SetupShowsOrFails
==============================================================================
