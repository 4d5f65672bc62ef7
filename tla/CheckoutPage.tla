---------------------------- MODULE CheckoutPage ----------------------------
(***************************************************************************)
(* The checkout page: the order form, the two calls that place an order    *)
(* and ask for its payment intent, and Stripe's payment form.  The page    *)
(* lives as long as the cart it shows has items, although placing the      *)
(* order empties the cart on the server; nothing refreshes it in between   *)
(* unless the shopper edits the cart from the sidebar.                     *)
(***************************************************************************)
EXTENDS Integers, FiniteSets

CONSTANTS
  OrderIds, Intents,  \* bound: orders and payment intents of a behaviour
  CartCalls,          \* bound: cart requests under way
  NoOrder, NoIntent

VARIABLES
  guest,      \* nobody is signed in: an email is asked for
  details,       \* what the order form holds: address, email, shipping option
  prefill,    \* the saved addresses: asked for, answered, or not to come
  shown,      \* the cart the page shows
  order, secret, failed, busy, submitting,   \* the state of the page and of Stripe's form
  placing,    \* where the handler that places an order is
  confirming, \* the intents being confirmed
  cartCall,   \* the requests about the cart
  cartFull, orders, intents,   \* the server's, and Stripe's
  left,       \* navigated to the confirmation page
  touched,    \* ghost: the cart was refetched, or was being, once the order stood
  doubt       \* ghost: what Stripe's form told the page is not what Stripe did

checkoutVars == <<guest, details, prefill, shown, order, secret, failed, busy, submitting, placing, confirming,
                  cartCall, cartFull, orders, intents, left, touched, doubt>>
formVars == <<guest, details, prefill>>
serverVars == <<cartFull, orders, intents>>

Addresses0 == {"blank", "saved", "typed"}
CheckoutPageTypeOK ==
  /\ guest \in BOOLEAN
  /\ details \in [address : Addresses0, email : BOOLEAN, option : BOOLEAN]
  /\ prefill \in {"asked", "done"}
  /\ shown \in {"loading", "some", "empty"}
  /\ order \in OrderIds \cup {NoOrder} /\ secret \in Intents \cup {NoIntent}
  /\ secret # NoIntent => intents[secret].order = order
  /\ {failed, busy, submitting, left, touched, doubt, cartFull} \subseteq BOOLEAN
  /\ placing \in {"idle", "ordering", "ordered", "refused", "asking", "asked", "denied"}
  /\ confirming \in [Intents -> {"no", "sent", "error", "paid", "pending"}]
  /\ cartCall \in [CartCalls -> {"idle", "update", "remove", "refresh", "some", "empty", "error"}]
  /\ orders \in [OrderIds -> {"none", "pending", "dropped"}]
  /\ intents \in [Intents -> [order : OrderIds \cup {NoOrder},
                              at : {"none", "open", "processing", "declined", "succeeded"}]]

CheckoutInit ==
  /\ guest \in BOOLEAN
  /\ details = [address |-> "blank", email |-> FALSE, option |-> FALSE]
  /\ prefill = IF guest THEN "done" ELSE "asked"
  /\ shown = "loading" /\ cartFull = TRUE
  /\ order = NoOrder /\ secret = NoIntent
  /\ failed = FALSE /\ busy = FALSE /\ submitting = FALSE /\ left = FALSE
  /\ touched = FALSE /\ doubt = FALSE
  /\ placing = "idle"
  /\ confirming = [i \in Intents |-> "no"]
  /\ \E c \in CartCalls : cartCall = [d \in CartCalls |-> IF d = c THEN "refresh" ELSE "idle"]
  /\ orders = [o \in OrderIds |-> "none"]
  /\ intents = [i \in Intents |-> [order |-> NoOrder, at |-> "none"]]

ASSUME CheckoutPageAssumption == NoOrder \notin OrderIds /\ NoIntent \notin Intents

Here == ~left
ShowsPage == Here /\ shown = "some"
ShowsForm1 == ShowsPage /\ order = NoOrder
ShowsPayment == ShowsPage /\ order # NoOrder /\ ~failed /\ secret # NoIntent
Answers == {"some", "empty", "error"}
CartBusy == {c \in CartCalls : cartCall[c] # "idle"}

-----------------------------------------------------------------------------
\* The form, filled by hand or by what the server answers, whichever comes last.
Prefill ==
  /\ Here /\ prefill = "asked"
  /\ prefill' = "done"
  /\ \E a \in {"saved", details.address} : details' = [details EXCEPT !.address = a]
  /\ UNCHANGED <<guest, shown, order, secret, failed, busy, submitting, placing, confirming, cartCall, serverVars,
                 left, touched, doubt>>

OptionsAnswered ==
  /\ Here /\ ~details.option
  /\ details' = [details EXCEPT !.option = TRUE]
  /\ UNCHANGED <<guest, prefill, shown, order, secret, failed, busy, submitting, placing, confirming, cartCall,
                 serverVars, left, touched, doubt>>

SelectSavedAddress ==
  /\ ShowsForm1 /\ ~guest /\ prefill = "done"
  /\ \E a \in {"saved", "blank"} : a # details.address /\ details' = [details EXCEPT !.address = a]
  /\ UNCHANGED <<guest, prefill, shown, order, secret, failed, busy, submitting, placing, confirming, cartCall,
                 serverVars, left, touched, doubt>>

TypeForm ==
  /\ ShowsForm1 /\ (details.address # "typed" \/ ~details.email)
  /\ details' = [details EXCEPT !.address = "typed", !.email = TRUE]
  /\ UNCHANGED <<guest, prefill, shown, order, secret, failed, busy, submitting, placing, confirming, cartCall,
                 serverVars, left, touched, doubt>>

-----------------------------------------------------------------------------
\* Place the order, then ask for its intent; either may be refused or lost.
FormOk == details.address # "blank" /\ (guest => details.email) /\ details.option
PlaceOrder ==
  /\ ShowsForm1 /\ ~busy /\ FormOk
  /\ busy' = TRUE /\ placing' = "ordering" /\ touched' = FALSE
  /\ UNCHANGED <<formVars, shown, order, secret, failed, submitting, confirming, cartCall, serverVars, left, doubt>>

NewOrders == {o \in OrderIds : orders[o] = "none"}
ServeCheckout ==
  /\ placing = "ordering"
  /\ \/ /\ cartFull
        /\ NewOrders # {}
        /\ orders' = [orders EXCEPT ![CHOOSE o \in NewOrders : TRUE] = "pending"]
        /\ cartFull' = FALSE
        /\ placing' = "ordered"
     \/ placing' = "refused" /\ UNCHANGED <<cartFull, orders>>
  /\ UNCHANGED <<formVars, shown, order, secret, failed, busy, submitting, confirming, cartCall, intents, left,
                 touched, doubt>>

\* A pending order has a new intent each time it is asked for.
NewIntents == {i \in Intents : intents[i].at = "none"}
ServeCreateIntent ==
  /\ placing = "asking"
  /\ \/ /\ order # NoOrder /\ orders[order] = "pending"
        /\ NewIntents # {}
        /\ intents' = [intents EXCEPT ![CHOOSE i \in NewIntents : TRUE] = [order |-> order, at |-> "open"]]
        /\ placing' = "asked"
     \/ placing' = "denied" /\ UNCHANGED intents
  /\ UNCHANGED <<formVars, shown, order, secret, failed, busy, submitting, confirming, cartCall, cartFull, orders,
                 left, touched, doubt>>

LosePlacing ==
  /\ \/ placing \in {"ordering", "ordered"} /\ placing' = "refused"
     \/ placing \in {"asking", "asked"} /\ placing' = "denied"
  /\ UNCHANGED <<formVars, shown, order, secret, failed, busy, submitting, confirming, cartCall, serverVars, left,
                 touched, doubt>>

Newest(o) == orders[o] = "pending" /\ ~\E i \in Intents : intents[i].order = o
EmptyOnceOrdered == "empty"
ShownOnceOrdered == shown
OrderAnswered ==
  /\ Here /\ placing = "ordered"
  /\ \E o \in OrderIds : Newest(o) /\ order' = o
  /\ shown' = ShownOnceOrdered
  /\ placing' = "asking"
  /\ touched' = (touched \/ CartBusy # {})
  /\ UNCHANGED <<formVars, secret, failed, busy, submitting, confirming, cartCall, serverVars, left, doubt>>

\* Until the page holds one, the intents of an order are alike.
IntentOf(i) == intents[i].order = order /\ intents[i].at # "none"
IntentAnswered ==
  /\ Here /\ placing = "asked"
  /\ \E i \in Intents : IntentOf(i) /\ secret' = i
  /\ placing' = "idle" /\ busy' = FALSE
  /\ UNCHANGED <<formVars, shown, order, failed, submitting, confirming, cartCall, serverVars, left, touched, doubt>>

PlacingFailed ==
  /\ Here /\ placing \in {"refused", "denied"}
  /\ placing' = "idle" /\ busy' = FALSE
  /\ UNCHANGED <<formVars, shown, order, secret, failed, submitting, confirming, cartCall, serverVars, left, touched,
                 doubt>>

MayRetry == secret = NoIntent
RetryPaymentIntent ==
  /\ ShowsPage /\ order # NoOrder /\ ~failed /\ MayRetry /\ ~busy
  /\ busy' = TRUE /\ placing' = "asking"
  /\ UNCHANGED <<formVars, shown, order, secret, failed, submitting, confirming, cartCall, serverVars, left, touched,
                 doubt>>

-----------------------------------------------------------------------------
\* Stripe's form.  It forgets that it submits when an empty cart takes its place; bound: one
\* that has come back is submitted once the confirmation under way has been answered.
Submittable == ~submitting /\ confirming[secret] = "no"
PayNow ==
  /\ ShowsPayment /\ Submittable
  /\ submitting' = TRUE /\ busy' = TRUE
  /\ confirming' = [confirming EXCEPT ![secret] = "sent"]
  /\ UNCHANGED <<formVars, shown, order, secret, failed, placing, cartCall, serverVars, left, touched, doubt>>

\* Stripe, external: an open intent is charged, declined, or left processing; an
\* incomplete card, or an intent that is not open, is an error and nothing more.
StripeConfirms(i) ==
  /\ confirming[i] = "sent"
  /\ \/ /\ intents[i].at = "open"
        /\ \E o \in {<<"succeeded", "paid">>, <<"declined", "error">>, <<"processing", "pending">>} :
             /\ intents' = [intents EXCEPT ![i].at = o[1]]
             /\ confirming' = [confirming EXCEPT ![i] = o[2]]
        /\ UNCHANGED doubt
     \/ confirming' = [confirming EXCEPT ![i] = "error"] /\ doubt' = TRUE /\ UNCHANGED intents
  /\ UNCHANGED <<formVars, shown, order, secret, failed, busy, submitting, placing, cartCall, cartFull, orders, left,
                 touched>>

StripeSettles(i) ==
  /\ intents[i].at = "processing"
  /\ \E at \in {"succeeded", "declined"} : intents' = [intents EXCEPT ![i].at = at]
  /\ UNCHANGED <<formVars, shown, order, secret, failed, busy, submitting, placing, confirming, cartCall, cartFull,
                 orders, left, touched, doubt>>

LoseConfirm(i) ==
  /\ confirming[i] \in {"paid", "pending"}
  /\ confirming' = [confirming EXCEPT ![i] = "error"] /\ doubt' = TRUE
  /\ UNCHANGED <<formVars, shown, order, secret, failed, busy, submitting, placing, cartCall, serverVars, left, touched>>

\* handleSubmit goes on: onError, or onSuccess, which leaves the page, or the form again.
GivesUp(a) == a = "error"
ConfirmAnswered(i) ==
  /\ Here /\ confirming[i] \in {"error", "paid", "pending"}
  /\ failed' = (failed \/ GivesUp(confirming[i]))
  /\ left' = (confirming[i] = "paid")
  /\ submitting' = (confirming[i] = "paid")
  /\ busy' = FALSE
  /\ confirming' = [confirming EXCEPT ![i] = "no"]
  /\ UNCHANGED <<formVars, shown, order, secret, placing, cartCall, serverVars, touched, doubt>>

StartNewOrder(c) ==
  /\ ShowsPage /\ order # NoOrder /\ failed
  /\ order' = NoOrder /\ secret' = NoIntent /\ failed' = FALSE
  /\ submitting' = FALSE
  /\ orders' = [orders EXCEPT ![order] = "dropped"]
  /\ cartCall[c] = "idle" /\ cartCall' = [cartCall EXCEPT ![c] = "refresh"]
  /\ UNCHANGED <<formVars, shown, busy, placing, confirming, cartFull, intents, left, touched, doubt>>

-----------------------------------------------------------------------------
\* The cart: edited from the page until the order stands, and from the sidebar.
EditCart(c) ==
  /\ ShowsPage /\ cartCall[c] = "idle"
  /\ \E k \in {"update", "remove"} : cartCall' = [cartCall EXCEPT ![c] = k]
  /\ UNCHANGED <<formVars, shown, order, secret, failed, busy, submitting, placing, confirming, serverVars, left,
                 touched, doubt>>

\* An item that is not there cannot be updated, but can be removed.
Contents == IF cartFull' THEN "some" ELSE "empty"
ServeCart(c) ==
  /\ \/ /\ cartCall[c] = "update"
        /\ UNCHANGED cartFull
        /\ cartCall' = [cartCall EXCEPT ![c] = IF cartFull THEN "some" ELSE "error"]
     \/ /\ cartCall[c] = "remove"
        /\ cartFull' \in {cartFull, FALSE}
        /\ cartCall' = [cartCall EXCEPT ![c] = Contents]
     \/ /\ cartCall[c] = "refresh"
        /\ UNCHANGED cartFull
        /\ cartCall' = [cartCall EXCEPT ![c] = Contents]
  /\ UNCHANGED <<formVars, shown, order, secret, failed, busy, submitting, placing, confirming, orders, intents, left,
                 touched, doubt>>

CartAnswered(c) ==
  /\ Here /\ cartCall[c] \in Answers
  /\ shown' = IF cartCall[c] = "error" THEN shown ELSE cartCall[c]
  /\ submitting' = (submitting /\ shown' = "some")
  /\ cartCall' = [cartCall EXCEPT ![c] = "idle"]
  /\ touched' = (touched \/ order # NoOrder \/ placing # "idle")
  /\ UNCHANGED <<formVars, order, secret, failed, busy, placing, confirming, serverVars, left, doubt>>

\* Another tab of the shopper fills the cart again.
FillCart ==
  /\ ~cartFull /\ cartFull' = TRUE
  /\ UNCHANGED <<formVars, shown, order, secret, failed, busy, submitting, placing, confirming, cartCall, orders,
                 intents, left, touched, doubt>>

CheckoutPageNext ==
  \/ Prefill \/ OptionsAnswered \/ SelectSavedAddress \/ TypeForm
  \/ PlaceOrder \/ ServeCheckout \/ ServeCreateIntent \/ LosePlacing
  \/ OrderAnswered \/ IntentAnswered \/ PlacingFailed \/ RetryPaymentIntent
  \/ PayNow \/ FillCart
  \/ \E i \in Intents : StripeConfirms(i) \/ StripeSettles(i) \/ LoseConfirm(i) \/ ConfirmAnswered(i)
  \/ \E c \in CartCalls : StartNewOrder(c) \/ EditCart(c) \/ ServeCart(c) \/ CartAnswered(c)

CheckoutPageSpec == CheckoutInit /\ [][CheckoutPageNext]_checkoutVars

-----------------------------------------------------------------------------
\* An order that stands keeps its payment form: placing it empties the cart on the
\* server, and the page goes with the cart it shows, so nothing that runs by itself
\* may refetch the cart before the payment is over.
PayableOrderIsShown ==
  Here /\ order # NoOrder /\ ~touched => shown = "some"

\* Whatever is retried, lost or declined, no order is charged twice: an order may
\* have several intents, but the page confirms the one it holds.
ChargedOnce ==
  \A i, j \in Intents :
    intents[i].at = "succeeded" /\ intents[j].at = "succeeded" /\ intents[i].order = intents[j].order => i = j

\* "This order wasn't charged and won't be retried": so the page says, and the order
\* that "Start a new order" leaves behind was declined, unless Stripe's form reported
\* an error that was none of Stripe's.
GivenUpIsDeclined ==
  ~doubt => /\ failed /\ secret # NoIntent => intents[secret].at = "declined"
            /\ \A i \in Intents : intents[i].order # NoOrder /\ orders[intents[i].order] = "dropped"
                                    => intents[i].at \in {"none", "open", "declined"}

\* The buttons come back: unless the cart was refetched while the order stood, which can
\* take the payment form away in the middle of a payment, the page is busy exactly while
\* one of its calls is under way.
BusyHasACall ==
  Here /\ ~touched => (busy <=> placing # "idle" \/ \E i \in Intents : confirming[i] # "no")

\* An order that can be paid is on the page, it is charged once, and one that was given up is
\* charged no more.
OrdersArePaidOnce == PayableOrderIsShown /\ ChargedOnce /\ GivenUpIsDeclined /\ BusyHasACall
=============================================================================
