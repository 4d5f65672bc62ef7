-------------------------- MODULE ShopPagesProofs ---------------------------
(***************************************************************************)
(* The shop's pages: the checkout, the cart, the catalogue, the page of a  *)
(* product, the orders and the search, one part per page.                  *)
(***************************************************************************)
EXTENDS CheckoutPage, CartPages, CatalogPage, ProductPages, OrderPages, SearchBox, FiniteSetTheorems,
        SequenceTheorems, TLAPS

-----------------------------------------------------------------------------
(* The checkout page: for every number of orders, intents and cart requests. *)

\* The page places an order, or asks for its intent, or has one: never two of these, and what
\* is under way with the bank is the intent that the page holds.
PhasesFit ==
  /\ placing \in {"ordering", "ordered", "refused"} => order = NoOrder
  /\ placing \in {"asking", "asked", "denied"} => order # NoOrder
  /\ placing # "idle" => secret = NoIntent /\ ~failed /\ Here
  /\ secret # NoIntent => order # NoOrder /\ intents[secret].at # "none"
  /\ failed => secret # NoIntent
  /\ \A i \in Intents : confirming[i] # "no" => i = secret /\ ~failed /\ Here
  /\ submitting => left \/ \E i \in Intents : confirming[i] # "no"

\* The orders and intents: an intent belongs to an order, and the page's order is pending.
IntentsFit ==
  /\ order # NoOrder => orders[order] = "pending"
  /\ \A i \in Intents :
       /\ intents[i].at = "none" <=> intents[i].order = NoOrder
       /\ intents[i].order # NoOrder => orders[intents[i].order] # "none"

\* Of an order's intents one is tried, which is the page's while the order is.
Tried(i) == intents[i].at \in {"processing", "declined", "succeeded"}
OneTried ==
  /\ \A i \in Intents : Tried(i) /\ intents[i].order = order => i = secret
  /\ \A i, j \in Intents : Tried(i) /\ Tried(j) /\ intents[i].order = intents[j].order => i = j

\* Without doubt, an error is a refusal of the bank.
ErrorsAreRefusals ==
  ~doubt => \A i \in Intents : confirming[i] = "error" => intents[i].at = "declined"

\* The cart is on the page from the moment an order is being placed.
CartIsShown == Here /\ (placing # "idle" \/ order # NoOrder) /\ ~touched => shown = "some"

CheckoutPageInv ==
  /\ CheckoutPageTypeOK /\ PhasesFit /\ IntentsFit /\ OneTried /\ ErrorsAreRefusals /\ CartIsShown
  /\ GivenUpIsDeclined /\ BusyHasACall

LEMMA InitCheckoutPage == CheckoutInit => CheckoutPageInv
  <1> SUFFICES ASSUME CheckoutInit PROVE CheckoutPageInv
    OBVIOUS
  <1> USE CheckoutPageAssumption DEF CheckoutInit
  <1>1. CheckoutPageTypeOK
    BY DEF CheckoutPageTypeOK, Addresses0
  <1>2. PhasesFit /\ IntentsFit
    BY DEF PhasesFit, IntentsFit
  <1>3. OneTried /\ ErrorsAreRefusals
    BY DEF OneTried, Tried, ErrorsAreRefusals
  <1>4. CartIsShown /\ GivenUpIsDeclined /\ BusyHasACall
    BY DEF CartIsShown, GivenUpIsDeclined, BusyHasACall
  <1> QED BY <1>1, <1>2, <1>3, <1>4 DEF CheckoutPageInv

\* A step that touches neither the order nor its payment: the form, and requests about the cart.
payVars == <<shown, order, secret, failed, busy, submitting, placing, confirming, orders, intents, left, touched, doubt>>
LEMMA SamePayment ==
  ASSUME CheckoutPageInv, CheckoutPageTypeOK', UNCHANGED payVars
  PROVE  CheckoutPageInv'
  <1> USE DEF CheckoutPageInv, payVars
  <1>1. PhasesFit' /\ IntentsFit'
    BY DEF PhasesFit, IntentsFit, Here
  <1>2. OneTried' /\ ErrorsAreRefusals'
    BY DEF OneTried, Tried, ErrorsAreRefusals
  <1>3. CartIsShown' /\ GivenUpIsDeclined' /\ BusyHasACall'
    BY DEF CartIsShown, GivenUpIsDeclined, BusyHasACall, Here
  <1> QED BY <1>1, <1>2, <1>3

LEMMA FormSteps ==
  ASSUME CheckoutPageInv, Prefill \/ OptionsAnswered \/ SelectSavedAddress \/ TypeForm
  PROVE  CheckoutPageInv'
  <1>1. CheckoutPageTypeOK'
    <2>1. details \in [address : Addresses0, email : BOOLEAN, option : BOOLEAN]
      BY DEF CheckoutPageInv, CheckoutPageTypeOK
    <2>2. details' \in [address : Addresses0, email : BOOLEAN, option : BOOLEAN]
      <3>1. CASE Prefill
        <4>1. PICK a \in Addresses0 : details' = [details EXCEPT !.address = a]
          BY <2>1, <3>1 DEF Prefill, Addresses0
        <4> QED BY <2>1, <4>1
      <3>2. CASE OptionsAnswered
        BY <2>1, <3>2 DEF OptionsAnswered
      <3>3. CASE SelectSavedAddress
        <4>1. PICK a \in Addresses0 : details' = [details EXCEPT !.address = a]
          BY <3>3 DEF SelectSavedAddress, Addresses0
        <4> QED BY <2>1, <4>1
      <3>4. CASE TypeForm
        BY <2>1, <3>4 DEF TypeForm, Addresses0
      <3> QED BY <3>1, <3>2, <3>3, <3>4
    <2>3. /\ UNCHANGED <<guest, shown, order, secret, failed, busy, submitting, placing, confirming, cartCall,
                         cartFull, orders, intents, left, touched, doubt>>
          /\ prefill' \in {prefill, "done"}
      BY DEF Prefill, OptionsAnswered, SelectSavedAddress, TypeForm, serverVars
    <2> QED BY <2>2, <2>3 DEF CheckoutPageInv, CheckoutPageTypeOK
  <1>2. UNCHANGED payVars
    BY DEF payVars, Prefill, OptionsAnswered, SelectSavedAddress, TypeForm, serverVars
  <1> QED BY <1>1, <1>2, SamePayment

LEMMA SidebarRequests ==
  ASSUME CheckoutPageInv, FillCart \/ \E c \in CartCalls : EditCart(c) \/ ServeCart(c)
  PROVE  CheckoutPageInv'
  <1>1. ASSUME NEW c \in CartCalls, EditCart(c) \/ ServeCart(c) PROVE CheckoutPageTypeOK'
    <2>1. \E k \in {"update", "remove", "some", "empty", "error"} : cartCall' = [cartCall EXCEPT ![c] = k]
      BY <1>1 DEF EditCart, ServeCart, Contents
    <2>2. cartFull' \in BOOLEAN
      BY <1>1 DEF EditCart, ServeCart, CheckoutPageInv, CheckoutPageTypeOK, serverVars
    <2>3. UNCHANGED <<guest, details, prefill, shown, order, secret, failed, busy, submitting, placing, confirming,
                      orders, intents, left, touched, doubt>>
      BY <1>1 DEF EditCart, ServeCart, formVars, serverVars
    <2> QED BY <2>1, <2>2, <2>3 DEF CheckoutPageInv, CheckoutPageTypeOK
  <1>2. ASSUME FillCart PROVE CheckoutPageTypeOK'
    BY <1>2 DEF CheckoutPageInv, CheckoutPageTypeOK, FillCart, formVars
  <1>3. UNCHANGED payVars
    BY DEF payVars, FillCart, EditCart, ServeCart, formVars, serverVars
  <1> QED BY <1>1, <1>2, <1>3, SamePayment

LEMMA PlaceOrderPage ==
  ASSUME CheckoutPageInv, PlaceOrder
  PROVE  CheckoutPageInv'
  <1> USE DEF CheckoutPageInv, PlaceOrder, formVars, serverVars, Here, ShowsForm1, ShowsPage
  <1>1. CheckoutPageTypeOK'
    BY CheckoutPageAssumption
      DEF CheckoutPageTypeOK
  <1>2. PhasesFit'
    BY CheckoutPageAssumption, <1>1 DEF PhasesFit
  <1>3. IntentsFit'
    BY CheckoutPageAssumption, <1>1 DEF IntentsFit
  <1>4. OneTried'
    BY CheckoutPageAssumption, <1>1 DEF OneTried, Tried, IntentsFit, PhasesFit
  <1>5. ErrorsAreRefusals'
    BY CheckoutPageAssumption, <1>1 DEF ErrorsAreRefusals, PhasesFit
  <1>6. CartIsShown'
    BY CheckoutPageAssumption, <1>1 DEF CartIsShown, PhasesFit
  <1>7. GivenUpIsDeclined'
    BY CheckoutPageAssumption, <1>1 DEF GivenUpIsDeclined, PhasesFit, IntentsFit, OneTried, Tried, ErrorsAreRefusals
  <1>8. BusyHasACall'
    BY CheckoutPageAssumption, <1>1 DEF BusyHasACall, PhasesFit
  <1> QED BY <1>1, <1>2, <1>3, <1>4, <1>5, <1>6, <1>7, <1>8

LEMMA ServeCheckoutPage ==
  ASSUME CheckoutPageInv, ServeCheckout
  PROVE  CheckoutPageInv'
  <1> USE DEF CheckoutPageInv, ServeCheckout, formVars, serverVars, Here, NewOrders
  <1>1. CheckoutPageTypeOK'
    BY CheckoutPageAssumption
      DEF CheckoutPageTypeOK
  <1>2. PhasesFit'
    BY CheckoutPageAssumption, <1>1 DEF PhasesFit
  <1>3. IntentsFit'
    <2>1. \A o \in OrderIds : orders[o] # "none" => orders'[o] = orders[o]
      BY DEF CheckoutPageTypeOK
    <2> QED BY <2>1 DEF IntentsFit, CheckoutPageTypeOK
  <1>4. OneTried'
    BY CheckoutPageAssumption, <1>1 DEF OneTried, Tried, IntentsFit, PhasesFit
  <1>5. ErrorsAreRefusals'
    BY CheckoutPageAssumption, <1>1 DEF ErrorsAreRefusals, PhasesFit
  <1>6. CartIsShown'
    BY CheckoutPageAssumption, <1>1 DEF CartIsShown, PhasesFit
  <1>7. GivenUpIsDeclined'
    <2>1. \A o \in OrderIds : orders'[o] = "dropped" => orders[o] = "dropped"
      BY DEF CheckoutPageTypeOK
    <2> QED BY <2>1 DEF GivenUpIsDeclined, CheckoutPageTypeOK
  <1>8. BusyHasACall'
    BY CheckoutPageAssumption, <1>1 DEF BusyHasACall, PhasesFit
  <1> QED BY <1>1, <1>2, <1>3, <1>4, <1>5, <1>6, <1>7, <1>8

LEMMA ServeCreateIntentPage ==
  ASSUME CheckoutPageInv, ServeCreateIntent
  PROVE  CheckoutPageInv'
  <1> USE CheckoutPageAssumption DEF CheckoutPageInv
  <1>1. /\ placing = "asking" /\ order # NoOrder /\ secret = NoIntent /\ ~failed /\ Here
        /\ \A i \in Intents : confirming[i] = "no"
    BY DEF ServeCreateIntent, PhasesFit, CheckoutPageTypeOK
  <1>2. UNCHANGED <<guest, details, prefill, shown, order, secret, failed, busy, submitting, confirming, cartCall,
                    cartFull, orders, left, touched, doubt>> /\ placing' \in {"asked", "denied"}
    BY DEF ServeCreateIntent, formVars
  <1>3. CASE intents' = intents
    <2>1. CheckoutPageTypeOK'
      BY <1>2, <1>3 DEF CheckoutPageTypeOK
    <2>2. PhasesFit' /\ IntentsFit'
      BY <1>1, <1>2, <1>3 DEF PhasesFit, IntentsFit, Here
    <2>3. OneTried' /\ ErrorsAreRefusals'
      BY <1>2, <1>3 DEF OneTried, Tried, ErrorsAreRefusals
    <2>4. CartIsShown' /\ GivenUpIsDeclined' /\ BusyHasACall'
      BY <1>1, <1>2, <1>3 DEF CartIsShown, GivenUpIsDeclined, BusyHasACall, Here
    <2> QED BY <2>1, <2>2, <2>3, <2>4
  <1>4. CASE intents' # intents
    <2>1. /\ orders[order] = "pending" /\ NewIntents # {}
          /\ intents' = [intents EXCEPT ![CHOOSE i \in NewIntents : TRUE] = [order |-> order, at |-> "open"]]
      BY <1>4 DEF ServeCreateIntent
    <2>2. PICK n \in NewIntents : n = CHOOSE i \in NewIntents : TRUE
      BY <2>1
    <2>3. n \in Intents /\ intents[n].at = "none" /\ order \in OrderIds
      BY <1>1, <2>2 DEF NewIntents, CheckoutPageTypeOK
    <2>4. /\ intents' \in [Intents -> [order : OrderIds \cup {NoOrder},
                                      at : {"none", "open", "processing", "declined", "succeeded"}]]
          /\ intents'[n].order = order /\ intents'[n].at = "open"
          /\ \A i \in Intents \ {n} : intents'[i] = intents[i]
      BY <2>1, <2>2, <2>3 DEF CheckoutPageTypeOK
    <2>5. CheckoutPageTypeOK'
      BY <1>1, <1>2, <2>4 DEF CheckoutPageTypeOK
    <2>6. PhasesFit'
      BY <1>1, <1>2 DEF PhasesFit, Here
    <2>7. IntentsFit'
      <3>1. ASSUME NEW i \in Intents
            PROVE  /\ intents'[i].at = "none" <=> intents'[i].order = NoOrder
                   /\ intents'[i].order # NoOrder => orders[intents'[i].order] # "none"
        BY <1>1, <2>1, <2>4 DEF IntentsFit
      <3> QED BY <1>2, <2>1, <3>1 DEF IntentsFit
    <2>8. \A i \in Intents : Tried(i)' => Tried(i) /\ i # n /\ intents'[i] = intents[i]
      BY <2>4 DEF Tried
    <2>9. OneTried'
      BY <1>2, <2>8 DEF OneTried
    <2>10. ErrorsAreRefusals'
      BY <1>1, <1>2 DEF ErrorsAreRefusals
    <2>11. CartIsShown' /\ BusyHasACall'
      BY <1>1, <1>2 DEF CartIsShown, BusyHasACall, Here
    <2>12. GivenUpIsDeclined'
      BY <1>1, <1>2, <2>1, <2>4 DEF GivenUpIsDeclined
    <2> QED BY <2>5, <2>6, <2>7, <2>9, <2>10, <2>11, <2>12
  <1> QED BY <1>3, <1>4

LEMMA LosePlacingPage ==
  ASSUME CheckoutPageInv, LosePlacing
  PROVE  CheckoutPageInv'
  <1> USE DEF CheckoutPageInv, LosePlacing, formVars, serverVars, Here
  <1>1. CheckoutPageTypeOK'
    BY CheckoutPageAssumption
      DEF CheckoutPageTypeOK
  <1>2. PhasesFit'
    BY CheckoutPageAssumption, <1>1 DEF PhasesFit
  <1>3. IntentsFit'
    BY CheckoutPageAssumption, <1>1 DEF IntentsFit
  <1>4. OneTried'
    BY CheckoutPageAssumption, <1>1 DEF OneTried, Tried, IntentsFit, PhasesFit
  <1>5. ErrorsAreRefusals'
    BY CheckoutPageAssumption, <1>1 DEF ErrorsAreRefusals, PhasesFit
  <1>6. CartIsShown'
    BY CheckoutPageAssumption, <1>1 DEF CartIsShown, PhasesFit
  <1>7. GivenUpIsDeclined'
    BY CheckoutPageAssumption, <1>1 DEF GivenUpIsDeclined, PhasesFit, IntentsFit, OneTried, Tried, ErrorsAreRefusals
  <1>8. BusyHasACall'
    BY CheckoutPageAssumption, <1>1 DEF BusyHasACall, PhasesFit
  <1> QED BY <1>1, <1>2, <1>3, <1>4, <1>5, <1>6, <1>7, <1>8

LEMMA OrderAnsweredPage ==
  ASSUME CheckoutPageInv, OrderAnswered
  PROVE  CheckoutPageInv'
  <1> USE DEF CheckoutPageInv, OrderAnswered, formVars, serverVars, Here, Newest, ShownOnceOrdered
  <1>1. CheckoutPageTypeOK'
    BY CheckoutPageAssumption
      DEF CheckoutPageTypeOK, PhasesFit
  <1>2. PhasesFit'
    BY CheckoutPageAssumption, <1>1 DEF PhasesFit
  <1>3. IntentsFit'
    BY CheckoutPageAssumption, <1>1 DEF IntentsFit
  <1>4. OneTried'
    BY CheckoutPageAssumption, <1>1 DEF OneTried, Tried, IntentsFit, PhasesFit
  <1>5. ErrorsAreRefusals'
    BY CheckoutPageAssumption, <1>1 DEF ErrorsAreRefusals, PhasesFit
  <1>6. CartIsShown'
    BY CheckoutPageAssumption, <1>1 DEF CartIsShown, PhasesFit
  <1>7. GivenUpIsDeclined'
    BY CheckoutPageAssumption, <1>1 DEF GivenUpIsDeclined, PhasesFit, IntentsFit, OneTried, Tried, ErrorsAreRefusals
  <1>8. BusyHasACall'
    BY CheckoutPageAssumption, <1>1 DEF BusyHasACall, PhasesFit
  <1> QED BY <1>1, <1>2, <1>3, <1>4, <1>5, <1>6, <1>7, <1>8

LEMMA IntentAnsweredPage ==
  ASSUME CheckoutPageInv, IntentAnswered
  PROVE  CheckoutPageInv'
  <1> USE DEF CheckoutPageInv, IntentAnswered, formVars, serverVars, Here, IntentOf
  <1>1. CheckoutPageTypeOK'
    BY CheckoutPageAssumption
      DEF CheckoutPageTypeOK
  <1>2. PhasesFit'
    BY CheckoutPageAssumption, <1>1 DEF PhasesFit
  <1>3. IntentsFit'
    BY CheckoutPageAssumption, <1>1 DEF IntentsFit
  <1>4. OneTried'
    BY CheckoutPageAssumption, <1>1 DEF OneTried, Tried, IntentsFit, PhasesFit
  <1>5. ErrorsAreRefusals'
    BY CheckoutPageAssumption, <1>1 DEF ErrorsAreRefusals, PhasesFit
  <1>6. CartIsShown'
    BY CheckoutPageAssumption, <1>1 DEF CartIsShown, PhasesFit
  <1>7. GivenUpIsDeclined'
    BY CheckoutPageAssumption, <1>1 DEF GivenUpIsDeclined, PhasesFit, IntentsFit, OneTried, Tried, ErrorsAreRefusals
  <1>8. BusyHasACall'
    BY CheckoutPageAssumption, <1>1 DEF BusyHasACall, PhasesFit
  <1> QED BY <1>1, <1>2, <1>3, <1>4, <1>5, <1>6, <1>7, <1>8

LEMMA PlacingFailedPage ==
  ASSUME CheckoutPageInv, PlacingFailed
  PROVE  CheckoutPageInv'
  <1> USE DEF CheckoutPageInv, PlacingFailed, formVars, serverVars, Here
  <1>1. CheckoutPageTypeOK'
    BY CheckoutPageAssumption
      DEF CheckoutPageTypeOK
  <1>2. PhasesFit'
    BY CheckoutPageAssumption, <1>1 DEF PhasesFit
  <1>3. IntentsFit'
    BY CheckoutPageAssumption, <1>1 DEF IntentsFit
  <1>4. OneTried'
    BY CheckoutPageAssumption, <1>1 DEF OneTried, Tried, IntentsFit, PhasesFit
  <1>5. ErrorsAreRefusals'
    BY CheckoutPageAssumption, <1>1 DEF ErrorsAreRefusals, PhasesFit
  <1>6. CartIsShown'
    BY CheckoutPageAssumption, <1>1 DEF CartIsShown, PhasesFit
  <1>7. GivenUpIsDeclined'
    BY CheckoutPageAssumption, <1>1 DEF GivenUpIsDeclined, PhasesFit, IntentsFit, OneTried, Tried, ErrorsAreRefusals
  <1>8. BusyHasACall'
    BY CheckoutPageAssumption, <1>1 DEF BusyHasACall, PhasesFit
  <1> QED BY <1>1, <1>2, <1>3, <1>4, <1>5, <1>6, <1>7, <1>8

LEMMA RetryPaymentIntentPage ==
  ASSUME CheckoutPageInv, RetryPaymentIntent
  PROVE  CheckoutPageInv'
  <1> USE DEF CheckoutPageInv, RetryPaymentIntent, formVars, serverVars, Here, ShowsPage, MayRetry
  <1>1. CheckoutPageTypeOK'
    BY CheckoutPageAssumption
      DEF CheckoutPageTypeOK
  <1>2. PhasesFit'
    BY CheckoutPageAssumption, <1>1 DEF PhasesFit
  <1>3. IntentsFit'
    BY CheckoutPageAssumption, <1>1 DEF IntentsFit
  <1>4. OneTried'
    BY CheckoutPageAssumption, <1>1 DEF OneTried, Tried, IntentsFit, PhasesFit
  <1>5. ErrorsAreRefusals'
    BY CheckoutPageAssumption, <1>1 DEF ErrorsAreRefusals, PhasesFit
  <1>6. CartIsShown'
    BY CheckoutPageAssumption, <1>1 DEF CartIsShown, PhasesFit
  <1>7. GivenUpIsDeclined'
    BY CheckoutPageAssumption, <1>1 DEF GivenUpIsDeclined, PhasesFit, IntentsFit, OneTried, Tried, ErrorsAreRefusals
  <1>8. BusyHasACall'
    BY CheckoutPageAssumption, <1>1 DEF BusyHasACall, PhasesFit
  <1> QED BY <1>1, <1>2, <1>3, <1>4, <1>5, <1>6, <1>7, <1>8

LEMMA PayNowPage ==
  ASSUME CheckoutPageInv, PayNow
  PROVE  CheckoutPageInv'
  <1> USE CheckoutPageAssumption DEF CheckoutPageInv
  <1>1. /\ UNCHANGED <<guest, details, prefill, shown, order, secret, failed, placing, cartCall, cartFull, orders,
                       intents, left, touched, doubt>>
        /\ submitting' = TRUE /\ busy' = TRUE
        /\ Here /\ order # NoOrder /\ ~failed /\ secret # NoIntent /\ secret \in Intents
    BY DEF PayNow, ShowsPayment, ShowsPage, Submittable, formVars, serverVars, CheckoutPageTypeOK
  <1>2. /\ confirming' \in [Intents -> {"no", "sent", "error", "paid", "pending"}]
        /\ confirming'[secret] = "sent"
        /\ \A i \in Intents \ {secret} : confirming'[i] = "no"
    BY <1>1 DEF PayNow, PhasesFit, CheckoutPageTypeOK
  <1>3. CheckoutPageTypeOK'
    BY <1>1, <1>2 DEF CheckoutPageTypeOK
  <1>4. PhasesFit'
    BY <1>1, <1>2 DEF PhasesFit, Here
  <1>5. IntentsFit' /\ OneTried'
    BY <1>1 DEF IntentsFit, OneTried, Tried
  <1>6. ErrorsAreRefusals'
    BY <1>1, <1>2 DEF ErrorsAreRefusals
  <1>7. CartIsShown' /\ GivenUpIsDeclined'
    BY <1>1 DEF CartIsShown, GivenUpIsDeclined, Here
  <1>8. BusyHasACall'
    BY <1>1, <1>2 DEF BusyHasACall
  <1> QED BY <1>3, <1>4, <1>5, <1>6, <1>7, <1>8

\* The bank tries no intent but the page's.
LEMMA StripeConfirmsPage ==
  ASSUME CheckoutPageInv, NEW n \in Intents, StripeConfirms(n)
  PROVE  CheckoutPageInv'
  <1> USE CheckoutPageAssumption DEF CheckoutPageInv
  <1>1. /\ confirming[n] = "sent" /\ n = secret /\ ~failed /\ Here
        /\ secret # NoIntent /\ order # NoOrder /\ intents[n].order = order /\ orders[order] = "pending"
        /\ placing = "idle"
    BY DEF StripeConfirms, PhasesFit, IntentsFit, CheckoutPageTypeOK
  <1>2. UNCHANGED <<guest, details, prefill, shown, order, secret, failed, busy, submitting, placing, cartCall,
                    cartFull, orders, left, touched>>
    BY DEF StripeConfirms, formVars
  <1>3. PICK told \in {"error", "paid", "pending"} : confirming' = [confirming EXCEPT ![n] = told]
    BY DEF StripeConfirms
  <1>4. /\ confirming' \in [Intents -> {"no", "sent", "error", "paid", "pending"}]
        /\ confirming'[n] = told /\ \A i \in Intents \ {n} : confirming'[i] = confirming[i]
    BY <1>3 DEF CheckoutPageTypeOK
  <1>5. /\ intents' \in [Intents -> [order : OrderIds \cup {NoOrder},
                                    at : {"none", "open", "processing", "declined", "succeeded"}]]
        /\ \A i \in Intents \ {n} : intents'[i] = intents[i]
        /\ intents'[n].order = order
        /\ \/ doubt' = TRUE /\ intents'[n] = intents[n]
           \/ doubt' = doubt /\ Tried(n)' /\ (told = "error" => intents'[n].at = "declined")
    <2>1. CASE doubt' = TRUE /\ UNCHANGED intents
      BY <1>1, <2>1 DEF CheckoutPageTypeOK
    <2>2. ASSUME NEW o \in {<<"succeeded", "paid">>, <<"declined", "error">>, <<"processing", "pending">>},
                 intents' = [intents EXCEPT ![n].at = o[1]], confirming' = [confirming EXCEPT ![n] = o[2]],
                 doubt' = doubt
          PROVE  <1>5!:
      <3>1. o[1] \in {"succeeded", "declined", "processing"} /\ o[2] = told /\ (o[2] = "error" => o[1] = "declined")
        BY <1>3, <2>2 DEF CheckoutPageTypeOK
      <3>2. intents[n] \in [order : OrderIds \cup {NoOrder},
                            at : {"none", "open", "processing", "declined", "succeeded"}]
        BY DEF CheckoutPageTypeOK
      <3>3. intents' = [intents EXCEPT ![n] = [order |-> order, at |-> o[1]]]
        <4>1. [intents[n] EXCEPT !.at = o[1]] = [order |-> order, at |-> o[1]]
          BY <1>1, <3>2
        <4>2. [intents EXCEPT ![n].at = o[1]] = [intents EXCEPT ![n] = [intents[n] EXCEPT !.at = o[1]]]
          OBVIOUS
        <4> QED BY <2>2, <4>1, <4>2
      <3> QED BY <1>1, <2>2, <3>1, <3>2, <3>3 DEF CheckoutPageTypeOK, Tried
    <2> QED BY <2>1, <2>2 DEF StripeConfirms
  <1>6. doubt' \in BOOLEAN /\ (~doubt' => ~doubt)
    <2>1. doubt \in BOOLEAN /\ (doubt' = TRUE \/ doubt' = doubt)
      BY <1>5 DEF CheckoutPageTypeOK
    <2> QED BY <2>1
  <1>7. CheckoutPageTypeOK'
    BY <1>1, <1>2, <1>4, <1>5, <1>6 DEF CheckoutPageTypeOK
  <1>8. PhasesFit'
    BY <1>1, <1>2, <1>4, <1>5 DEF PhasesFit, Here, Tried
  <1>9. IntentsFit'
    BY <1>1, <1>2, <1>5 DEF IntentsFit, PhasesFit, Tried
  <1>10. \A i \in Intents : Tried(i)' => i = n \/ (Tried(i) /\ intents'[i] = intents[i])
    BY <1>5 DEF Tried
  <1>11. OneTried'
    BY <1>1, <1>2, <1>5, <1>10 DEF OneTried
  <1>12. ErrorsAreRefusals'
    BY <1>1, <1>4, <1>5, <1>6 DEF ErrorsAreRefusals, PhasesFit
  <1>13. CartIsShown' /\ BusyHasACall'
    BY <1>1, <1>2, <1>3, <1>4 DEF CartIsShown, BusyHasACall, Here
  <1>14. GivenUpIsDeclined'
    BY <1>1, <1>2, <1>5, <1>6 DEF GivenUpIsDeclined
  <1> QED BY <1>7, <1>8, <1>9, <1>11, <1>12, <1>13, <1>14

LEMMA StripeSettlesPage ==
  ASSUME CheckoutPageInv, NEW n \in Intents, StripeSettles(n)
  PROVE  CheckoutPageInv'
  <1> USE DEF CheckoutPageInv, StripeSettles, formVars, serverVars, Here
  <1>1. CheckoutPageTypeOK'
    BY CheckoutPageAssumption
      DEF CheckoutPageTypeOK
  <1>2. PhasesFit'
    BY CheckoutPageAssumption, <1>1 DEF PhasesFit
  <1>3. IntentsFit'
    BY CheckoutPageAssumption, <1>1 DEF IntentsFit
  <1>4. OneTried'
    BY CheckoutPageAssumption, <1>1 DEF OneTried, Tried, IntentsFit, PhasesFit
  <1>5. ErrorsAreRefusals'
    BY CheckoutPageAssumption, <1>1 DEF ErrorsAreRefusals, PhasesFit
  <1>6. CartIsShown'
    BY CheckoutPageAssumption, <1>1 DEF CartIsShown, PhasesFit
  <1>7. GivenUpIsDeclined'
    BY CheckoutPageAssumption, <1>1 DEF GivenUpIsDeclined, PhasesFit, IntentsFit, OneTried, Tried, ErrorsAreRefusals
  <1>8. BusyHasACall'
    BY CheckoutPageAssumption, <1>1 DEF BusyHasACall, PhasesFit
  <1> QED BY <1>1, <1>2, <1>3, <1>4, <1>5, <1>6, <1>7, <1>8

LEMMA LoseConfirmPage ==
  ASSUME CheckoutPageInv, NEW n \in Intents, LoseConfirm(n)
  PROVE  CheckoutPageInv'
  <1> USE DEF CheckoutPageInv, LoseConfirm, formVars, serverVars, Here
  <1>1. CheckoutPageTypeOK'
    BY CheckoutPageAssumption
      DEF CheckoutPageTypeOK
  <1>2. PhasesFit'
    BY CheckoutPageAssumption, <1>1 DEF PhasesFit
  <1>3. IntentsFit'
    BY CheckoutPageAssumption, <1>1 DEF IntentsFit
  <1>4. OneTried'
    BY CheckoutPageAssumption, <1>1 DEF OneTried, Tried, IntentsFit, PhasesFit
  <1>5. ErrorsAreRefusals'
    BY CheckoutPageAssumption, <1>1 DEF ErrorsAreRefusals, PhasesFit
  <1>6. CartIsShown'
    BY CheckoutPageAssumption, <1>1 DEF CartIsShown, PhasesFit
  <1>7. GivenUpIsDeclined'
    BY CheckoutPageAssumption, <1>1 DEF GivenUpIsDeclined, PhasesFit, IntentsFit, OneTried, Tried, ErrorsAreRefusals
  <1>8. BusyHasACall'
    BY CheckoutPageAssumption, <1>1 DEF BusyHasACall, PhasesFit
  <1> QED BY <1>1, <1>2, <1>3, <1>4, <1>5, <1>6, <1>7, <1>8

LEMMA ConfirmAnsweredPage ==
  ASSUME CheckoutPageInv, NEW n \in Intents, ConfirmAnswered(n)
  PROVE  CheckoutPageInv'
  <1> USE CheckoutPageAssumption DEF CheckoutPageInv
  <1>1. /\ confirming[n] \in {"error", "paid", "pending"} /\ n = secret /\ ~failed /\ Here
        /\ secret # NoIntent /\ order # NoOrder /\ placing = "idle"
        /\ \A i \in Intents \ {n} : confirming[i] = "no"
    BY DEF ConfirmAnswered, PhasesFit, CheckoutPageTypeOK
  <1>2. /\ UNCHANGED <<guest, details, prefill, shown, order, secret, placing, cartCall, cartFull, orders, intents,
                       touched, doubt>>
        /\ busy' = FALSE /\ {left', submitting', failed'} \subseteq BOOLEAN /\ (submitting' => left')
        /\ failed' => confirming[n] = "error"
    BY <1>1 DEF ConfirmAnswered, formVars, serverVars, GivesUp
  <1>3. confirming' = [i \in Intents |-> "no"]
    BY <1>1 DEF ConfirmAnswered, CheckoutPageTypeOK
  <1>4. CheckoutPageTypeOK'
    BY <1>2, <1>3 DEF CheckoutPageTypeOK
  <1>5. PhasesFit'
    BY <1>1, <1>2, <1>3 DEF PhasesFit
  <1>6. IntentsFit' /\ OneTried'
    BY <1>2 DEF IntentsFit, OneTried, Tried
  <1>7. ErrorsAreRefusals'
    BY <1>3 DEF ErrorsAreRefusals
  <1>8. CartIsShown'
    BY <1>1, <1>2 DEF CartIsShown, Here
  <1>9. GivenUpIsDeclined'
    BY <1>1, <1>2 DEF GivenUpIsDeclined, ErrorsAreRefusals
  <1>10. BusyHasACall'
    BY <1>1, <1>2, <1>3 DEF BusyHasACall
  <1> QED BY <1>4, <1>5, <1>6, <1>7, <1>8, <1>9, <1>10

LEMMA StartNewOrderPage ==
  ASSUME CheckoutPageInv, NEW c \in CartCalls, StartNewOrder(c)
  PROVE  CheckoutPageInv'
  <1> USE DEF CheckoutPageInv, StartNewOrder, formVars, serverVars, Here, ShowsPage
  <1>1. CheckoutPageTypeOK'
    BY CheckoutPageAssumption
      DEF CheckoutPageTypeOK
  <1>2. PhasesFit'
    BY CheckoutPageAssumption, <1>1 DEF PhasesFit
  <1>3. IntentsFit'
    BY CheckoutPageAssumption, <1>1 DEF IntentsFit
  <1>4. OneTried'
    BY CheckoutPageAssumption, <1>1 DEF OneTried, Tried, IntentsFit, PhasesFit
  <1>5. ErrorsAreRefusals'
    BY CheckoutPageAssumption, <1>1 DEF ErrorsAreRefusals, PhasesFit
  <1>6. CartIsShown'
    BY CheckoutPageAssumption, <1>1 DEF CartIsShown, PhasesFit
  <1>7. GivenUpIsDeclined'
    <2>1. secret \in Intents /\ order \in OrderIds /\ ~failed' /\ (~doubt => intents[secret].at = "declined")
      BY CheckoutPageAssumption DEF CheckoutPageTypeOK, PhasesFit, GivenUpIsDeclined
    <2>2. ASSUME NEW i \in Intents, intents[i].order = order, ~doubt
          PROVE  intents[i].at \in {"none", "open", "declined"}
      BY <2>1, <2>2 DEF OneTried, Tried, CheckoutPageTypeOK
    <2>3. \A o \in OrderIds \ {order} : orders'[o] = orders[o]
      BY DEF CheckoutPageTypeOK
    <2> QED BY <2>1, <2>2, <2>3 DEF GivenUpIsDeclined, CheckoutPageTypeOK
  <1>8. BusyHasACall'
    BY CheckoutPageAssumption, <1>1 DEF BusyHasACall, PhasesFit
  <1> QED BY <1>1, <1>2, <1>3, <1>4, <1>5, <1>6, <1>7, <1>8

LEMMA CartAnsweredPage ==
  ASSUME CheckoutPageInv, NEW c \in CartCalls, CartAnswered(c)
  PROVE  CheckoutPageInv'
  <1> USE DEF CheckoutPageInv, CartAnswered, formVars, serverVars, Here, Answers
  <1>1. CheckoutPageTypeOK'
    BY CheckoutPageAssumption
      DEF CheckoutPageTypeOK
  <1>2. PhasesFit'
    BY CheckoutPageAssumption, <1>1 DEF PhasesFit
  <1>3. IntentsFit'
    BY CheckoutPageAssumption, <1>1 DEF IntentsFit
  <1>4. OneTried'
    BY CheckoutPageAssumption, <1>1 DEF OneTried, Tried, IntentsFit, PhasesFit
  <1>5. ErrorsAreRefusals'
    BY CheckoutPageAssumption, <1>1 DEF ErrorsAreRefusals, PhasesFit
  <1>6. CartIsShown'
    BY CheckoutPageAssumption, <1>1 DEF CartIsShown, PhasesFit
  <1>7. GivenUpIsDeclined'
    BY CheckoutPageAssumption, <1>1 DEF GivenUpIsDeclined, PhasesFit, IntentsFit, OneTried, Tried, ErrorsAreRefusals
  <1>8. BusyHasACall'
    BY CheckoutPageAssumption, <1>1 DEF BusyHasACall, PhasesFit
  <1> QED BY <1>1, <1>2, <1>3, <1>4, <1>5, <1>6, <1>7, <1>8

LEMMA NextCheckoutPage == CheckoutPageInv /\ [CheckoutPageNext]_checkoutVars => CheckoutPageInv'
  <1> SUFFICES ASSUME CheckoutPageInv, [CheckoutPageNext]_checkoutVars PROVE CheckoutPageInv'
    OBVIOUS
  <1>1. CASE UNCHANGED checkoutVars
    <2>1. CheckoutPageTypeOK'
      BY <1>1 DEF CheckoutPageInv, CheckoutPageTypeOK, checkoutVars
    <2>2. UNCHANGED payVars
      BY <1>1 DEF checkoutVars, payVars
    <2> QED BY <2>1, <2>2, SamePayment
  <1>2. ASSUME NEW i \in Intents, StripeConfirms(i) \/ StripeSettles(i) \/ LoseConfirm(i) \/ ConfirmAnswered(i)
        PROVE  CheckoutPageInv'
    BY <1>2, StripeConfirmsPage, StripeSettlesPage, LoseConfirmPage, ConfirmAnsweredPage
  <1>3. ASSUME NEW c \in CartCalls, StartNewOrder(c) \/ CartAnswered(c) PROVE CheckoutPageInv'
    BY <1>3, StartNewOrderPage, CartAnsweredPage
  <1> QED BY <1>1, <1>2, <1>3, FormSteps, SidebarRequests, PlaceOrderPage, ServeCheckoutPage, ServeCreateIntentPage,
             LosePlacingPage, OrderAnsweredPage, IntentAnsweredPage, PlacingFailedPage, RetryPaymentIntentPage,
             PayNowPage DEF CheckoutPageNext

LEMMA CheckoutPageInvariant == CheckoutPageSpec => []CheckoutPageInv
  BY InitCheckoutPage, NextCheckoutPage, PTL DEF CheckoutPageSpec

\* An order that can be paid is on the page, whatever the shopper edits; no order is charged
\* twice, however often its intent is asked for or its answer is lost; one that was given up
\* is charged no more; and the buttons come back.
THEOREM TheOrdersArePaidOnce == CheckoutPageSpec => []OrdersArePaidOnce
  <1>1. CheckoutPageInv => OrdersArePaidOnce
    <2> SUFFICES ASSUME CheckoutPageInv PROVE OrdersArePaidOnce
      OBVIOUS
    <2>1. PayableOrderIsShown
      BY DEF CheckoutPageInv, CartIsShown, PayableOrderIsShown
    <2>2. ChargedOnce
      BY DEF CheckoutPageInv, OneTried, Tried, ChargedOnce
    <2> QED BY <2>1, <2>2 DEF CheckoutPageInv, OrdersArePaidOnce
  <1> QED BY <1>1, CheckoutPageInvariant, PTL

-----------------------------------------------------------------------------
(* The cart in the browser: for every number of products and requests.       *)

CartOpRecords ==
  [at : {"idle", "sent", "ok", "failed"}, kind : {"refresh", "add", "update", "remove"},
   good : Goods \cup {NoGoods}, units : Nat, cart : {NoBasket} \cup [Goods -> Nat]]
OpsFit ==
  /\ op \in [CartOps -> CartOpRecords]
  /\ \A c \in CartOps : op[c].kind # "refresh" => op[c].good \in Goods
  /\ \A c \in CartOps : op[c].kind = "refresh" => op[c].good = NoGoods
  /\ \A c \in CartOps : op[c].at = "ok" => IsBasket(op[c].cart)

\* Until requests overlap or are lost there is one at a time, and its answer is the server's cart;
\* only the first of all finds a browser that shows none.
OneAtATime ==
  ~mixed =>
    /\ \A c, d \in UnderWay : c = d
    /\ UnderWay = {} => inView = basket
    /\ \A c \in CartOps :
         /\ op[c].at = "ok" => op[c].cart = basket
         /\ op[c].at = "sent" => inView = basket \/ op[c].kind = "refresh"
         /\ op[c].at = "failed" => inView = basket

\* The recommendations there are, or those to come, leave out what the cart shows.
AdviceFits ==
  cartOnPage /\ Lines # {} =>
    IF adviceCall.at = "idle" THEN advice \cap Lines = {} ELSE adviceCall.without = Lines

CartPagesInv ==
  CartPagesTypeOK /\ OpsFit /\ OneAtATime /\ AdviceFits /\ DisabledForARequest

LEMMA InitCartPages == CartPagesInit => CartPagesInv
  <1> SUFFICES ASSUME CartPagesInit PROVE CartPagesInv
    OBVIOUS
  <1> USE CartPagesAssumption DEF CartPagesInit
  <1>1. PICK first \in CartOps : op = [c \in CartOps |-> IF c = first THEN [NoOp EXCEPT !.at = "sent"] ELSE NoOp]
    OBVIOUS
  <1>2. /\ op[first].at = "sent" /\ op[first].kind = "refresh" /\ op[first].good = NoGoods
        /\ \A c \in CartOps \ {first} : op[c] = NoOp
    BY <1>1 DEF NoOp
  <1>3. op \in [CartOps -> CartOpRecords]
    BY <1>1 DEF CartOpRecords, NoOp
  <1>4. IsBasket(basket)
    BY DEF IsBasket
  <1>5. CartPagesTypeOK
    BY <1>3, <1>4 DEF CartPagesTypeOK, CartOpRecords, NoAdvice
  <1>6. OpsFit
    BY <1>2, <1>3 DEF OpsFit, NoOp
  <1>7. UnderWay = {first}
    BY <1>2 DEF UnderWay, NoOp
  <1>8. OneAtATime
    BY <1>2, <1>7 DEF OneAtATime, NoOp
  <1>9. AdviceFits /\ DisabledForARequest
    BY DEF AdviceFits, Lines, InBasket, DisabledForARequest
  <1> QED BY <1>5, <1>6, <1>8, <1>9 DEF CartPagesInv

\* A request is sent: alone, or else they overlap.
LEMMA CartRequestSent ==
  ASSUME CartPagesInv, NEW c \in CartOps, NEW kind \in {"refresh", "add", "update", "remove"},
         NEW g \in Goods \cup {NoGoods}, NEW n \in Nat, CartRequest(c, kind, g, n),
         kind = "refresh" <=> g = NoGoods,
         UNCHANGED <<basket, inView, cartOnPage, advice, adviceCall>>,
         cartLoading' \in BOOLEAN, cartOpen' \in BOOLEAN, adding' \subseteq Goods,
         adding' \subseteq adding \/ (kind = "add" /\ adding' = adding \cup {g})
  PROVE  CartPagesInv'
  <1> USE CartPagesAssumption DEF CartPagesInv
  <1> DEFINE new == [NoOp EXCEPT !.at = "sent", !.kind = kind, !.good = g, !.units = n]
  <1>1. /\ op[c].at = "idle" /\ op' = [op EXCEPT ![c] = new]
        /\ mixed' = (mixed \/ UnderWay # {})
    BY DEF CartRequest
  <1>2. /\ new \in CartOpRecords /\ new.at = "sent" /\ new.kind = kind /\ new.good = g
    BY DEF NoOp, CartOpRecords
  <1> HIDE DEF new
  <1>3. /\ op' \in [CartOps -> CartOpRecords] /\ op'[c] = new
        /\ \A d \in CartOps \ {c} : op'[d] = op[d]
    BY <1>1, <1>2 DEF OpsFit
  <1>4. CartPagesTypeOK'
    <2>1. mixed' \in BOOLEAN
      BY <1>1
    <2> QED BY <1>3, <2>1 DEF CartPagesTypeOK, CartOpRecords
  <1>5. OpsFit'
    BY <1>2, <1>3 DEF OpsFit
  <1>6. UnderWay' = UnderWay \cup {c}
    BY <1>2, <1>3 DEF UnderWay
  <1>7. OneAtATime'
    <2> SUFFICES ASSUME ~mixed' PROVE OneAtATime'
      BY DEF OneAtATime
    <2>1. ~mixed /\ UnderWay = {} /\ inView = basket /\ UnderWay' = {c}
      BY <1>1, <1>6 DEF OneAtATime
    <2>2. \A d \in CartOps \ {c} : op'[d].at = "idle"
      BY <1>3, <2>1 DEF UnderWay
    <2> QED BY <1>2, <1>3, <2>1, <2>2 DEF OneAtATime
  <1>8. AdviceFits'
    BY DEF AdviceFits, Lines
  <1>9. DisabledForARequest'
    BY <1>1, <1>2, <1>3, <1>6 DEF DisabledForARequest, UnderWay
  <1> QED BY <1>4, <1>5, <1>7, <1>8, <1>9

LEMMA CartRequests ==
  ASSUME CartPagesInv, NEW c \in CartOps,
         RefreshCart(c) \/ \E g \in Goods : AddItem(c, g) \/ UpdateItem(c, g) \/ RemoveItem(c, g)
  PROVE  CartPagesInv'
  <1>1. {cartLoading, cartOpen} \subseteq BOOLEAN /\ adding \subseteq Goods
    BY DEF CartPagesInv, CartPagesTypeOK
  <1>2. ASSUME RefreshCart(c) PROVE CartPagesInv'
    BY <1>1, <1>2, CartRequestSent DEF RefreshCart
  <1>3. ASSUME NEW g \in Goods, AddItem(c, g) PROVE CartPagesInv'
    <2>1. g # NoGoods
      BY CartPagesAssumption
    <2> QED BY <1>1, <1>3, <2>1, CartRequestSent DEF AddItem
  <1>4. ASSUME NEW g \in Goods, RemoveItem(c, g) PROVE CartPagesInv'
    <2>1. g # NoGoods
      BY CartPagesAssumption
    <2> QED BY <1>1, <1>4, <2>1, CartRequestSent DEF RemoveItem
  <1>5. ASSUME NEW g \in Goods, UpdateItem(c, g) PROVE CartPagesInv'
    <2>1. g # NoGoods /\ inView[g] \in Nat /\ InStock[g] \in Nat
      BY <1>5, CartPagesAssumption DEF UpdateItem, Lines, InBasket, CartPagesInv, CartPagesTypeOK, IsBasket
    <2>2. PICK n \in Nat : CartRequest(c, "update", g, n)
      BY <1>5, <2>1 DEF UpdateItem, PageQuantities, SidebarQuantities
    <2> QED BY <1>1, <1>5, <2>1, <2>2, CartRequestSent DEF UpdateItem
  <1> QED BY <1>2, <1>3, <1>4, <1>5

\* What the server makes of a request is a cart that is in stock.
LEMMA AppliedIsInStock ==
  ASSUME CartPagesInv, NEW c \in CartOps
  PROVE  /\ Applied(op[c]) \in [Goods -> Nat]
         /\ ~Refused0(op[c]) => IsBasket(Applied(op[c]))
         /\ op[c].kind = "refresh" => Applied(op[c]) = basket /\ ~Refused0(op[c])
  <1> DEFINE o == op[c]
  <1>1. /\ o.kind \in {"refresh", "add", "update", "remove"} /\ o.units \in Nat
        /\ o.kind # "refresh" => o.good \in Goods /\ o.good # NoGoods
        /\ o.kind = "refresh" => o.good = NoGoods
        /\ basket \in [Goods -> Nat] /\ \A g \in Goods : basket[g] <= InStock[g]
    BY CartPagesAssumption DEF CartPagesInv, CartPagesTypeOK, OpsFit, CartOpRecords, IsBasket
  <1> HIDE DEF o
  <1>2. Applied(o) \in [Goods -> Nat]
    BY <1>1 DEF Applied
  <1>3. \A g \in Goods \ {o.good} : Applied(o)[g] = basket[g]
    BY <1>1 DEF Applied
  <1>4. o.kind = "refresh" => Applied(o) = basket /\ ~Refused0(o)
    BY <1>1 DEF Applied, Refused0
  <1>5. ~Refused0(o) /\ o.good \in Goods => Applied(o)[o.good] <= InStock[o.good]
    BY <1>1, <1>2, CartPagesAssumption DEF Refused0
  <1>6. ~Refused0(o) => IsBasket(Applied(o))
    BY <1>1, <1>2, <1>3, <1>5 DEF IsBasket
  <1> QED BY <1>2, <1>4, <1>6 DEF o

LEMMA ServeOpInv ==
  ASSUME CartPagesInv, NEW c \in CartOps, ServeOp(c)
  PROVE  CartPagesInv'
  <1> USE DEF CartPagesInv
  <1>1. /\ op[c].at = "sent" /\ op[c] \in CartOpRecords
        /\ UNCHANGED <<inView, cartLoading, cartOpen, cartOnPage, adding, advice, adviceCall, mixed>>
    BY DEF ServeOp, OpsFit
  <1>2. \E new \in CartOpRecords :
          /\ op' = [op EXCEPT ![c] = new] /\ new.kind = op[c].kind /\ new.good = op[c].good
          /\ \/ new.at = "failed" /\ basket' = basket /\ op[c].kind # "refresh"
             \/ new.at = "ok" /\ basket' = new.cart /\ IsBasket(new.cart)
    <2>1. CASE Refused0(op[c])
      <3> DEFINE new == [op[c] EXCEPT !.at = "failed"]
      <3>1. op' = [op EXCEPT ![c] = new] /\ basket' = basket
        BY <2>1 DEF ServeOp
      <3>2. new \in CartOpRecords /\ new.at = "failed" /\ new.kind = op[c].kind /\ new.good = op[c].good
        BY <1>1 DEF CartOpRecords
      <3> QED BY <2>1, <3>1, <3>2, AppliedIsInStock
    <2>2. CASE ~Refused0(op[c])
      <3> DEFINE cart == Applied(op[c])
                 new == [op[c] EXCEPT !.at = "ok", !.cart = cart]
      <3>1. op' = [op EXCEPT ![c].at = "ok", ![c].cart = cart] /\ basket' = cart
        BY <2>2 DEF ServeOp
      <3>2. cart \in [Goods -> Nat] /\ IsBasket(cart)
        BY <2>2, AppliedIsInStock
      <3> HIDE DEF cart
      <3>3. op' = [op EXCEPT ![c] = new]
        BY <1>1, <3>1 DEF OpsFit
      <3>4. new \in CartOpRecords /\ new.at = "ok" /\ new.kind = op[c].kind /\ new.good = op[c].good /\ new.cart = cart
        BY <1>1, <3>2 DEF CartOpRecords
      <3> QED BY <3>1, <3>2, <3>3, <3>4
    <2> QED BY <2>1, <2>2
  <1>3. PICK new \in CartOpRecords :
          /\ op' = [op EXCEPT ![c] = new] /\ new.kind = op[c].kind /\ new.good = op[c].good
          /\ \/ new.at = "failed" /\ basket' = basket /\ op[c].kind # "refresh"
             \/ new.at = "ok" /\ basket' = new.cart /\ IsBasket(new.cart)
    BY <1>2
  <1>4. /\ op' \in [CartOps -> CartOpRecords] /\ op'[c] = new /\ \A d \in CartOps \ {c} : op'[d] = op[d]
    BY <1>3 DEF OpsFit
  <1>5. IsBasket(basket')
    BY <1>3 DEF CartPagesTypeOK
  <1>6. CartPagesTypeOK'
    BY <1>1, <1>4, <1>5 DEF CartPagesTypeOK, CartOpRecords, IsBasket
  <1>7. OpsFit'
    BY <1>3, <1>4 DEF OpsFit, IsBasket
  <1>8. UnderWay' = UnderWay /\ c \in UnderWay
    BY <1>1, <1>3, <1>4 DEF UnderWay
  <1>9. OneAtATime'
    <2> SUFFICES ASSUME ~mixed' PROVE OneAtATime'
      BY DEF OneAtATime
    <2>1. /\ \A d \in UnderWay : d = c
          /\ inView = basket \/ op[c].kind = "refresh"
      BY <1>1, <1>8 DEF OneAtATime
    <2>2. \A d \in CartOps \ {c} : op'[d].at = "idle"
      BY <1>4, <2>1 DEF UnderWay
    <2> QED BY <1>1, <1>3, <1>4, <1>8, <2>1, <2>2 DEF OneAtATime
  <1>10. AdviceFits'
    BY <1>1 DEF AdviceFits, Lines
  <1>11. DisabledForARequest'
    BY <1>1, <1>3, <1>4, <1>8 DEF DisabledForARequest
  <1> QED BY <1>6, <1>7, <1>9, <1>10, <1>11

LEMMA LoseOpInv ==
  ASSUME CartPagesInv, NEW c \in CartOps, LoseOp(c)
  PROVE  CartPagesInv'
  <1> USE DEF CartPagesInv
  <1> DEFINE new == [op[c] EXCEPT !.at = "failed"]
  <1>1. /\ op[c].at # "idle" /\ op' = [op EXCEPT ![c] = new] /\ mixed' = TRUE /\ op[c] \in CartOpRecords
        /\ UNCHANGED <<basket, inView, cartLoading, cartOpen, cartOnPage, adding, advice, adviceCall>>
    BY DEF LoseOp, OpsFit
  <1>2. new \in CartOpRecords /\ new.at = "failed" /\ new.kind = op[c].kind /\ new.good = op[c].good
    BY <1>1 DEF CartOpRecords
  <1> HIDE DEF new
  <1>3. /\ op' \in [CartOps -> CartOpRecords] /\ op'[c] = new /\ \A d \in CartOps \ {c} : op'[d] = op[d]
    BY <1>1, <1>2 DEF OpsFit
  <1>4. CartPagesTypeOK'
    BY <1>1, <1>3 DEF CartPagesTypeOK, CartOpRecords
  <1>5. OpsFit'
    BY <1>2, <1>3 DEF OpsFit
  <1>6. UnderWay' = UnderWay
    BY <1>1, <1>2, <1>3 DEF UnderWay
  <1>7. OneAtATime' /\ AdviceFits' /\ DisabledForARequest'
    BY <1>1, <1>2, <1>3, <1>6 DEF OneAtATime, AdviceFits, Lines, DisabledForARequest
  <1> QED BY <1>4, <1>5, <1>7

LEMMA OpAnsweredInv ==
  ASSUME CartPagesInv, NEW c \in CartOps, OpAnswered(c)
  PROVE  CartPagesInv'
  <1> USE DEF CartPagesInv
  <1> DEFINE o == op[c]
  <1>1. /\ o.at \in {"ok", "failed"} /\ inView' = CartAfter(o) /\ AdviceFor(inView, inView')
        /\ cartOpen' = (cartOpen \/ (o.kind = "add" /\ o.at = "ok"))
        /\ cartLoading' = (cartLoading /\ o.kind # "refresh")
        /\ adding' = AddingAfter(o) /\ op' = [op EXCEPT ![c] = NoOp]
        /\ mixed' = (mixed /\ ~(UnderWay = {c} /\ o.kind = "refresh" /\ o.at = "ok" /\ o.cart = basket))
        /\ UNCHANGED <<basket, cartOnPage>> /\ o \in CartOpRecords
    BY DEF OpAnswered, OpsFit
  <1>2. NoOp \in CartOpRecords /\ NoOp.at = "idle" /\ NoOp.kind = "refresh" /\ NoOp.good = NoGoods
    BY DEF NoOp, CartOpRecords
  <1>3. /\ op' \in [CartOps -> CartOpRecords] /\ op'[c] = NoOp /\ \A d \in CartOps \ {c} : op'[d] = op[d]
    BY <1>1, <1>2 DEF OpsFit
  <1>4. inView' = NoBasket \/ IsBasket(inView')
    BY <1>1 DEF CartAfter, OpsFit, CartPagesTypeOK
  <1>5. advice' \subseteq Goods /\ adviceCall' \in [at : {"idle", "sent", "old"}, without : SUBSET Goods]
    <2>1. InBasket(inView') \subseteq Goods
      BY DEF InBasket
    <2> QED BY <1>1, <2>1 DEF AdviceFor, CartPagesTypeOK
  <1>6. CartPagesTypeOK'
    <2>1. cartOpen' \in BOOLEAN /\ cartLoading' \in BOOLEAN /\ mixed' \in BOOLEAN
      BY <1>1
    <2>2. adding' \subseteq Goods
      BY <1>1 DEF AddingAfter, CartPagesTypeOK
    <2> QED BY <1>1, <1>3, <1>4, <1>5, <2>1, <2>2 DEF CartPagesTypeOK, CartOpRecords
  <1>7. OpsFit'
    BY <1>2, <1>3 DEF OpsFit
  <1>8. UnderWay' = UnderWay \ {c} /\ c \in UnderWay
    BY <1>1, <1>2, <1>3 DEF UnderWay
  <1>9. OneAtATime'
    <2> SUFFICES ASSUME ~mixed' PROVE OneAtATime'
      BY DEF OneAtATime
    <2>1. UnderWay = {c} /\ inView' = basket
      <3>1. CASE mixed
        BY <1>1, <3>1 DEF CartAfter
      <3>2. CASE ~mixed
        BY <1>1, <1>8, <3>2 DEF OneAtATime, CartAfter
      <3> QED BY <3>1, <3>2 DEF CartPagesTypeOK
    <2>2. \A d \in CartOps : op'[d].at = "idle"
      BY <1>2, <1>3, <2>1 DEF UnderWay
    <2> QED BY <1>1, <1>8, <2>1, <2>2 DEF OneAtATime
  <1>10. AdviceFits'
    <2> SUFFICES ASSUME cartOnPage, Lines' # {}
                 PROVE  IF adviceCall'.at = "idle" THEN advice' \cap Lines' = {} ELSE adviceCall'.without = Lines'
      BY <1>1 DEF AdviceFits
    <2>1. Lines = InBasket(inView) /\ Lines' = InBasket(inView')
      BY DEF Lines
    <2>2. CASE Lines = Lines'
      BY <1>1, <2>1, <2>2 DEF AdviceFor, AdviceFits
    <2>3. CASE Lines # Lines'
      <3>1. adviceCall' = [at |-> IF adviceCall.at = "idle" THEN "sent" ELSE "old", without |-> Lines']
        BY <1>1, <2>1, <2>3 DEF AdviceFor
      <3> QED BY <3>1
    <2> QED BY <2>2, <2>3
  <1>11. DisabledForARequest'
    <2> SUFFICES ASSUME NEW g \in adding' PROVE \E d \in UnderWay' : op'[d].kind = "add" /\ op'[d].good = g
      BY DEF DisabledForARequest
    <2>1. g \in adding /\ (o.kind = "add" => g # o.good)
      BY <1>1 DEF AddingAfter
    <2>2. PICK d \in UnderWay : op[d].kind = "add" /\ op[d].good = g
      BY <2>1 DEF DisabledForARequest
    <2>3. d # c /\ d \in CartOps
      BY <2>1, <2>2 DEF UnderWay
    <2> QED BY <1>3, <1>8, <2>2, <2>3
  <1> QED BY <1>6, <1>7, <1>9, <1>10, <1>11

LEMMA NextCartPages == CartPagesInv /\ [CartPagesNext]_cartPageVars => CartPagesInv'
  <1> SUFFICES ASSUME CartPagesInv, [CartPagesNext]_cartPageVars PROVE CartPagesInv'
    OBVIOUS
  <1> USE DEF CartPagesInv
  <1>1. CASE UNCHANGED cartPageVars
    BY <1>1 DEF cartPageVars, CartPagesTypeOK, IsBasket, OpsFit, OneAtATime, UnderWay, AdviceFits, Lines, InBasket,
                DisabledForARequest
  <1>2. CASE ToggleSidebar
    BY <1>2 DEF ToggleSidebar, CartPagesTypeOK, IsBasket, OpsFit, OneAtATime, UnderWay, AdviceFits, Lines, InBasket,
                DisabledForARequest
  <1>3. ASSUME NEW ok \in BOOLEAN, AdviceAnswered(ok) PROVE CartPagesInv'
    <2>1. UNCHANGED <<basket, inView, cartLoading, cartOpen, cartOnPage, adding, op, mixed>>
      BY <1>3 DEF AdviceAnswered
    <2>2. /\ adviceCall' = NoAdvice /\ NoAdvice.at = "idle"
          /\ NoAdvice \in [at : {"idle", "sent", "old"}, without : SUBSET Goods]
          /\ advice' \subseteq Goods /\ (advice' = {} \/ advice' = Goods \ adviceCall.without) /\ adviceCall.at # "idle"
      BY <1>3 DEF AdviceAnswered, NoAdvice
    <2>3. CartPagesTypeOK'
      BY <2>1, <2>2 DEF CartPagesTypeOK
    <2>4. OpsFit' /\ OneAtATime' /\ DisabledForARequest'
      BY <2>1 DEF OpsFit, OneAtATime, UnderWay, DisabledForARequest
    <2>5. AdviceFits'
      BY <2>1, <2>2 DEF AdviceFits, Lines
    <2> QED BY <2>3, <2>4, <2>5
  <1> QED BY <1>1, <1>2, <1>3, CartRequests, ServeOpInv, LoseOpInv, OpAnsweredInv DEF CartPagesNext

LEMMA CartPagesInvariant == CartPagesSpec => []CartPagesInv
  BY InitCartPages, NextCartPages, PTL DEF CartPagesSpec

\* At rest the cart that shows is the server's, unless requests overlapped or were lost and no
\* refresh ran by itself since; what is recommended is not in the cart; and a button that is
\* disabled waits for a request that is under way.
THEOREM TheCartIsTheServers == CartPagesSpec => []CartShowsTheServers
  <1>1. CartPagesInv => CartShowsTheServers
    BY DEF CartPagesInv, OneAtATime, AdviceFits, CartShowsTheServers, ShownCartIsTheServers, AdviceIsNotInTheCart
  <1> QED BY <1>1, CartPagesInvariant, PTL

-----------------------------------------------------------------------------
(* The catalogue page: for every number of filters, pages, visits, fetches.  *)

LoadingSteps == {"products", "ok", "failed"}
\* The latest fetch is for the address; past the loading, it has shown its products or failed.
FetchFits ==
  onPage =>
    /\ fetched[gen].query = query /\ fetched[gen].at # "idle"
    /\ fetching <=> fetched[gen].at \in LoadingSteps
    /\ fetched[gen].at \notin LoadingSteps =>
         IF loadError THEN fetched[gen].at = "done" ELSE result = query
    /\ fetched[gen].at = "done" /\ ~loadError => facets = result

\* No page is turned past the last of the result that is shown.
PagesFit ==
  ~early =>
    /\ query.page <= PagesOf[query.filter]
    /\ result # NoAnswer => result.page <= PagesOf[result.filter]

Runs == {r \in TreeRuns : run[r].at # "idle"}
\* A fetch of the tree is waited for by visits there have been, and a visit waits for one.
TreeFits ==
  /\ \A r \in TreeRuns : run[r].visits \subseteq 1..visit
  /\ \A r \in TreeRuns : run[r].at = "idle" => run[r].visits = {}
  /\ inflight # NoAnswer => inflight \in Runs
  /\ \A r, s \in TreeRuns : visit \in run[r].visits \cap run[s].visits => r = s
  /\ onPage => (treeLoading <=> \E r \in Runs : visit \in run[r].visits)
  /\ TreeOrRetry

CatalogPageInv == CatalogPageTypeOK /\ FetchFits /\ PagesFit /\ TreeFits

FetchRecords ==
  [at : {"idle", "products", "ok", "failed", "counts", "counted", "lost", "done"}, query : Queries \cup {NoAnswer}]
RunRecords == [at : {"idle", "first", "second", "ok", "failed"}, visits : SUBSET (1..MaxVisits)]

LEMMA FirstPages ==
  ASSUME NEW f \in Filters
  PROVE  /\ Updated(f) \in Queries /\ Updated(f).page <= PagesOf[Updated(f).filter]
         /\ Updated(f).filter = f /\ Updated(f).page = 1
  BY CatalogPageAssumption DEF Updated, Queries

LEMMA InitCatalogPage == CatalogInit => CatalogPageInv
  <1> SUFFICES ASSUME CatalogInit PROVE CatalogPageInv
    OBVIOUS
  <1> USE CatalogPageAssumption DEF CatalogInit
  <1>1. query \in Queries /\ query.page <= PagesOf[query.filter]
    BY DEF Queries
  <1>2. 1 \in Gens /\ gen = 1 /\ visit = 1 /\ 1 \in 1..MaxVisits
    BY DEF Gens
  <1>3. /\ fetched \in [Gens -> FetchRecords]
        /\ fetched[gen] = [at |-> "products", query |-> query]
    BY <1>1, <1>2 DEF FetchRecords, NoFetch
  <1>4. PICK r \in TreeRuns :
          /\ run = [s \in TreeRuns |-> IF s = r THEN [at |-> "first", visits |-> {1}] ELSE NoRun]
          /\ inflight = r
    OBVIOUS
  <1>5. /\ run \in [TreeRuns -> RunRecords]
        /\ run[r].at = "first" /\ run[r].visits = {1}
        /\ \A s \in TreeRuns \ {r} : run[s].at = "idle" /\ run[s].visits = {}
    BY <1>2, <1>4 DEF NoRun, RunRecords
  <1>6. CatalogPageTypeOK
    BY <1>1, <1>2, <1>3, <1>4, <1>5 DEF CatalogPageTypeOK, FetchRecords, RunRecords
  <1>7. FetchFits
    BY <1>3 DEF FetchFits, LoadingSteps
  <1>8. PagesFit
    BY <1>1 DEF PagesFit
  <1>9. TreeFits
    BY <1>2, <1>4, <1>5 DEF TreeFits, TreeOrRetry, Runs
  <1> QED BY <1>6, <1>7, <1>8, <1>9 DEF CatalogPageInv

LEMMA TreeUntouched ==
  ASSUME CatalogPageInv, UNCHANGED <<visit, onPage, treeVars>>
  PROVE  TreeFits'
  BY DEF CatalogPageInv, TreeFits, TreeOrRetry, Runs, treeVars

\* One of the fetches under way goes a step further.
LEMMA FetchMoves ==
  ASSUME CatalogPageInv, NEW g \in Gens,
         NEW at \in {"ok", "failed", "counts", "counted", "lost", "done"},
         fetched' = [fetched EXCEPT ![g].at = at]
  PROVE  /\ fetched' \in [Gens -> FetchRecords]
         /\ fetched'[g].at = at /\ fetched'[g].query = fetched[g].query
         /\ \A h \in Gens \ {g} : fetched'[h] = fetched[h]
  <1>1. fetched \in [Gens -> FetchRecords]
    BY DEF CatalogPageInv, CatalogPageTypeOK, FetchRecords
  <1>2. [fetched[g] EXCEPT !.at = at] = [at |-> at, query |-> fetched[g].query]
    BY <1>1 DEF FetchRecords
  <1>3. fetched' = [fetched EXCEPT ![g] = [at |-> at, query |-> fetched[g].query]]
    BY <1>1, <1>2
  <1>4. [at |-> at, query |-> fetched[g].query] \in FetchRecords
    BY <1>1 DEF FetchRecords
  <1> QED BY <1>1, <1>3, <1>4

\* A new query: its fetch is the latest one.
LEMMA RefetchKeeps ==
  ASSUME CatalogPageInv, NEW q \in Queries, Refetch(q), early' \in BOOLEAN,
         ~early' => ~early /\ q.page <= PagesOf[q.filter]
  PROVE  CatalogPageInv'
  <1> USE CatalogPageAssumption DEF CatalogPageInv
  <1>1. /\ onPage /\ gen < MaxGen /\ query' = q /\ gen' = gen + 1
        /\ fetching' = TRUE /\ loadError' = FALSE
        /\ UNCHANGED <<visit, onPage, result, facets, treeVars>>
        /\ UNCHANGED <<tree, treeShown, treeLoading, treeError, run, inflight>>
    BY DEF Refetch, treeVars
  <1>2. gen' \in Gens
    BY <1>1 DEF CatalogPageTypeOK, Gens
  <1>3. /\ fetched' \in [Gens -> FetchRecords]
        /\ fetched'[gen'] = [at |-> "products", query |-> q]
    <2>1. fetched \in [Gens -> FetchRecords] /\ [at |-> "products", query |-> q] \in FetchRecords
      BY DEF CatalogPageTypeOK, FetchRecords
    <2>2. fetched' = [fetched EXCEPT ![gen'] = [at |-> "products", query |-> q]]
      BY <1>1 DEF Refetch, Ask
    <2> QED BY <1>2, <2>1, <2>2
  <1>4. CatalogPageTypeOK'
    BY <1>1, <1>2, <1>3 DEF CatalogPageTypeOK, FetchRecords
  <1>5. FetchFits'
    BY <1>1, <1>3 DEF FetchFits, LoadingSteps
  <1>6. PagesFit'
    BY <1>1 DEF PagesFit
  <1> QED BY <1>1, <1>4, <1>5, <1>6, TreeUntouched

LEMMA QueriesChange ==
  ASSUME CatalogPageInv, (\E f \in Filters : Update(f)) \/ TurnPage \/ RetryProducts
  PROVE  CatalogPageInv'
  <1> USE CatalogPageAssumption
  <1>1. /\ query \in Queries /\ early \in BOOLEAN
        /\ result # NoAnswer => result \in Queries
        /\ query.filter \in Filters /\ query.page \in 1..MaxPages
        /\ query = [filter |-> query.filter, page |-> query.page]
    BY DEF CatalogPageInv, CatalogPageTypeOK, Queries
  <1>2. ASSUME NEW f \in Filters, Update(f) PROVE CatalogPageInv'
    BY <1>1, <1>2, FirstPages, RefetchKeeps DEF Update
  <1>3. ASSUME RetryProducts PROVE CatalogPageInv'
    BY <1>1, <1>3, RefetchKeeps DEF RetryProducts, CatalogPageInv, PagesFit
  <1>4. ASSUME TurnPage PROVE CatalogPageInv'
    <2>1. /\ result \in Queries /\ result.filter \in Filters
          /\ PagesOf[result.filter] \in 1..MaxPages /\ PagesOf[query.filter] \in 1..MaxPages
          /\ early' = (early \/ result.filter # query.filter)
      BY <1>1, <1>4 DEF TurnPage, Queries
    <2>2. ~early => query.page <= PagesOf[query.filter]
      BY DEF CatalogPageInv, PagesFit
    <2>3. ASSUME HasPrevious, Refetch([query EXCEPT !.page = @ - 1]) PROVE CatalogPageInv'
      <3> DEFINE q == [query EXCEPT !.page = @ - 1]
      <3>1. q \in Queries /\ q.page = query.page - 1 /\ q.filter = query.filter
        BY <1>1, <2>3 DEF HasPrevious, Queries
      <3>2. ~early' => ~early /\ q.page <= PagesOf[q.filter]
        BY <1>1, <2>1, <2>2, <3>1
      <3>3. Refetch(q) /\ early' \in BOOLEAN
        BY <1>1, <2>1, <2>3
      <3> HIDE DEF q
      <3> QED BY <3>1, <3>2, <3>3, RefetchKeeps
    <2>4. ASSUME HasNext, Refetch([query EXCEPT !.page = @ + 1]) PROVE CatalogPageInv'
      <3> DEFINE q == [query EXCEPT !.page = @ + 1]
      <3>1. q \in Queries /\ q.page = query.page + 1 /\ q.filter = query.filter
        BY <1>1, <2>1, <2>4 DEF HasNext, Queries
      <3>2. ~early' => ~early /\ q.page <= PagesOf[q.filter]
        <4>1. ~early' => ~early /\ result.filter = query.filter
          BY <2>1
        <4>2. query.page < PagesOf[result.filter]
          BY <2>4 DEF HasNext
        <4> QED BY <1>1, <2>1, <3>1, <4>1, <4>2
      <3>3. Refetch(q) /\ early' \in BOOLEAN
        BY <1>1, <2>1, <2>4
      <3> HIDE DEF q
      <3> QED BY <3>1, <3>2, <3>3, RefetchKeeps
    <2> QED BY <1>4, <2>3, <2>4 DEF TurnPage
  <1> QED BY <1>2, <1>3, <1>4

LEMMA FetchesAnswered ==
  ASSUME CatalogPageInv, NEW g \in Gens,
         ServeFetch(g) \/ ProductsAnswered(g) \/ ProductsFailed(g) \/ CountsAnswered(g)
  PROVE  CatalogPageInv'
  <1> USE DEF CatalogPageInv
  <1>1. /\ {fetching, loadError} \subseteq BOOLEAN /\ gen \in Gens /\ query \in Queries
        /\ result \in Queries \cup {NoAnswer} /\ facets \in Queries \cup {NoAnswer}
    BY DEF CatalogPageTypeOK
  <1>2. ASSUME ServeFetch(g) PROVE CatalogPageInv'
    <2>1. /\ UNCHANGED <<visit, onPage, query, gen, result, facets, fetching, loadError, early>>
          /\ UNCHANGED <<tree, treeShown, treeLoading, treeError, run, inflight, treeVars>>
      BY <1>2 DEF ServeFetch, treeVars
    <2>2. PICK at \in {"ok", "failed", "counted", "lost"} :
            /\ fetched' = [fetched EXCEPT ![g].at = at]
            /\ \/ fetched[g].at = "products" /\ at \in {"ok", "failed"}
               \/ fetched[g].at = "counts" /\ at \in {"counted", "lost"}
      <3>1. PICK ok \in BOOLEAN :
              fetched' = [fetched EXCEPT ![g].at = IF fetched[g].at = "products" THEN (IF ok THEN "ok" ELSE "failed")
                                                   ELSE (IF ok THEN "counted" ELSE "lost")]
        BY <1>2 DEF ServeFetch
      <3>2. CASE fetched[g].at = "products"
        <4>1. fetched' = [fetched EXCEPT ![g].at = IF ok THEN "ok" ELSE "failed"]
          BY <3>1, <3>2
        <4>2. (fetched' = [fetched EXCEPT ![g].at = "ok"]) \/ (fetched' = [fetched EXCEPT ![g].at = "failed"])
          BY <4>1
        <4> QED BY <3>2, <4>2
      <3>3. CASE fetched[g].at = "counts"
        <4>1. fetched' = [fetched EXCEPT ![g].at = IF ok THEN "counted" ELSE "lost"]
          BY <3>1, <3>3
        <4> QED BY <3>3, <4>1
      <3> QED BY <1>2, <3>2, <3>3 DEF ServeFetch
    <2>3. /\ fetched' \in [Gens -> FetchRecords]
          /\ fetched'[g].at = at /\ fetched'[g].query = fetched[g].query
          /\ \A h \in Gens \ {g} : fetched'[h] = fetched[h]
      BY <2>2, FetchMoves
    <2>4. CatalogPageTypeOK'
      BY <2>1, <2>3 DEF CatalogPageTypeOK, FetchRecords
    <2>5. FetchFits'
      <3>1. CASE g = gen
        BY <1>1, <2>1, <2>2, <2>3, <3>1 DEF FetchFits, LoadingSteps
      <3>2. CASE g # gen
        BY <1>1, <2>1, <2>3, <3>2 DEF FetchFits
      <3> QED BY <3>1, <3>2
    <2>6. PagesFit'
      BY <2>1 DEF PagesFit
    <2> QED BY <2>1, <2>4, <2>5, <2>6, TreeUntouched
  <1>3. ASSUME ProductsAnswered(g) PROVE CatalogPageInv'
    <2>1. /\ UNCHANGED <<visit, onPage, query, gen, facets, early>>
          /\ UNCHANGED <<tree, treeShown, treeLoading, treeError, run, inflight, treeVars>>
          /\ fetched[g].at = "ok"
          /\ IF g = gen /\ onPage THEN result' = fetched[g].query /\ loadError' = FALSE /\ fetching' = FALSE
                                  ELSE UNCHANGED <<result, loadError, fetching>>
      BY <1>3 DEF ProductsAnswered, Latest, treeVars
    <2>2. PICK at \in {"counts", "done"} :
            fetched' = [fetched EXCEPT ![g].at = at] /\ at = IF g = gen /\ onPage THEN "counts" ELSE "done"
      BY <1>3 DEF ProductsAnswered, Latest
    <2>3. /\ fetched' \in [Gens -> FetchRecords]
          /\ fetched'[g].at = at /\ fetched'[g].query = fetched[g].query
          /\ \A h \in Gens \ {g} : fetched'[h] = fetched[h]
      BY <2>2, FetchMoves
    <2>4. g = gen /\ onPage => result' = query
      BY <2>1 DEF FetchFits
    <2>5. CatalogPageTypeOK'
      BY <1>1, <2>1, <2>3, <2>4 DEF CatalogPageTypeOK, FetchRecords
    <2>6. FetchFits'
      <3>1. CASE g = gen
        BY <1>1, <2>1, <2>2, <2>3, <2>4, <3>1 DEF FetchFits, LoadingSteps
      <3>2. CASE g # gen
        BY <1>1, <2>1, <2>3, <3>2 DEF FetchFits
      <3> QED BY <3>1, <3>2
    <2>7. PagesFit'
      BY <2>1, <2>4 DEF PagesFit
    <2> QED BY <2>1, <2>5, <2>6, <2>7, TreeUntouched
  <1>4. ASSUME ProductsFailed(g) PROVE CatalogPageInv'
    <2>1. /\ UNCHANGED <<visit, onPage, query, gen, result, facets, early>>
          /\ UNCHANGED <<tree, treeShown, treeLoading, treeError, run, inflight, treeVars>>
          /\ fetched[g].at = "failed" /\ fetched' = [fetched EXCEPT ![g].at = "done"]
          /\ IF g = gen /\ onPage THEN loadError' = TRUE /\ fetching' = FALSE
                                  ELSE UNCHANGED <<loadError, fetching>>
      BY <1>4 DEF ProductsFailed, Latest, treeVars
    <2>3. /\ fetched' \in [Gens -> FetchRecords]
          /\ fetched'[g].at = "done" /\ fetched'[g].query = fetched[g].query
          /\ \A h \in Gens \ {g} : fetched'[h] = fetched[h]
      BY <2>1, FetchMoves
    <2>4. CatalogPageTypeOK'
      BY <1>1, <2>1, <2>3 DEF CatalogPageTypeOK, FetchRecords
    <2>5. FetchFits'
      <3>1. CASE g = gen
        BY <1>1, <2>1, <2>3, <3>1 DEF FetchFits, LoadingSteps
      <3>2. CASE g # gen
        BY <1>1, <2>1, <2>3, <3>2 DEF FetchFits
      <3> QED BY <3>1, <3>2
    <2>6. PagesFit'
      BY <2>1 DEF PagesFit
    <2> QED BY <2>1, <2>4, <2>5, <2>6, TreeUntouched
  <1>5. ASSUME CountsAnswered(g) PROVE CatalogPageInv'
    <2>1. /\ UNCHANGED <<visit, onPage, query, gen, result, fetching, loadError, early>>
          /\ UNCHANGED <<tree, treeShown, treeLoading, treeError, run, inflight, treeVars>>
          /\ fetched[g].at = "counted" /\ fetched' = [fetched EXCEPT ![g].at = "done"]
          /\ facets' = IF onPage /\ g = gen THEN fetched[g].query ELSE facets
      BY <1>5 DEF CountsAnswered, StillWanted, treeVars
    <2>3. /\ fetched' \in [Gens -> FetchRecords]
          /\ fetched'[g].at = "done" /\ fetched'[g].query = fetched[g].query
          /\ \A h \in Gens \ {g} : fetched'[h] = fetched[h]
      BY <2>1, FetchMoves
    <2>4. g = gen /\ onPage => facets' = query /\ (~loadError => result = query)
      BY <2>1 DEF FetchFits, LoadingSteps
    <2>5. facets' \in Queries \cup {NoAnswer}
      BY <1>1, <2>1, <2>4
    <2>6. CatalogPageTypeOK'
      BY <1>1, <2>1, <2>3, <2>5 DEF CatalogPageTypeOK, FetchRecords
    <2>7. FetchFits'
      <3>1. CASE g = gen
        BY <1>1, <2>1, <2>3, <2>4, <3>1 DEF FetchFits, LoadingSteps
      <3>2. CASE g # gen
        BY <1>1, <2>1, <2>3, <3>2 DEF FetchFits
      <3> QED BY <3>1, <3>2
    <2>8. PagesFit'
      BY <2>1 DEF PagesFit
    <2> QED BY <2>1, <2>6, <2>7, <2>8, TreeUntouched
  <1> QED BY <1>2, <1>3, <1>4, <1>5

\* A visit that needs the tree joins the fetch in flight, or starts one of its own.
LEMMA JoinsOrRuns ==
  ASSUME CatalogPageInv, NEW v \in 1..MaxVisits, visit' = v, NEW force \in BOOLEAN, JoinOrRun(force),
         v \in visit..visit + 1, \A r \in TreeRuns : v \notin run[r].visits,
         treeLoading' = TRUE, onPage' = TRUE, treeShown' \in BOOLEAN
  PROVE  run' \in [TreeRuns -> RunRecords] /\ inflight' \in TreeRuns \cup {NoAnswer} /\ TreeFits'
  <1> USE DEF CatalogPageInv
  <1>1. run \in [TreeRuns -> RunRecords] /\ inflight \in TreeRuns \cup {NoAnswer} /\ visit \in 1..MaxVisits
    BY DEF CatalogPageTypeOK, RunRecords
  <1>2. PICK r \in TreeRuns, at \in {"first", "second", "ok", "failed"}, waiting \in SUBSET (1..v) :
          /\ run' = [run EXCEPT ![r] = [at |-> at, visits |-> waiting]] /\ v \in waiting
          /\ inflight' = r
    <2>1. CASE ~force /\ inflight # NoAnswer
      <3> DEFINE r == inflight
      <3>1. /\ r \in TreeRuns /\ run[r].at \in {"first", "second", "ok", "failed"}
            /\ run[r].visits \in SUBSET (1..visit) /\ UNCHANGED inflight
        BY <1>1, <2>1 DEF TreeFits, Runs, RunRecords, JoinOrRun
      <3>2. run' = [run EXCEPT ![r].visits = @ \cup {v}]
        BY <2>1 DEF JoinOrRun
      <3> HIDE DEF r
      <3>3. ASSUME NEW o \in RunRecords, NEW w
            PROVE  [o EXCEPT !.visits = w] = [at |-> o.at, visits |-> w]
        BY DEF RunRecords
      <3>4. run' = [run EXCEPT ![r] = [at |-> run[r].at, visits |-> run[r].visits \cup {v}]]
        BY <1>1, <3>1, <3>2, <3>3
      <3>5. run[r].visits \cup {v} \in SUBSET (1..v)
        BY <1>1, <3>1
      <3> QED BY <3>1, <3>4, <3>5 DEF r
    <2>2. CASE ~(~force /\ inflight # NoAnswer)
      <3>1. PICK r \in TreeRuns : run' = [run EXCEPT ![r] = [at |-> "first", visits |-> {v}]] /\ inflight' = r
        BY <2>2 DEF JoinOrRun
      <3>2. {v} \in SUBSET (1..v)
        OBVIOUS
      <3> QED BY <3>1, <3>2
    <2> QED BY <2>1, <2>2
  <1>3. /\ 1..v \subseteq 1..MaxVisits /\ 1..visit \subseteq 1..v
        /\ [at |-> at, visits |-> waiting] \in RunRecords
    <2>1. 1..v \subseteq 1..MaxVisits /\ 1..visit \subseteq 1..v
      BY <1>1, CatalogPageAssumption
    <2>2. waiting \in SUBSET (1..MaxVisits)
      BY <2>1
    <2> QED BY <2>1, <2>2 DEF RunRecords
  <1>4. /\ run' \in [TreeRuns -> RunRecords]
        /\ run'[r].at = at /\ run'[r].visits = waiting
        /\ \A s \in TreeRuns \ {r} : run'[s] = run[s]
    BY <1>1, <1>2, <1>3
  <1>5. r \in Runs' /\ inflight' \in Runs'
    BY <1>2, <1>4 DEF Runs
  <1>6. \A s \in TreeRuns : run'[s].visits \subseteq 1..visit'
    BY <1>2, <1>3, <1>4 DEF TreeFits
  <1>7. \A s \in TreeRuns : run'[s].at = "idle" => run'[s].visits = {}
    BY <1>2, <1>4 DEF TreeFits
  <1>8. \A s \in TreeRuns : visit' \in run'[s].visits => s = r
    BY <1>4
  <1> QED BY <1>2, <1>4, <1>5, <1>6, <1>7, <1>8 DEF TreeFits, TreeOrRetry

LEMMA VisitsComeAndGo ==
  ASSUME CatalogPageInv, Leave \/ RetryTree \/ \E f \in Filters : Return(f)
  PROVE  CatalogPageInv'
  <1> USE DEF CatalogPageInv
  <1>1. ASSUME Leave PROVE CatalogPageInv'
    <2>1. /\ onPage' = FALSE /\ UNCHANGED <<visit, query, gen, fetched, result, facets, fetching, loadError, early>>
          /\ UNCHANGED <<tree, treeShown, treeLoading, treeError, run, inflight>>
      BY <1>1 DEF Leave, fetchVars, treeVars
    <2>2. CatalogPageTypeOK'
      BY <2>1 DEF CatalogPageTypeOK
    <2>3. FetchFits' /\ PagesFit'
      BY <2>1 DEF FetchFits, PagesFit
    <2>4. TreeFits'
      BY <2>1 DEF TreeFits, TreeOrRetry, Runs
    <2> QED BY <2>2, <2>3, <2>4
  <1>2. ASSUME RetryTree PROVE CatalogPageInv'
    <2>1. /\ onPage /\ ~treeLoading /\ treeLoading' = TRUE /\ treeError' = FALSE /\ JoinOrRun(TRUE)
          /\ UNCHANGED <<visit, onPage, query, gen, fetched, result, facets, fetching, loadError, early>>
          /\ UNCHANGED <<tree, treeShown>>
      BY <1>2 DEF RetryTree, fetchVars
    <2>2. visit \in 1..MaxVisits /\ visit \in visit..visit + 1 /\ treeShown \in BOOLEAN
      BY DEF CatalogPageTypeOK
    <2>3. \A r \in TreeRuns : visit \notin run[r].visits
      BY <2>1 DEF TreeFits, Runs
    <2>4. run' \in [TreeRuns -> RunRecords] /\ inflight' \in TreeRuns \cup {NoAnswer} /\ TreeFits'
      <3>1. visit' = visit /\ onPage' = TRUE /\ treeShown' \in BOOLEAN
        BY <2>1, <2>2 DEF CatalogPageTypeOK
      <3> QED BY <2>1, <2>2, <2>3, <3>1, JoinsOrRuns
    <2>5. CatalogPageTypeOK'
      BY <2>1, <2>4 DEF CatalogPageTypeOK, RunRecords
    <2>6. FetchFits' /\ PagesFit'
      BY <2>1 DEF FetchFits, PagesFit
    <2> QED BY <2>4, <2>5, <2>6
  <1>3. ASSUME NEW f \in Filters, Return(f) PROVE CatalogPageInv'
    <2>1. /\ ~onPage /\ visit < MaxVisits /\ visit' = visit + 1 /\ onPage' = TRUE
          /\ query' = Updated(f) /\ gen' = 1 /\ result' = NoAnswer /\ facets' = NoAnswer
          /\ fetching' = TRUE /\ loadError' = FALSE /\ early' = FALSE
          /\ treeShown' = tree /\ treeError' = FALSE /\ UNCHANGED tree
          /\ IF tree THEN treeLoading' = FALSE /\ UNCHANGED <<run, inflight>>
                     ELSE treeLoading' = TRUE /\ JoinOrRun(FALSE)
      BY <1>3 DEF Return
    <2>2. fetched' = [g \in Gens |-> IF g = 1 THEN [at |-> "products", query |-> Updated(f)] ELSE NoFetch]
      BY <1>3 DEF Return
    <2>3. /\ 1 \in Gens /\ visit \in 1..MaxVisits /\ visit + 1 \in 1..MaxVisits
          /\ visit + 1 \in visit..visit + 1 /\ tree \in BOOLEAN
          /\ 1..visit \subseteq 1..visit + 1 /\ visit + 1 \notin 1..visit
      BY <2>1, CatalogPageAssumption DEF CatalogPageTypeOK, Gens
    <2>4. /\ fetched' \in [Gens -> FetchRecords]
          /\ fetched'[gen'] = [at |-> "products", query |-> Updated(f)]
      BY <2>1, <2>2, <2>3, FirstPages DEF FetchRecords, NoFetch
    <2>5. \A r \in TreeRuns : visit + 1 \notin run[r].visits
      BY <2>3 DEF TreeFits
    <2>6. run' \in [TreeRuns -> RunRecords] /\ inflight' \in TreeRuns \cup {NoAnswer} /\ TreeFits'
      <3>1. CASE tree
        <4>1. run \in [TreeRuns -> RunRecords] /\ inflight \in TreeRuns \cup {NoAnswer}
          BY DEF CatalogPageTypeOK, RunRecords
        <4>2. UNCHANGED <<run, inflight>> /\ treeLoading' = FALSE /\ treeShown'
          BY <2>1, <3>1
        <4>3. \A r \in TreeRuns : run'[r].visits \subseteq 1..visit'
          BY <2>1, <2>3, <4>2 DEF TreeFits
        <4>4. inflight' # NoAnswer => inflight' \in Runs'
          BY <4>2 DEF TreeFits, Runs
        <4>5. \A r \in TreeRuns : visit' \notin run'[r].visits
          BY <2>1, <2>5, <4>2
        <4>6. \A r \in TreeRuns : run'[r].at = "idle" => run'[r].visits = {}
          BY <4>2 DEF TreeFits
        <4>7. TreeOrRetry'
          BY <4>2 DEF TreeOrRetry
        <4>8. treeLoading' <=> \E r \in Runs' : visit' \in run'[r].visits
          BY <4>2, <4>5 DEF Runs
        <4> QED BY <4>1, <4>2, <4>3, <4>4, <4>5, <4>6, <4>7, <4>8 DEF TreeFits
      <3>2. CASE ~tree
        <4>1. treeLoading' = TRUE /\ JoinOrRun(FALSE) /\ treeShown' \in BOOLEAN
          BY <2>1, <2>3, <3>2
        <4> DEFINE v == visit + 1
        <4>2. v \in 1..MaxVisits /\ visit' = v /\ v \in visit..visit + 1 /\ \A r \in TreeRuns : v \notin run[r].visits
          BY <2>1, <2>3, <2>5
        <4>3. PICK w \in 1..MaxVisits : w = v
          BY <4>2
        <4> HIDE DEF v
        <4> QED BY <2>1, <4>1, <4>2, <4>3, JoinsOrRuns
      <3> QED BY <2>3, <3>1, <3>2
    <2>7. CatalogPageTypeOK'
      <3>1. {tree', treeShown', treeLoading', treeError'} \subseteq BOOLEAN
        BY <2>1, <2>3
      <3> QED BY <2>1, <2>3, <2>4, <2>6, <3>1, FirstPages DEF CatalogPageTypeOK, RunRecords, FetchRecords
    <2>8. FetchFits'
      BY <2>1, <2>4 DEF FetchFits, LoadingSteps
    <2>9. PagesFit'
      BY <2>1, FirstPages DEF PagesFit
    <2> QED BY <2>6, <2>7, <2>8, <2>9
  <1> QED BY <1>1, <1>2, <1>3

LEMMA TreeFetchesAnswered ==
  ASSUME CatalogPageInv, NEW r \in TreeRuns, ServeTree(r) \/ TreeAnswered(r)
  PROVE  CatalogPageInv'
  <1> USE DEF CatalogPageInv
  <1>1. /\ run \in [TreeRuns -> RunRecords] /\ inflight \in TreeRuns \cup {NoAnswer}
        /\ {tree, treeShown, treeLoading, treeError} \subseteq BOOLEAN
    BY DEF CatalogPageTypeOK, RunRecords
  <1>2. UNCHANGED <<visit, onPage, query, gen, fetched, result, facets, fetching, loadError, early>>
    BY DEF ServeTree, TreeAnswered, fetchVars
  <1>3. FetchFits' /\ PagesFit'
    BY <1>2 DEF FetchFits, PagesFit
  <1>4. ASSUME ServeTree(r) PROVE CatalogPageInv'
    <2>1. PICK at \in {"second", "ok", "failed"} : run' = [run EXCEPT ![r].at = at]
      BY <1>4 DEF ServeTree, Attempts
    <2>2. run[r].at # "idle" /\ UNCHANGED <<treeShown, treeLoading, treeError, inflight>> /\ tree' \in BOOLEAN
      BY <1>1, <1>4 DEF ServeTree
    <2>3. [run[r] EXCEPT !.at = at] = [at |-> at, visits |-> run[r].visits]
      BY <1>1 DEF RunRecords
    <2>4. run' = [run EXCEPT ![r] = [at |-> at, visits |-> run[r].visits]]
      BY <1>1, <2>1, <2>3
    <2>5. [at |-> at, visits |-> run[r].visits] \in RunRecords
      BY <1>1 DEF RunRecords
    <2>6. /\ run' \in [TreeRuns -> RunRecords] /\ run'[r].at = at /\ run'[r].visits = run[r].visits
          /\ \A s \in TreeRuns \ {r} : run'[s] = run[s]
      BY <1>1, <2>4, <2>5
    <2>7. Runs' = Runs /\ \A s \in TreeRuns : run'[s].visits = run[s].visits
      BY <2>2, <2>6 DEF Runs
    <2>8. CatalogPageTypeOK'
      BY <1>1, <1>2, <2>2, <2>6 DEF CatalogPageTypeOK, RunRecords
    <2>9. TreeFits'
      <3>1. \A s \in TreeRuns : run'[s].at = "idle" => run'[s].visits = {}
        BY <2>2, <2>6 DEF TreeFits
      <3>2. TreeOrRetry'
        BY <1>2, <2>2 DEF TreeFits, TreeOrRetry
      <3>3. onPage => (treeLoading <=> \E s \in Runs : visit \in run[s].visits)
        BY DEF TreeFits
      <3>4. onPage' => (treeLoading' <=> \E s \in Runs' : visit' \in run'[s].visits)
        BY <1>2, <2>2, <2>7, <3>3 DEF Runs
      <3> QED BY <1>2, <2>2, <2>7, <3>1, <3>2, <3>4 DEF TreeFits
    <2> QED BY <1>3, <2>8, <2>9
  <1>5. ASSUME TreeAnswered(r) PROVE CatalogPageInv'
    <2>1. /\ run[r].at \in {"ok", "failed"} /\ inflight' = NoAnswer /\ UNCHANGED tree
          /\ IF onPage /\ visit \in run[r].visits
             THEN treeLoading' = FALSE /\ treeShown' = (treeShown \/ tree) /\ treeError' = ~tree
             ELSE UNCHANGED <<treeLoading, treeShown, treeError>>
      BY <1>5 DEF TreeAnswered
    <2>2. /\ run' \in [TreeRuns -> RunRecords] /\ run'[r].at = "idle" /\ run'[r].visits = {}
          /\ \A s \in TreeRuns \ {r} : run'[s] = run[s]
      BY <1>1, <1>5 DEF TreeAnswered, NoRun, RunRecords
    <2>3. Runs' = Runs \ {r}
      BY <2>2 DEF Runs
    <2>4. CatalogPageTypeOK'
      <3>1. {tree', treeShown', treeLoading', treeError'} \subseteq BOOLEAN
        BY <1>1, <2>1
      <3> QED BY <1>1, <1>2, <2>1, <2>2, <3>1 DEF CatalogPageTypeOK, RunRecords
    <2>5. TreeFits'
      <3>1. \A s \in TreeRuns : run'[s].visits \subseteq run[s].visits
        BY <2>2
      <3>2. /\ \A s \in TreeRuns : run'[s].visits \subseteq 1..visit'
            /\ \A s \in TreeRuns : run'[s].at = "idle" => run'[s].visits = {}
            /\ \A s, t \in TreeRuns : visit' \in run'[s].visits \cap run'[t].visits => s = t
        BY <1>2, <2>2, <3>1 DEF TreeFits
      <3>3. onPage' => (treeLoading' <=> \E s \in Runs' : visit' \in run'[s].visits)
        <4>1. CASE onPage /\ visit \in run[r].visits
          <5>1. \A s \in TreeRuns \ {r} : visit \notin run[s].visits
            BY <4>1 DEF TreeFits
          <5> QED BY <1>2, <2>1, <2>2, <2>3, <4>1, <5>1 DEF Runs
        <4>2. CASE onPage /\ visit \notin run[r].visits
          <5>1. treeLoading' = treeLoading /\ (treeLoading <=> \E s \in Runs : visit \in run[s].visits)
            BY <2>1, <4>2 DEF TreeFits
          <5>2. \A s \in Runs : s = r \/ (s \in Runs' /\ run'[s].visits = run[s].visits)
            BY <2>2, <2>3 DEF Runs
          <5> QED BY <1>2, <2>3, <2>2, <3>1, <4>2, <5>1, <5>2 DEF Runs
        <4> QED BY <1>2, <4>1, <4>2
      <3>4. TreeOrRetry'
        BY <1>1, <1>2, <2>1 DEF TreeFits, TreeOrRetry
      <3> QED BY <2>1, <3>2, <3>3, <3>4 DEF TreeFits
    <2> QED BY <1>3, <2>4, <2>5
  <1> QED BY <1>4, <1>5

LEMMA StepCatalogPage == CatalogPageInv /\ [CatalogPageNext]_catalogVars => CatalogPageInv'
  <1> SUFFICES ASSUME CatalogPageInv, [CatalogPageNext]_catalogVars PROVE CatalogPageInv'
    OBVIOUS
  <1>1. CASE UNCHANGED catalogVars
    BY <1>1 DEF catalogVars, CatalogPageInv, CatalogPageTypeOK, FetchFits, PagesFit, TreeFits, TreeOrRetry, Runs
  <1>2. CASE CatalogPageNext
    BY <1>2, QueriesChange, FetchesAnswered, VisitsComeAndGo, TreeFetchesAnswered DEF CatalogPageNext
  <1> QED BY <1>1, <1>2

\* Whatever order the answers come in, and however often the page is left and come back to, at rest it
\* shows what its address asks for with the counts that belong to it, no spinner turns for nothing, and
\* a visit without the tree has the button that fetches it again.
THEOREM TheCatalogShowsItsQuery == CatalogPageSpec => []CatalogShowsItsQuery
  <1>1. CatalogPageInv => CatalogShowsItsQuery
    BY DEF CatalogPageInv, CatalogPageTypeOK, FetchFits, PagesFit, TreeFits, LoadingSteps, Runs, CatalogShowsItsQuery, IdleShowsTheQuery,
           CountsFollowTheProducts, ShownPageExists, LoadingHasAFetch
  <1> QED BY <1>1, InitCatalogPage, StepCatalogPage, PTL DEF CatalogPageSpec

-----------------------------------------------------------------------------
(***************************************************************************)
(* The page of a product comes to be of one product, and a review sent     *)
(* again keeps its text.                                                   *)
(***************************************************************************)

\* An error that took the place of the page stays: nothing is asked behind it.
NothingIsAskedBehind == wrongPage => asked = {}

\* A review under way is of a product.
SendingFits ==
  /\ sending.at = "no" => sending = NotSending
  /\ sending.at # "no" => sending.of \in Things

\* What was read is the shopper's review, unless one of this product is under way, or a
\* namesake has reviewed it.
Reads(found) == found = Own(slug) \/ sending.of = slug \/ slug \in Namesakes
AsksForReviews == \E r \in asked : r.kind = "reviews"
OfOneProduct ==
  ~shuffled /\ ~wrongPage =>
    /\ \A r \in asked : r.of = slug /\ (r.kind = "reviews" => r.got = Unread \/ Reads(r.got))
    /\ productShown = slug \/ AskFor("product", slug) \in asked
    /\ productShown = slug => AsksForReviews \/ (listOf = slug /\ Reads(mine))

\* A list and a review of one product that were never under way together: the list read
\* the review that there is, and a form that is blank was blanked by hand or by an answer,
\* or has had no text to be filled with.
Plain(p) == p \in Things /\ p \notin tangled /\ p \notin Namesakes
NeverTogether == sending.at # "no" => \A r \in asked : r.kind = "reviews" /\ r.of = sending.of => r.of \in tangled
ListsAreCurrent ==
  \A r \in asked : r.kind = "reviews" /\ r.got # Unread /\ Plain(r.of) => r.got = Own(r.of)
FormKnows ==
  Plain(listOf) /\ ~erased /\ ~emptied /\ field # "text" => myReview[listOf] # "text"

\* While a review is under way the form shows what was sent, or what was typed since.
FormShowsSent ==
  sending.at # "no" /\ listOf = sending.of /\ Plain(listOf) => field = sending.text \/ field = "text" \/ erased

\* A sending that is not meant to replace the text finds none.
SendsItsText ==
  sending.at = "sent" /\ ~sending.meant /\ ~sending.lapse /\ sending.text # "text"
    => myReview[sending.of] # "text"

ReviewFormFits == NeverTogether /\ ListsAreCurrent /\ FormKnows /\ FormShowsSent

ProductPagesInv ==
  /\ ProductPagesTypeOK /\ NothingIsAskedBehind /\ SendingFits /\ OfOneProduct /\ ReviewFormFits
  /\ SendsItsText

Requests0 == [kind : {"product", "reviews", "canReview"}, of : Things, got : Found]

LEMMA AskForFits ==
  ASSUME NEW kind \in {"product", "reviews", "canReview"}, NEW p \in Things
  PROVE  /\ AskFor(kind, p) \in Requests0 /\ AskFor(kind, p).kind = kind /\ AskFor(kind, p).of = p
         /\ AskFor(kind, p).got = Unread
  BY DEF AskFor, Requests0, Found, Unread, Texts

LEMMA ReadFits ==
  ASSUME NEW r \in Requests0, NEW found \in Found
  PROVE  LET s == [r EXCEPT !.got = found]
         IN  s \in Requests0 /\ s.kind = r.kind /\ s.of = r.of /\ s.got = found
  BY DEF Requests0

LEMMA OwnFits ==
  ASSUME ProductPagesTypeOK, NEW p \in Things
  PROVE  /\ Own(p) \in Found /\ FirstOfName(p) \subseteq Found /\ Own(p) # Unread
         /\ p \notin Namesakes => FirstOfName(p) = {Own(p)}
         /\ Own(p).by \in {"nobody", "me"}
         /\ Own(p).by = "nobody" => myReview[p] = "none"
         /\ Own(p).by = "me" => Own(p).text = myReview[p]
  BY DEF ProductPagesTypeOK, Own, FirstOfName, Found, Texts, NoReview, Unread

\* A step that leaves the form and the reviews alone, and asks for no list of the product
\* whose review is under way.
LEMMA FormStays ==
  ASSUME ReviewFormFits, UNCHANGED <<myReview, listOf, field, sending, erased, emptied, tangled>>,
         \A r \in asked' : r \in asked \/ r.kind # "reviews"
                             \/ (r.got = Unread /\ (sending.at = "no" \/ r.of # sending.of))
  PROVE  ReviewFormFits'
  BY DEF ReviewFormFits, NeverTogether, ListsAreCurrent, FormKnows, FormShowsSent, Plain, Own

LEMMA InitProductPages == ProductPagesInit => ProductPagesInv
  <1> SUFFICES ASSUME ProductPagesInit PROVE ProductPagesInv
    OBVIOUS
  <1>1. /\ slug \in Things /\ productShown = NoThing /\ wrongPage = FALSE /\ asked = {AskFor("product", slug)}
        /\ myReview \in [Things -> {"none", "text"}] /\ listOf = NoThing /\ mine = NoReview /\ mayReview = FALSE
        /\ field = "blank" /\ sending = NotSending /\ looks = 0 /\ erased = FALSE /\ emptied = FALSE
        /\ tangled = {} /\ shuffled = FALSE
    BY DEF ProductPagesInit
  <1>2. /\ AskFor("product", slug) \in Requests0 /\ AskFor("product", slug).kind = "product"
        /\ AskFor("product", slug).of = slug
    BY <1>1, AskForFits
  <1>6. sending \in [at : {"no", "sent", "ok", "failed"}, of : Things \cup {NoThing}, text : Texts,
                    meant : BOOLEAN, lapse : BOOLEAN]
    BY <1>1 DEF NotSending, Texts
  <1>7. /\ asked \subseteq Requests0 /\ looks \in 0..MaxLooks /\ mine \in Found /\ field \in Texts
        /\ myReview \in [Things -> Texts \cup {"none"}]
    BY <1>1, <1>2, ProductPagesAssumption DEF Texts, Found, NoReview
  <1>3. ProductPagesTypeOK
    BY <1>1, <1>6, <1>7 DEF ProductPagesTypeOK, Requests0
  <1>4. NothingIsAskedBehind /\ SendingFits /\ ReviewFormFits /\ SendsItsText
    BY <1>1, <1>2, ProductPagesAssumption
       DEF NothingIsAskedBehind, SendingFits, ReviewFormFits, NeverTogether, ListsAreCurrent, FormKnows, FormShowsSent,
           Plain, SendsItsText, NotSending
  <1>5. OfOneProduct
    BY <1>1, <1>2, ProductPagesAssumption DEF OfOneProduct
  <1> QED BY <1>3, <1>4, <1>5 DEF ProductPagesInv

\* What a step may do to the reviews: nothing, or replace a text that was meant to be, or
\* that a form replaces that was emptied or took a namesake's.
Keeps ==
  \A p \in Things : myReview[p] = "text" /\ myReview'[p] # "text" => sending.meant \/ sending.lapse
GoesOn == ProductPagesInv' /\ Keeps
LEMMA KeptReviews == ASSUME UNCHANGED myReview PROVE Keeps
  BY DEF Keeps

-----------------------------------------------------------------------------
(* The page.                                                                 *)

LEMMA LooksAtAnother == ASSUME ProductPagesInv, NEW p \in Things, Look(p) PROVE GoesOn
  <1> USE DEF ProductPagesInv
  <1>1. /\ p # slug /\ looks < MaxLooks /\ ~wrongPage /\ slug' = p /\ looks' = looks + 1
        /\ asked' = asked \cup {AskFor("product", p)}
        /\ (shuffled' <=> (shuffled \/ asked # {} \/ sending # NotSending)) /\ shuffled' \in BOOLEAN
        /\ UNCHANGED <<productShown, wrongPage, myReview, listOf, mine, mayReview, field, sending, erased, emptied, tangled>>
    BY DEF Look, reviewVars
  <1>2. /\ AskFor("product", p) \in Requests0 /\ AskFor("product", p).kind = "product"
        /\ AskFor("product", p).of = p
    BY AskForFits
  <1>3. ProductPagesTypeOK'
    BY <1>1, <1>2, ProductPagesAssumption DEF ProductPagesTypeOK, Requests0
  <1>4. NothingIsAskedBehind' /\ SendingFits' /\ SendsItsText'
    BY <1>1 DEF NothingIsAskedBehind, SendingFits, SendsItsText
  <1>5. ReviewFormFits'
    BY <1>1, <1>2, FormStays
  <1>6. OfOneProduct'
    <2> SUFFICES ASSUME ~shuffled' PROVE OfOneProduct'
      BY DEF OfOneProduct
    <2>1. asked' = {AskFor("product", p)} /\ productShown = slug
      BY <1>1 DEF OfOneProduct
    <2> QED BY <1>1, <1>2, <2>1 DEF OfOneProduct
  <1> QED BY <1>1, <1>3, <1>4, <1>5, <1>6, KeptReviews DEF GoesOn

LEMMA ProductComes ==
  ASSUME ProductPagesInv, NEW r \in asked, ProductAnswered(r)
  PROVE  GoesOn
  <1> USE DEF ProductPagesInv
  <1> DEFINE more == IF r.of = productShown THEN {} ELSE FollowUps(r.of)
  <1>1. /\ r.kind = "product" /\ productShown' = r.of /\ asked' = (asked \ {r}) \cup more
        /\ tangled' = tangled \cup (IF r.of \in {sending.of} \ {productShown} THEN {r.of} ELSE {})
        /\ UNCHANGED <<slug, wrongPage, myReview, listOf, mine, mayReview, field, sending, erased, emptied, looks,
                       shuffled>>
    BY DEF ProductAnswered
  <1>2. r \in Requests0 /\ r.of \in Things
    BY DEF ProductPagesTypeOK, Requests0
  <1>3. /\ more \subseteq Requests0
        /\ \A s \in more : s.of = r.of /\ s.got = Unread
        /\ r.of = productShown => more = {}
        /\ r.of # productShown => \E s \in more : s.kind = "reviews"
    BY <1>2, AskForFits DEF FollowUps
  <1> HIDE DEF more
  <1>4. ProductPagesTypeOK'
    BY <1>1, <1>2, <1>3 DEF ProductPagesTypeOK, Requests0
  <1>5. NothingIsAskedBehind' /\ SendingFits' /\ SendsItsText'
    BY <1>1 DEF NothingIsAskedBehind, SendingFits, SendsItsText
  <1>6. ReviewFormFits'
    <2>1. tangled \subseteq tangled' /\ \A p : Plain(p)' => Plain(p)
      BY <1>1 DEF Plain
    <2>2. NeverTogether'
      BY <1>1, <1>3 DEF ReviewFormFits, NeverTogether
    <2>3. ListsAreCurrent'
      BY <1>1, <1>3, <2>1 DEF ReviewFormFits, ListsAreCurrent, Own
    <2>4. FormKnows' /\ FormShowsSent'
      BY <1>1, <2>1 DEF ReviewFormFits, FormKnows, FormShowsSent
    <2> QED BY <2>2, <2>3, <2>4 DEF ReviewFormFits
  <1>7. OfOneProduct'
    <2> SUFFICES ASSUME ~shuffled, ~wrongPage PROVE OfOneProduct'
      BY <1>1 DEF OfOneProduct
    <2>1. r.of = slug
      BY DEF OfOneProduct
    <2>2. \A s \in asked' : s.of = slug' /\ (s.kind = "reviews" => s.got = Unread \/ Reads(s.got)')
      BY <1>1, <1>3, <2>1 DEF OfOneProduct, Reads, Own
    <2>3. AsksForReviews' \/ (listOf' = slug' /\ Reads(mine)')
      <3>1. CASE productShown = slug
        BY <1>1, <2>1, <3>1 DEF OfOneProduct, AsksForReviews, Reads, Own
      <3>2. CASE productShown # slug
        BY <1>1, <1>3, <2>1, <3>2 DEF AsksForReviews
      <3> QED BY <3>1, <3>2
    <2> QED BY <1>1, <2>1, <2>2, <2>3 DEF OfOneProduct, Reads
  <1> QED BY <1>1, <1>4, <1>5, <1>6, <1>7, KeptReviews DEF GoesOn

LEMMA ReviewsAreRead ==
  ASSUME ProductPagesInv, NEW r \in asked, ReadReviews(r)
  PROVE  GoesOn
  <1> USE DEF ProductPagesInv
  <1>0. r \in Requests0 /\ r.of \in Things
    BY DEF ProductPagesTypeOK, Requests0
  <1>1. PICK found \in FirstOfName(r.of) : asked' = (asked \ {r}) \cup {[r EXCEPT !.got = found]}
    BY DEF ReadReviews
  <1> DEFINE s == [r EXCEPT !.got = found]
  <1>2. s \in Requests0 /\ s.kind = r.kind /\ s.of = r.of /\ s.got = found
    BY <1>0, <1>1, OwnFits, ReadFits
  <1>8. asked' = (asked \ {r}) \cup {s}
    BY <1>1
  <1> HIDE DEF s
  <1>9. r.of \notin Namesakes => s.got = Own(r.of)
    BY <1>0, <1>1, <1>2, OwnFits
  <1>3. /\ r.kind = "reviews" /\ asked' = (asked \ {r}) \cup {s}
        /\ UNCHANGED <<slug, productShown, wrongPage, myReview, listOf, mine, mayReview, field, sending, erased,
                       emptied, tangled, looks, shuffled>>
    BY <1>8 DEF ReadReviews, reviewVars
  <1>4. ProductPagesTypeOK'
    BY <1>2, <1>3 DEF ProductPagesTypeOK, Requests0
  <1>5. NothingIsAskedBehind' /\ SendingFits' /\ SendsItsText'
    BY <1>3 DEF NothingIsAskedBehind, SendingFits, SendsItsText
  <1>6. ReviewFormFits'
    <2>1. NeverTogether'
      BY <1>2, <1>3 DEF ReviewFormFits, NeverTogether
    <2>2. ListsAreCurrent'
      <3> SUFFICES ASSUME NEW t \in asked', t.kind = "reviews", t.got # Unread, Plain(t.of) PROVE t.got = Own(t.of)
        BY <1>3 DEF ListsAreCurrent, Plain, Own
      <3> QED BY <1>2, <1>3, <1>9 DEF ReviewFormFits, ListsAreCurrent, Plain
    <2>3. FormKnows' /\ FormShowsSent'
      BY <1>3 DEF ReviewFormFits, FormKnows, FormShowsSent, Plain
    <2> QED BY <2>1, <2>2, <2>3 DEF ReviewFormFits
  <1>7. OfOneProduct'
    <2> SUFFICES ASSUME ~shuffled, ~wrongPage PROVE OfOneProduct'
      BY <1>3 DEF OfOneProduct
    <2>1. s.of = slug /\ Reads(s.got)
      BY <1>2, <1>9 DEF OfOneProduct, Reads
    <2>2. \A u \in asked' : u.of = slug' /\ (u.kind = "reviews" => u.got = Unread \/ Reads(u.got)')
      BY <1>3, <2>1 DEF OfOneProduct, Reads, Own
    <2>3. AsksForReviews'
      BY <1>2, <1>3 DEF AsksForReviews
    <2>4. productShown' = slug' \/ AskFor("product", slug)' \in asked'
      <3>1. CASE productShown = slug
        BY <1>3, <3>1
      <3>2. CASE AskFor("product", slug) \in asked
        <4>1. AskFor("product", slug).kind = "product"
          BY AskForFits DEF ProductPagesTypeOK
        <4> QED BY <1>3, <3>2, <4>1
      <3> QED BY <3>1, <3>2 DEF OfOneProduct
    <2> QED BY <1>3, <2>2, <2>3, <2>4 DEF OfOneProduct
  <1> QED BY <1>3, <1>4, <1>5, <1>6, <1>7, KeptReviews DEF GoesOn

LEMMA ReviewsCome ==
  ASSUME ProductPagesInv, NEW r \in asked, ReviewsAnswered(r)
  PROVE  GoesOn
  <1> USE DEF ProductPagesInv
  <1> DEFINE fills == Fills(mine, listOf, r.got, r.of)
  <1>1. /\ r.kind = "reviews" /\ r.got # Unread /\ listOf' = r.of /\ mine' = r.got /\ asked' = asked \ {r}
        /\ field' = (IF fills THEN r.got.text ELSE field)
        /\ (erased' <=> erased /\ ~fills) /\ (emptied' <=> emptied /\ ~fills) /\ {erased', emptied'} \subseteq BOOLEAN
        /\ UNCHANGED <<slug, productShown, wrongPage, myReview, mayReview, sending, tangled, looks, shuffled>>
    BY DEF ReviewsAnswered, Filled
  <1>2. r \in Requests0 /\ r.of \in Things /\ r.got \in Found /\ r.got.text \in Texts /\ r.of # NoThing
    BY <1>1, ProductPagesAssumption DEF ProductPagesTypeOK, Requests0, Found
  <1>3. fills <=> r.got.by # "nobody" /\ (mine.by # r.got.by \/ listOf # r.of)
    BY DEF Fills
  <1> HIDE DEF fills
  <1>4. ProductPagesTypeOK'
    BY <1>1, <1>2 DEF ProductPagesTypeOK, Requests0
  <1>5. NothingIsAskedBehind' /\ SendingFits' /\ SendsItsText'
    BY <1>1 DEF NothingIsAskedBehind, SendingFits, SendsItsText
  <1>6. ReviewFormFits'
    <2>1. NeverTogether' /\ ListsAreCurrent'
      BY <1>1 DEF ReviewFormFits, NeverTogether, ListsAreCurrent, Plain, Own
    <2>2. FormKnows'
      <3> SUFFICES ASSUME Plain(r.of), ~erased', ~emptied', field' # "text" PROVE myReview[r.of] # "text"
        BY <1>1 DEF FormKnows, Plain
      <3>1. r.got = Own(r.of) /\ (r.got.by = "nobody" => myReview[r.of] = "none")
            /\ (r.got.by = "me" => r.got.text = myReview[r.of]) /\ r.got.by \in {"nobody", "me"}
        BY <1>1, <1>2, OwnFits DEF ReviewFormFits, ListsAreCurrent
      <3>2. CASE fills
        BY <1>1, <1>3, <3>1, <3>2
      <3>3. CASE ~fills /\ r.got.by = "nobody"
        BY <3>1, <3>3
      <3>4. CASE ~fills /\ r.got.by # "nobody"
        <4>1. listOf = r.of /\ ~erased /\ ~emptied /\ field # "text"
          BY <1>1, <1>3, <3>4
        <4> QED BY <4>1 DEF ReviewFormFits, FormKnows
      <3> QED BY <3>2, <3>3, <3>4
    <2>3. FormShowsSent'
      BY <1>1 DEF ReviewFormFits, NeverTogether, FormShowsSent, Plain
    <2> QED BY <2>1, <2>2, <2>3 DEF ReviewFormFits
  <1>7. OfOneProduct'
    <2> SUFFICES ASSUME ~shuffled, ~wrongPage PROVE OfOneProduct'
      BY <1>1 DEF OfOneProduct
    <2>1. r.of = slug /\ Reads(r.got)
      BY <1>1 DEF OfOneProduct
    <2>2. \A u \in asked' : u.of = slug' /\ (u.kind = "reviews" => u.got = Unread \/ Reads(u.got)')
      BY <1>1 DEF OfOneProduct, Reads, Own
    <2>3. productShown' = slug' \/ AskFor("product", slug)' \in asked'
      <3>1. AskFor("product", slug).kind = "product"
        BY AskForFits DEF ProductPagesTypeOK
      <3> QED BY <1>1, <3>1 DEF OfOneProduct
    <2> QED BY <1>1, <2>1, <2>2, <2>3 DEF OfOneProduct, Reads, Own
  <1> QED BY <1>1, <1>4, <1>5, <1>6, <1>7, KeptReviews DEF GoesOn

LEMMA TheRightToReviewComes ==
  ASSUME ProductPagesInv, NEW r \in asked, CanReviewAnswered(r)
  PROVE  GoesOn
  <1> USE DEF ProductPagesInv
  <1>1. /\ r.kind = "canReview" /\ mayReview' = TRUE /\ asked' = asked \ {r}
        /\ UNCHANGED <<slug, productShown, wrongPage, myReview, listOf, mine, field, sending, erased,
                       emptied, tangled, looks, shuffled>>
    BY DEF CanReviewAnswered
  <1>2. ProductPagesTypeOK'
    BY <1>1 DEF ProductPagesTypeOK
  <1>3. NothingIsAskedBehind' /\ SendingFits' /\ SendsItsText' /\ ReviewFormFits'
    BY <1>1, FormStays DEF NothingIsAskedBehind, SendingFits, SendsItsText
  <1>4. OfOneProduct'
    <2>1. AskFor("product", slug).kind = "product"
      BY AskForFits DEF ProductPagesTypeOK
    <2> QED BY <1>1, <2>1 DEF OfOneProduct, Reads, AsksForReviews, Own
  <1> QED BY <1>1, <1>2, <1>3, <1>4, KeptReviews DEF GoesOn

LEMMA ARequestFails ==
  ASSUME ProductPagesInv, NEW r \in asked, RequestFails(r)
  PROVE  GoesOn
  <1> USE DEF ProductPagesInv
  <1>1. /\ (wrongPage' <=> r.kind = "product") /\ wrongPage' \in BOOLEAN
        /\ (wrongPage' => asked' = {}) /\ asked' \subseteq asked
        /\ (mayReview' <=> mayReview /\ r.kind # "canReview") /\ mayReview' \in BOOLEAN
        /\ (listOf' = NoThing /\ mine' = NoReview) \/ UNCHANGED <<listOf, mine>>
        /\ shuffled' = TRUE /\ UNCHANGED <<slug, productShown, myReview, field, sending, erased, emptied, tangled, looks>>
    BY DEF RequestFails
  <1>2. ProductPagesTypeOK'
    BY <1>1 DEF ProductPagesTypeOK, Found, NoReview, Texts
  <1>3. NothingIsAskedBehind' /\ SendingFits' /\ SendsItsText' /\ OfOneProduct'
    BY <1>1 DEF NothingIsAskedBehind, SendingFits, SendsItsText, OfOneProduct
  <1>4. ReviewFormFits'
    <2>1. CASE UNCHANGED listOf
      BY <1>1, <2>1, FormStays
    <2>2. CASE listOf' = NoThing
      BY <1>1, <2>2, ProductPagesAssumption
         DEF ReviewFormFits, NeverTogether, ListsAreCurrent, FormKnows, FormShowsSent, Plain, Own
    <2> QED BY <1>1, <2>1, <2>2
  <1> QED BY <1>1, <1>2, <1>3, <1>4, KeptReviews DEF GoesOn

LEMMA TheCartRefuses == ASSUME ProductPagesInv, AddToCartFails PROVE GoesOn
  <1> USE DEF ProductPagesInv
  <1>1. /\ wrongPage' = TRUE /\ asked' = {}
        /\ UNCHANGED <<slug, productShown, myReview, listOf, mine, mayReview, field, sending, erased, emptied, tangled, looks,
                       shuffled>>
    BY DEF AddToCartFails, reviewVars
  <1>2. ProductPagesTypeOK'
    BY <1>1 DEF ProductPagesTypeOK
  <1>3. NothingIsAskedBehind' /\ SendingFits' /\ SendsItsText' /\ OfOneProduct' /\ ReviewFormFits'
    BY <1>1, FormStays DEF NothingIsAskedBehind, SendingFits, SendsItsText, OfOneProduct
  <1> QED BY <1>1, <1>2, <1>3, KeptReviews DEF GoesOn

-----------------------------------------------------------------------------
(* The form.                                                                 *)

LEMMA TheShopperTypes == ASSUME ProductPagesInv, TypeReview PROVE GoesOn
  <1> USE DEF ProductPagesInv
  <1>1. /\ field' \in {"blank", "text"} /\ (erased' <=> field' = "blank") /\ erased' \in BOOLEAN /\ emptied' = FALSE
        /\ UNCHANGED <<slug, productShown, wrongPage, asked, myReview, listOf, mine, mayReview, sending, tangled,
                       looks, shuffled>>
    BY DEF TypeReview, shopVars, ProductPagesTypeOK
  <1>2. ProductPagesTypeOK'
    BY <1>1 DEF ProductPagesTypeOK, Texts
  <1>3. NothingIsAskedBehind' /\ SendingFits' /\ SendsItsText'
    BY <1>1 DEF NothingIsAskedBehind, SendingFits, SendsItsText
  <1>5. ReviewFormFits'
    BY <1>1 DEF ReviewFormFits, NeverTogether, ListsAreCurrent, FormKnows, FormShowsSent, Plain, Own
  <1>4. OfOneProduct'
    BY <1>1 DEF OfOneProduct, Reads, AsksForReviews, Own
  <1> QED BY <1>1, <1>2, <1>3, <1>4, <1>5, KeptReviews DEF GoesOn

SentRecords ==
  [at : {"no", "sent", "ok", "failed"}, of : Things \cup {NoThing}, text : Texts, meant : BOOLEAN, lapse : BOOLEAN]

LEMMA AReviewIsSent == ASSUME ProductPagesInv, SubmitReview PROVE GoesOn
  <1> USE DEF ProductPagesInv
  <1>1. {Meant, Lapse} \subseteq BOOLEAN
        /\ (Meant <=> erased \/ listOf # productShown \/ productShown \in tangled)
        /\ (Lapse <=> emptied \/ productShown \in Namesakes)
    BY DEF Meant, Lapse, ProductPagesTypeOK
  <1>2. field \in Texts /\ productShown \in Things /\ sending = NotSending /\ ~wrongPage
    BY DEF SubmitReview, FormOpen, ProductPagesTypeOK
  <1> DEFINE s == [at |-> "sent", of |-> productShown, text |-> field, meant |-> Meant, lapse |-> Lapse]
  <1>3. s \in SentRecords /\ s.at = "sent" /\ s.of = productShown /\ s.text = field /\ s.meant = Meant
        /\ s.lapse = Lapse
    BY <1>1, <1>2 DEF SentRecords
  <1> HIDE DEF s
  <1>4. /\ looks < MaxLooks /\ sending' = s /\ looks' = looks + 1
        /\ tangled' = tangled \cup {r.of : r \in ListsOf(productShown)}
        /\ UNCHANGED <<slug, productShown, wrongPage, asked, myReview, listOf, mine, mayReview, field, erased, emptied,
                       shuffled>>
    BY DEF SubmitReview, shopVars, s
  <1>9. \A r \in ListsOf(productShown) : r.of = productShown
    BY DEF ListsOf
  <1>5. ProductPagesTypeOK'
    BY <1>2, <1>3, <1>4, <1>9, ProductPagesAssumption DEF ProductPagesTypeOK, SentRecords
  <1>6. NothingIsAskedBehind' /\ SendingFits'
    BY <1>2, <1>3, <1>4 DEF NothingIsAskedBehind, SendingFits
  <1>10. ReviewFormFits'
    <2>1. \A p : Plain(p)' => Plain(p)
      BY <1>4 DEF Plain
    <2>2. NeverTogether'
      BY <1>3, <1>4 DEF NeverTogether, ListsOf
    <2>3. ListsAreCurrent' /\ FormKnows'
      BY <1>4, <2>1 DEF ReviewFormFits, ListsAreCurrent, FormKnows, Own
    <2>4. FormShowsSent'
      BY <1>3, <1>4 DEF FormShowsSent
    <2> QED BY <2>2, <2>3, <2>4 DEF ReviewFormFits
  <1>7. SendsItsText'
    <2> SUFFICES ASSUME ~Meant, ~Lapse, field # "text" PROVE myReview[productShown] # "text"
      BY <1>3, <1>4 DEF SendsItsText
    <2>1. ~emptied /\ ~erased /\ listOf = productShown /\ Plain(productShown)
      BY <1>1, <1>2 DEF Plain
    <2> QED BY <2>1 DEF ReviewFormFits, FormKnows
  <1>8. OfOneProduct'
    <2>1. \A text : Reads(text) => Reads(text)'
      <3>1. sending.of # slug
        BY <1>2, ProductPagesAssumption DEF NotSending, ProductPagesTypeOK
      <3> QED BY <1>4, <3>1 DEF Reads, Own
    <2> QED BY <1>4, <2>1 DEF OfOneProduct, AsksForReviews
  <1> QED BY <1>4, <1>5, <1>6, <1>7, <1>8, <1>10, KeptReviews DEF GoesOn

LEMMA AReviewIsServed == ASSUME ProductPagesInv, ServeReview PROVE GoesOn
  <1> USE DEF ProductPagesInv
  <1>1. sending \in SentRecords /\ sending.at = "sent" /\ sending.of \in Things
    BY DEF ServeReview, ProductPagesTypeOK, SentRecords, SendingFits
  <1>2. /\ UNCHANGED <<slug, productShown, wrongPage, asked, listOf, mine, mayReview, field, erased, emptied, tangled, looks,
                       shuffled>>
        /\ \E answer \in {"ok", "failed"} : sending' = [sending EXCEPT !.at = answer]
        /\ UNCHANGED myReview \/ myReview' = [myReview EXCEPT ![sending.of] = sending.text]
    BY DEF ServeReview, shopVars
  <1>3. /\ sending' \in SentRecords /\ sending'.at \in {"ok", "failed"} /\ sending'.of = sending.of
        /\ sending'.text = sending.text
    BY <1>1, <1>2 DEF SentRecords
  <1>4. /\ myReview' \in [Things -> Texts \cup {"none"}]
        /\ \A p \in Things : p # sending.of => myReview'[p] = myReview[p]
        /\ myReview'[sending.of] \in {myReview[sending.of], sending.text}
    BY <1>1, <1>2 DEF ProductPagesTypeOK, SentRecords, Texts
  <1>5. ProductPagesTypeOK'
    BY <1>2, <1>3, <1>4 DEF ProductPagesTypeOK, SentRecords
  <1>6. NothingIsAskedBehind' /\ SendingFits' /\ SendsItsText'
    BY <1>1, <1>2, <1>3 DEF NothingIsAskedBehind, SendingFits, SendsItsText
  <1>9. ReviewFormFits'
    <2>1. NeverTogether'
      BY <1>1, <1>2, <1>3 DEF ReviewFormFits, NeverTogether
    <2>2. ListsAreCurrent'
      <3> SUFFICES ASSUME NEW r \in asked, r.kind = "reviews", r.got # Unread, Plain(r.of) PROVE r.got = Own(r.of)'
        BY <1>2 DEF ListsAreCurrent, Plain
      <3>1. r.of # sending.of
        BY <1>1 DEF ReviewFormFits, NeverTogether, Plain
      <3> QED BY <1>4, <3>1 DEF ReviewFormFits, ListsAreCurrent, Plain, Own
    <2>3. FormKnows'
      BY <1>1, <1>2, <1>4 DEF ReviewFormFits, FormKnows, FormShowsSent, Plain
    <2>4. FormShowsSent'
      BY <1>1, <1>2, <1>3 DEF ReviewFormFits, FormShowsSent, Plain, SentRecords
    <2> QED BY <2>1, <2>2, <2>3, <2>4 DEF ReviewFormFits
  <1>7. OfOneProduct'
    <2>1. \A text : Reads(text) => Reads(text)'
      BY <1>2, <1>3, <1>4 DEF Reads, Own, ProductPagesTypeOK
    <2> QED BY <1>2, <2>1 DEF OfOneProduct, AsksForReviews
  <1>8. Keeps
    BY <1>1, <1>4 DEF Keeps, SendsItsText, SentRecords
  <1> QED BY <1>5, <1>6, <1>7, <1>8, <1>9 DEF GoesOn

LEMMA AReviewIsAnswered == ASSUME ProductPagesInv, ReviewAnswered PROVE GoesOn
  <1> USE DEF ProductPagesInv
  <1> DEFINE again == {AskFor("reviews", sending.of), AskFor("product", slug)}
  <1>1. /\ sending.at \in {"ok", "failed"} /\ sending' = NotSending
        /\ UNCHANGED <<slug, productShown, wrongPage, myReview, listOf, mine, mayReview, tangled, looks>>
        /\ \/ /\ field' = "blank" /\ erased' = FALSE /\ emptied' = TRUE /\ asked' = (IF wrongPage THEN {} ELSE asked \cup again)
              /\ (shuffled' <=> shuffled \/ asked # {} \/ slug # sending.of) /\ shuffled' \in BOOLEAN
           \/ shuffled' = TRUE /\ UNCHANGED <<field, erased, emptied, asked>>
    BY DEF ReviewAnswered
  <1>2. sending.of \in Things /\ slug \in Things
    BY <1>1 DEF SendingFits, ProductPagesTypeOK
  <1>3. /\ again \subseteq Requests0
        /\ \A r \in again : r.of \in {slug, sending.of} /\ r.got = Unread
        /\ \E r \in again : r.kind = "reviews"
    BY <1>2, AskForFits
  <1> HIDE DEF again
  <1>4. NotSending \in SentRecords /\ NotSending.at = "no"
    BY DEF SentRecords, NotSending, Texts
  <1>5. ProductPagesTypeOK'
    BY <1>1, <1>3, <1>4 DEF ProductPagesTypeOK, SentRecords, Requests0, Texts
  <1>6. NothingIsAskedBehind'
    BY <1>1 DEF NothingIsAskedBehind
  <1>7. SendingFits' /\ SendsItsText'
    BY <1>1, <1>2, <1>4 DEF SendingFits, SendsItsText
  <1>9. ReviewFormFits'
    BY <1>1, <1>3, <1>4 DEF ReviewFormFits, NeverTogether, ListsAreCurrent, FormKnows, FormShowsSent, Plain, Own
  <1>8. OfOneProduct'
    <2> SUFFICES ASSUME ~shuffled', ~wrongPage PROVE OfOneProduct'
      BY <1>1 DEF OfOneProduct
    <2>1. ~shuffled /\ asked = {} /\ slug = sending.of /\ asked' = again
      BY <1>1
    <2>2. productShown = slug
      BY <2>1 DEF OfOneProduct
    <2> QED BY <1>1, <1>3, <2>1, <2>2 DEF OfOneProduct, AsksForReviews
  <1> QED BY <1>1, <1>5, <1>6, <1>7, <1>8, <1>9, KeptReviews DEF GoesOn

-----------------------------------------------------------------------------
LEMMA StepProductPages ==
  ProductPagesInv /\ [ProductPagesNext]_productPageVars => ProductPagesInv' /\ [Keeps]_productPageVars
  <1> SUFFICES ASSUME ProductPagesInv, [ProductPagesNext]_productPageVars
               PROVE  ProductPagesInv' /\ [Keeps]_productPageVars
    OBVIOUS
  <1>1. CASE UNCHANGED productPageVars
    <2>1. ProductPagesInv'
      BY <1>1 DEF productPageVars, shopVars, reviewVars, ProductPagesInv, ProductPagesTypeOK, NothingIsAskedBehind,
                  SendingFits, OfOneProduct, Reads, Own, AsksForReviews, ReviewFormFits, NeverTogether, ListsAreCurrent,
                  FormKnows, FormShowsSent, Plain, SendsItsText
    <2> QED BY <1>1, <2>1
  <1>2. CASE ProductPagesNext
    BY <1>2, LooksAtAnother, ProductComes, ReviewsAreRead, ReviewsCome, TheRightToReviewComes, ARequestFails,
       TheCartRefuses, TheShopperTypes, AReviewIsSent, AReviewIsServed, AReviewIsAnswered
       DEF ProductPagesNext, GoesOn
  <1> QED BY <1>1, <1>2

\* At rest the page is of the product of its address, and so are its reviews and the shopper's own
\* where no namesake wrote one, unless answers crossed or were lost; and a review sent again, say for
\* another rating, keeps its text but for a change by hand, a form that its list had not reached, one
\* that the answer to another review emptied, or one filled from a namesake's.
THEOREM TheProductPageIsOfOneProduct ==
  ProductPagesSpec => []ProductPagesTypeOK /\ []PageIsOfOneProduct /\ KeepsItsText
  <1>1. ProductPagesInv => PageIsOfOneProduct
    <2> SUFFICES ASSUME ProductPagesInv, asked = {}, sending = NotSending, ~shuffled, ~wrongPage
                 PROVE  productShown = slug /\ listOf = slug /\ (slug \notin Namesakes => mine = Own(slug))
      BY DEF PageIsOfOneProduct
    <2>1. sending.of # slug
      BY ProductPagesAssumption DEF NotSending, ProductPagesInv, ProductPagesTypeOK
    <2> QED BY <2>1 DEF ProductPagesInv, OfOneProduct, AsksForReviews, Reads
  <1>2. ProductPagesInv => ProductPagesTypeOK
    BY DEF ProductPagesInv
  <1> QED BY <1>1, <1>2, InitProductPages, StepProductPages, PTL DEF ProductPagesSpec, KeepsItsText, Keeps

-----------------------------------------------------------------------------
(* The pages of orders: for every number of polls and of requests.           *)

\* One answer is awaited at a time: the first, a poll's, or that of the cancellation.
OneAwaited ==
  /\ load # "none" => firstLoad /\ seen = "none" /\ cancel = "none"
  /\ timer \/ poll # "none" => ordersPage = "confirmation" /\ seen = "PENDING" /\ polls < MaxPolls
  /\ timer => poll = "none"
  /\ cancel # "none" => ordersPage = "details" /\ CanCancel(seen)
  /\ cancel \in {"none", "sent", "CANCELLED", "error"}

\* Until requests cross there is one, for the filter, or the rows are the filter's.
ListFits ==
  ordersPage = "list" /\ ~crossed =>
    \/ Listing = {} /\ ~listing /\ listed = filter
    \/ \E l \in Lists : Listing = {l} /\ listCall[l].for = filter

OrderPagesInv ==
  OrderPagesTypeOK /\ OneAwaited /\ ListFits /\ ConfirmingMeansPolling

ListRecords == [at : {"idle", "sent", "error"}, for : StatusFilters]

\* From what is shown as pending any status goes forward, and so does a cancellation from
\* what can be cancelled.
LEMMA ForwardFrom ==
  /\ \A s \in Statuses : Behind(s, s) /\ Behind("PENDING", s)
  /\ \A s \in Statuses : CanCancel(s) => Behind(s, "CANCELLED")
  BY DEF Behind

LEMMA InitOrderPages == OrderPagesInit => OrderPagesInv
  <1> SUFFICES ASSUME OrderPagesInit PROVE OrderPagesInv
    OBVIOUS
  <1>1. PICK l \in Lists :
          listCall = [m \in Lists |-> [at |-> IF m = l /\ listing THEN "sent" ELSE "idle", for |-> ""]]
    BY DEF OrderPagesInit
  <1>2. /\ ordersPage \in {"confirmation", "list", "details"} /\ status \in Statuses
        /\ seen = "none" /\ load \in {"none", "sent"} /\ (ordersPage = "list" \/ firstLoad = TRUE)
        /\ timer = FALSE /\ poll = "none" /\ polls = 0 /\ cancel = "none"
        /\ filter = "" /\ listed = "nothing" /\ crossed = FALSE
        /\ ordersPage = "list" => listing /\ load = "none"
    BY DEF OrderPagesInit
  <1>3. firstLoad \in BOOLEAN /\ listing \in BOOLEAN
    BY DEF OrderPagesInit
  <1>4. /\ listCall \in [Lists -> ListRecords]
        /\ listing => Listing = {l} /\ listCall[l].for = ""
    BY <1>1 DEF ListRecords, StatusFilters, Listing
  <1>5. OrderPagesTypeOK
    <2>1. polls \in 0..MaxPolls
      <3>1. polls = 0
        BY <1>2
      <3> QED BY <3>1, OrderPagesAssumption
    <2>2. {load, poll, cancel} \subseteq Read
      BY <1>2 DEF Read
    <2> QED BY <1>2, <1>3, <1>4, <2>1, <2>2 DEF OrderPagesTypeOK, ListRecords, Statuses, StatusFilters
  <1>6. OneAwaited /\ ConfirmingMeansPolling
    BY <1>2 DEF OneAwaited, ConfirmingMeansPolling, Statuses
  <1>7. ListFits
    BY <1>2, <1>4 DEF ListFits
  <1> QED BY <1>5, <1>6, <1>7 DEF OrderPagesInv

\* A step of one order, and of no list.
LEMMA ListUntouched ==
  ASSUME OrderPagesInv, UNCHANGED <<ordersPage, listVars>>
  PROVE  /\ ListFits'
         /\ filter' \in StatusFilters /\ listed' \in StatusFilters \cup {"nothing"}
         /\ {listing', crossed'} \subseteq BOOLEAN /\ listCall' \in [Lists -> ListRecords]
         /\ ordersPage' \in {"confirmation", "list", "details"}
  BY DEF OrderPagesInv, OrderPagesTypeOK, ListFits, Listing, listVars, ListRecords

LEMMA OrderMovesOn ==
  ASSUME OrderPagesInv, OrderMoves
  PROVE  OrderPagesInv' /\ seen' = seen
  <1> USE DEF OrderPagesInv
  <1>1. /\ status \in Statuses /\ status' \in Statuses
        /\ seen \in Statuses \cup {"none"} /\ {load, poll, cancel} \subseteq Read
    BY DEF OrderMoves, OrderPagesTypeOK
  <1>2. /\ UNCHANGED <<ordersPage, listVars>>
        /\ UNCHANGED <<seen, firstLoad, load, timer, poll, polls, cancel>>
    BY DEF OrderMoves, oneVars
  <1>3. OrderPagesTypeOK'
    BY <1>1, <1>2, ListUntouched DEF OrderPagesTypeOK, ListRecords
  <1>4. OneAwaited' /\ ConfirmingMeansPolling'
    BY <1>2 DEF OneAwaited, ConfirmingMeansPolling
  <1> QED BY <1>2, <1>3, <1>4, ListUntouched

\* The server answers with the order as it is.
LEMMA OrderIsRead ==
  ASSUME OrderPagesInv, Serve1
  PROVE  OrderPagesInv' /\ seen' = seen
  <1> USE DEF OrderPagesInv
  <1>1. /\ UNCHANGED <<ordersPage, listVars>>
        /\ UNCHANGED <<status, seen, firstLoad, timer, polls, cancel>>
    BY DEF Serve1
  <1>2. /\ load' = load \/ (load = "sent" /\ load' \in {status, "error"})
        /\ poll' = poll \/ (poll = "sent" /\ poll' \in {status, "error"})
        /\ status \in Statuses /\ "error" \notin Statuses /\ "none" \notin Statuses
    BY DEF Serve1, OrderPagesTypeOK, Statuses
  <1>3. {load', poll', cancel'} \subseteq Read
    BY <1>1, <1>2 DEF OrderPagesTypeOK, Read
  <1>4. OrderPagesTypeOK'
    BY <1>1, <1>3, ListUntouched DEF OrderPagesTypeOK, ListRecords
  <1>5. OneAwaited' /\ ConfirmingMeansPolling'
    BY <1>1, <1>2 DEF OneAwaited, ConfirmingMeansPolling
  <1> QED BY <1>1, <1>4, <1>5, ListUntouched

\* An answer is shown, and is no older than what was.
LEMMA OrderIsShown ==
  ASSUME OrderPagesInv, FirstAnswered \/ PollAnswered \/ CancelAnswered
  PROVE  OrderPagesInv' /\ (seen # "none" => Behind(seen, seen'))
  <1> USE DEF OrderPagesInv
  <1>1. /\ status \in Statuses /\ seen \in Statuses \cup {"none"} /\ {load, poll, cancel} \subseteq Read
        /\ {"error", "none", "sent"} \cap Statuses = {} /\ "none" \in Read
        /\ {firstLoad, timer} \subseteq BOOLEAN /\ polls \in 0..MaxPolls /\ "CANCELLED" \in Statuses
    BY DEF OrderPagesTypeOK, Read, Statuses
  <1>2. ASSUME FirstAnswered PROVE OrderPagesInv' /\ (seen # "none" => Behind(seen, seen'))
    <2>1. /\ load \in Statuses \cup {"error"} /\ seen' = ShownAfter(load) /\ load' = "none" /\ firstLoad' = FALSE
          /\ UNCHANGED <<ordersPage, listVars>> /\ UNCHANGED <<status, poll, polls, cancel>>
          /\ timer' = Polls(seen', polls)
      BY <1>2 DEF FirstAnswered
    <2>2. seen = "none" /\ cancel = "none" /\ poll = "none" /\ ~timer
      BY <1>1, <2>1 DEF OneAwaited
    <2>3. seen' = IF load = "error" THEN "none" ELSE load
      BY <2>1, <2>2 DEF ShownAfter
    <2>4. timer' \in BOOLEAN /\ (timer' <=> ordersPage = "confirmation" /\ seen' = "PENDING" /\ polls < MaxPolls)
      BY <2>1 DEF Polls
    <2>5. OrderPagesTypeOK'
      BY <1>1, <2>1, <2>3, <2>4, ListUntouched DEF OrderPagesTypeOK, ListRecords
    <2>6. OneAwaited' /\ ConfirmingMeansPolling'
      BY <2>1, <2>2, <2>4 DEF OneAwaited, ConfirmingMeansPolling
    <2> QED BY <2>1, <2>2, <2>5, <2>6, ListUntouched
  <1>3. ASSUME PollAnswered PROVE OrderPagesInv' /\ (seen # "none" => Behind(seen, seen'))
    <2>1. /\ poll \in Statuses \cup {"error"} /\ seen' = ShownAfter(poll) /\ poll' = "none" /\ polls' = polls + 1
          /\ UNCHANGED <<ordersPage, listVars>> /\ UNCHANGED <<status, load, firstLoad, cancel>>
          /\ timer' = Polls(seen', polls')
      BY <1>3 DEF PollAnswered
    <2>2. /\ ordersPage = "confirmation" /\ seen = "PENDING" /\ polls < MaxPolls /\ ~timer
          /\ load = "none" /\ cancel = "none"
      BY <1>1, <2>1 DEF OneAwaited
    <2>3. seen' = IF poll = "error" THEN "PENDING" ELSE poll
      BY <2>1, <2>2 DEF ShownAfter
    <2>4. timer' \in BOOLEAN /\ (timer' <=> ordersPage = "confirmation" /\ seen' = "PENDING" /\ polls' < MaxPolls)
      BY <2>1 DEF Polls
    <2>5. seen \in Statuses /\ seen' \in Statuses /\ polls' \in 0..MaxPolls
      BY <1>1, <2>1, <2>2, <2>3, OrderPagesAssumption
    <2>6. OrderPagesTypeOK'
      BY <1>1, <2>1, <2>4, <2>5, ListUntouched DEF OrderPagesTypeOK, ListRecords
    <2>7. OneAwaited' /\ ConfirmingMeansPolling'
      BY <2>1, <2>2, <2>4 DEF OneAwaited, ConfirmingMeansPolling
    <2>8. Behind(seen, seen')
      BY <2>2, <2>5, ForwardFrom
    <2> QED BY <2>1, <2>6, <2>7, <2>8, ListUntouched
  <1>4. ASSUME CancelAnswered PROVE OrderPagesInv' /\ (seen # "none" => Behind(seen, seen'))
    <2>1. /\ cancel \in {"CANCELLED", "error"} /\ seen' = ShownAfter(cancel) /\ cancel' = "none"
          /\ UNCHANGED <<ordersPage, listVars>> /\ UNCHANGED <<status, load, firstLoad, poll, polls, timer>>
      BY <1>4 DEF CancelAnswered
    <2>2. ordersPage = "details" /\ CanCancel(seen) /\ load = "none" /\ poll = "none" /\ ~timer
      BY <1>1, <2>1 DEF OneAwaited, CanCancel, Statuses
    <2>3. seen' = IF cancel = "error" THEN seen ELSE "CANCELLED"
      BY <2>1 DEF ShownAfter
    <2>4. seen \in Statuses /\ seen' \in Statuses /\ Behind(seen, seen')
      BY <1>1, <2>2, <2>3, ForwardFrom DEF CanCancel
    <2>5. OrderPagesTypeOK'
      BY <1>1, <2>1, <2>4, ListUntouched DEF OrderPagesTypeOK, ListRecords
    <2>6. OneAwaited' /\ ConfirmingMeansPolling'
      BY <2>1, <2>2 DEF OneAwaited, ConfirmingMeansPolling
    <2> QED BY <2>1, <2>4, <2>5, <2>6, ListUntouched
  <1> QED BY <1>2, <1>3, <1>4

LEMMA OrderIsAskedFor ==
  ASSUME OrderPagesInv, TimerFires \/ CancelOrder \/ ServeCancel
  PROVE  OrderPagesInv' /\ seen' = seen
  <1> USE DEF OrderPagesInv
  <1>1. /\ UNCHANGED <<ordersPage, listVars>> /\ UNCHANGED <<seen, firstLoad, load, polls>>
        /\ status \in Statuses /\ seen \in Statuses \cup {"none"} /\ {load, poll, cancel} \subseteq Read
        /\ {"error", "none", "sent"} \cap Statuses = {} /\ {"none", "sent", "error", "CANCELLED"} \subseteq Read
        /\ "CANCELLED" \in Statuses
    BY DEF TimerFires, CancelOrder, ServeCancel, OrderPagesTypeOK, Read, Statuses
  <1>2. ASSUME TimerFires PROVE OrderPagesInv'
    <2>1. timer /\ timer' = FALSE /\ poll' = "sent" /\ UNCHANGED <<status, cancel>>
      BY <1>2 DEF TimerFires
    <2>2. OrderPagesTypeOK'
      BY <1>1, <2>1, ListUntouched DEF OrderPagesTypeOK, ListRecords
    <2>3. OneAwaited' /\ ConfirmingMeansPolling'
      BY <1>1, <2>1 DEF OneAwaited, ConfirmingMeansPolling
    <2> QED BY <1>1, <2>2, <2>3, ListUntouched
  <1>3. ASSUME CancelOrder PROVE OrderPagesInv'
    <2>1. /\ ordersPage = "details" /\ CanCancel(seen) /\ cancel = "none" /\ cancel' = "sent"
          /\ UNCHANGED <<status, timer, poll>>
      BY <1>3 DEF CancelOrder
    <2>2. OrderPagesTypeOK'
      BY <1>1, <2>1, ListUntouched DEF OrderPagesTypeOK, ListRecords
    <2>3. load = "none"
      BY <1>1, <2>1 DEF OneAwaited, CanCancel
    <2>4. OneAwaited' /\ ConfirmingMeansPolling'
      BY <1>1, <2>1, <2>3 DEF OneAwaited, ConfirmingMeansPolling
    <2> QED BY <1>1, <2>2, <2>4, ListUntouched
  <1>4. ASSUME ServeCancel PROVE OrderPagesInv'
    <2>1. /\ cancel = "sent" /\ UNCHANGED <<timer, poll>>
          /\ \/ CanCancel(status) /\ status' = "CANCELLED" /\ cancel' \in {"CANCELLED", "error"}
             \/ cancel' = "error" /\ status' = status
      BY <1>4 DEF ServeCancel
    <2>2. ordersPage = "details" /\ CanCancel(seen) /\ load = "none" /\ poll = "none" /\ ~timer /\ seen \in Statuses
      BY <1>1, <2>1 DEF OneAwaited, CanCancel
    <2>3. OrderPagesTypeOK'
      BY <1>1, <2>1, ListUntouched DEF OrderPagesTypeOK, ListRecords
    <2>4. OneAwaited' /\ ConfirmingMeansPolling'
      BY <1>1, <2>1, <2>2 DEF OneAwaited, ConfirmingMeansPolling
    <2> QED BY <1>1, <2>3, <2>4, ListUntouched
  <1> QED BY <1>1, <1>2, <1>3, <1>4

\* The list is asked for again, or arrives.
LEMMA ListMoves ==
  ASSUME OrderPagesInv, NEW l \in Lists,
         (\E f \in StatusFilters : FilterOrders(l, f)) \/ \E ok \in BOOLEAN : ListAnswered(l, ok)
  PROVE  OrderPagesInv' /\ seen' = seen
  <1> USE DEF OrderPagesInv
  <1>1. /\ UNCHANGED <<ordersPage, status, seen, firstLoad, load, timer, poll, polls, cancel>>
        /\ listCall \in [Lists -> ListRecords]
        /\ filter \in StatusFilters /\ listed \in StatusFilters \cup {"nothing"} /\ {listing, crossed} \subseteq BOOLEAN
    BY DEF FilterOrders, ListAnswered, oneVars, OrderPagesTypeOK, ListRecords
  <1>2. OneAwaited' /\ ConfirmingMeansPolling'
    BY <1>1 DEF OneAwaited, ConfirmingMeansPolling
  <1>3. ASSUME NEW f \in StatusFilters, FilterOrders(l, f) PROVE OrderPagesInv'
    <2>1. /\ filter' = f /\ listing' = TRUE /\ listed' = listed /\ crossed' \in BOOLEAN
          /\ crossed' <=> Listing # {}
      BY <1>3 DEF FilterOrders
    <2>2. /\ listCall' \in [Lists -> ListRecords] /\ listCall'[l] = [at |-> "sent", for |-> f]
          /\ \A m \in Lists \ {l} : listCall'[m] = listCall[m]
      BY <1>1, <1>3 DEF FilterOrders, ListRecords
    <2>3. Listing' = Listing \cup {l}
      BY <2>2 DEF Listing
    <2>4. ListFits'
      BY <2>1, <2>2, <2>3 DEF ListFits
    <2>5. OrderPagesTypeOK'
      BY <1>1, <2>1, <2>2 DEF OrderPagesTypeOK, ListRecords
    <2> QED BY <1>2, <2>4, <2>5
  <1>4. ASSUME NEW ok \in BOOLEAN, ListAnswered(l, ok) PROVE OrderPagesInv'
    <2>1. /\ listCall[l].at = "sent" /\ listing' = FALSE /\ filter' = filter
          /\ listed' = IF ok THEN listCall[l].for ELSE listed
          /\ crossed' \in BOOLEAN /\ (crossed' <=> (crossed \/ ~ok))
      BY <1>4 DEF ListAnswered
    <2>2. PICK r \in ListRecords : listCall' = [listCall EXCEPT ![l] = r] /\ r.at = "idle"
      <3>1. listCall' = [listCall EXCEPT ![l].at = "idle"]
        BY <1>4 DEF ListAnswered
      <3>2. [listCall[l] EXCEPT !.at = "idle"] = [at |-> "idle", for |-> listCall[l].for]
        BY <1>1 DEF ListRecords
      <3>3. listCall' = [listCall EXCEPT ![l] = [at |-> "idle", for |-> listCall[l].for]]
        BY <1>1, <3>1, <3>2
      <3>4. [at |-> "idle", for |-> listCall[l].for] \in ListRecords
        BY <1>1 DEF ListRecords
      <3> QED BY <3>3, <3>4
    <2>3. /\ listCall' \in [Lists -> ListRecords] /\ listCall'[l].at = "idle"
          /\ \A m \in Lists \ {l} : listCall'[m] = listCall[m]
      BY <1>1, <2>2
    <2>4. Listing' = Listing \ {l} /\ l \in Listing
      BY <2>1, <2>3 DEF Listing
    <2>5. ListFits'
      <3> SUFFICES ASSUME ordersPage = "list", ~crossed' PROVE Listing' = {} /\ ~listing' /\ listed' = filter'
        BY <1>1 DEF ListFits
      <3>1. ~crossed /\ ok
        BY <2>1
      <3>2. Listing = {l} /\ listCall[l].for = filter
        BY <2>4, <3>1 DEF ListFits
      <3> QED BY <2>1, <2>4, <3>1, <3>2
    <2>6. OrderPagesTypeOK'
      <3>1. listed' \in StatusFilters \cup {"nothing"}
        BY <1>1, <2>1 DEF ListRecords
      <3> QED BY <1>1, <2>1, <2>3, <3>1 DEF OrderPagesTypeOK, ListRecords
    <2> QED BY <1>2, <2>5, <2>6
  <1> QED BY <1>1, <1>3, <1>4

LEMMA StepOrderPages ==
  OrderPagesInv /\ [OrderPagesNext]_orderPageVars
    => OrderPagesInv' /\ [seen # "none" => Behind(seen, seen')]_orderPageVars
  <1> SUFFICES ASSUME OrderPagesInv, [OrderPagesNext]_orderPageVars
               PROVE  OrderPagesInv' /\ [seen # "none" => Behind(seen, seen')]_orderPageVars
    OBVIOUS
  <1>1. CASE UNCHANGED orderPageVars
    <2>1. OrderPagesInv'
      BY <1>1 DEF orderPageVars, OrderPagesInv, OrderPagesTypeOK, OneAwaited, ListFits, Listing,
                  ConfirmingMeansPolling
    <2> QED BY <1>1, <2>1
  <1>2. CASE OrderPagesNext
    <2>1. OrderPagesInv' /\ (seen' = seen \/ (seen # "none" => Behind(seen, seen')))
      BY <1>2, OrderMovesOn, OrderIsRead, OrderIsShown, OrderIsAskedFor, ListMoves DEF OrderPagesNext
    <2>2. Behind(seen, seen)
      BY DEF Behind
    <2> QED BY <2>1, <2>2
  <1> QED BY <1>1, <1>2

\* Whatever is lost on the way, the confirmation says that it is confirming only while it asks, for as
\* often as it may; whatever staff do, no page shows an order going back; and the rows of the list are those of
\* its filter, unless requests crossed.
THEOREM TheOrdersShowTheirStatus == OrderPagesSpec => OrdersShowTheirStatus
  <1>1. OrderPagesInv => ConfirmingMeansPolling /\ ListFollowsTheFilter
    BY DEF OrderPagesInv, ListFits, ListFollowsTheFilter
  <1> QED BY <1>1, InitOrderPages, StepOrderPages, PTL
        DEF OrderPagesSpec, OrdersShowTheirStatus, ShownNeverGoesBack

-----------------------------------------------------------------------------
(***************************************************************************)
(* The search of the navigation bar marks a suggestion that shows, and at  *)
(* rest the suggestions are for what is typed.                             *)
(***************************************************************************)

\* Closed or not, the list marks none of its suggestions or one of them, so that
\* opening it again marks none that is not there.
MarkFits == Count(hints) > 0 => active \in -1..Count(hints) - 1

\* A timer runs for a term.  Unless something was overtaken or lost, one request is
\* under way at most, for what is typed, and no timer runs beside it.
AskedForTheTerm ==
  /\ tick => term # NoTerm
  /\ ~strayed /\ lookups # {} => ~tick /\ lookups = {term}

SearchBoxInv == SearchBoxTypeOK /\ MarkFits /\ AskedForTheTerm /\ HintsAreForTheTerm

LEMMA CountFits == ASSUME NEW t \in Typed PROVE Count(t) \in Nat
  BY SearchBoxAssumption DEF Count, Typed

LEMMA InitSearchBox == SearchBoxInit => SearchBoxInv
  <1> SUFFICES ASSUME SearchBoxInit PROVE SearchBoxInv
    OBVIOUS
  <1>1. Count(NoTerm) = 0 /\ NoTerm \in Typed
    BY DEF Count, Typed
  <1>2. SearchBoxTypeOK
    <2>1. lookedFor = [of |-> NoTerm, index |-> -1] /\ active = -1 /\ lookups = {}
      BY DEF SearchBoxInit
    <2>2. lookedFor \in [of : Typed, index : Nat \cup {-1}] /\ lookedFor.of = NoTerm /\ lookedFor.index = -1
      BY <1>1, <2>1
    <2>3. lookedFor.index < Count(lookedFor.of)
      BY <1>1, <2>2
    <2> QED BY <1>1, <2>1, <2>2, <2>3 DEF SearchBoxInit, SearchBoxTypeOK
  <1>3. MarkFits /\ AskedForTheTerm /\ HintsAreForTheTerm
    BY <1>1 DEF SearchBoxInit, MarkFits, AskedForTheTerm, HintsAreForTheTerm
  <1> QED BY <1>2, <1>3 DEF SearchBoxInv

LEMMA StepSearchBox == SearchBoxInv /\ [SearchBoxNext]_searchBoxVars => SearchBoxInv'
  <1> SUFFICES ASSUME SearchBoxInv, [SearchBoxNext]_searchBoxVars PROVE SearchBoxInv'
    OBVIOUS
  <1> USE DEF SearchBoxInv, SearchBoxTypeOK, MarkFits, AskedForTheTerm, HintsAreForTheTerm
  <1>0. Count(hints) \in Nat /\ Count(NoTerm) = 0 /\ active \in Int /\ NoTerm \in Typed /\ NoTerm \notin Terms
    BY CountFits, SearchBoxAssumption DEF Count, Typed
  <1>1. ASSUME NEW t \in Typed, TypeTerm(t) PROVE SearchBoxInv'
    <2>1. hints' = NoTerm \/ (hints' = hints /\ active' = active)
      BY <1>1 DEF TypeTerm, HintsAfter
    <2>2. /\ term' = t /\ tick' \in BOOLEAN /\ (tick' <=> t # NoTerm) /\ (t = NoTerm => hints' = NoTerm /\ active' = -1)
          /\ strayed' \in BOOLEAN /\ (strayed' <=> lookups # {}) /\ UNCHANGED <<lookups, hintsOpen, lookedFor>>
      BY <1>1 DEF TypeTerm, HintsAfter
    <2>3. active' \in Nat \cup {-1}
      BY <1>1 DEF TypeTerm
    <2>4. SearchBoxTypeOK' /\ AskedForTheTerm' /\ HintsAreForTheTerm'
      <3>1. hints' \in Typed
        BY <1>0, <2>1
      <3> QED BY <1>0, <2>2, <2>3, <3>1 DEF Typed
    <2>5. MarkFits'
      <3>1. CASE hints' = NoTerm
        BY <1>0, <3>1 DEF Count
      <3>2. CASE hints' = hints /\ active' = active
        BY <1>0, <3>2 DEF Count
      <3> QED BY <2>1, <3>1, <3>2
    <2> QED BY <2>4, <2>5
  <1>2. ASSUME NEW t \in Typed, Suggested(t) PROVE SearchBoxInv'
    <2>1. Count(t) \in Nat
      BY CountFits
    <2> QED BY <1>0, <1>2, <2>1 DEF Suggested, Typed
  <1>3. ASSUME NEW t \in Typed, SuggestFails(t) PROVE SearchBoxInv'
    BY <1>0, <1>3 DEF SuggestFails, Typed
  <1>4. CASE TimerRuns
    BY <1>0, <1>4 DEF TimerRuns, Typed
  <1>5. CASE PressEnter
    <2>1. PICK of \in Typed, index \in Int : Search(of, index) /\ index < Count(of) /\ index >= -1
      BY <1>0, <1>5, CountFits DEF PressEnter
    <2>2. index \in Nat \cup {-1}
      BY <2>1
    <2>3. /\ lookedFor' = [of |-> of, index |-> index] /\ hintsOpen' = FALSE /\ active' = -1
          /\ strayed' \in BOOLEAN /\ (strayed' <=> strayed \/ lookups # {}) /\ UNCHANGED <<term, tick, lookups, hints>>
      BY <2>1 DEF Search
    <2>4. lookedFor' \in [of : Typed, index : Nat \cup {-1}] /\ lookedFor'.index < Count(lookedFor'.of)
      BY <2>1, <2>2, <2>3
    <2>5. MarkFits'
      BY <1>0, <2>3 DEF Count
    <2> QED BY <1>0, <2>3, <2>4, <2>5 DEF Count
  <1>6. CASE Walk
    BY <1>0, <1>6 DEF Walk, Some, Up, Down
  <1>7. CASE CloseHints
    <2>1. MarkFits'
      BY <1>0, <1>7 DEF CloseHints, Count
    <2> QED BY <1>0, <1>7, <2>1 DEF CloseHints, Count
  <1>8. CASE FocusBox
    BY <1>0, <1>8 DEF FocusBox
  <1>9. CASE UNCHANGED searchBoxVars
    BY <1>9 DEF searchBoxVars
  <1> QED BY <1>1, <1>2, <1>3, <1>4, <1>5, <1>6, <1>7, <1>8, <1>9 DEF SearchBoxNext

\* The suggestion marked is one that shows, and at rest the suggestions are for what is typed.
THEOREM TheHintsAreCurrent == SearchBoxSpec => [](SearchBoxTypeOK /\ MarkedIsShown /\ HintsAreForTheTerm)
  <1>1. SearchBoxInv => SearchBoxTypeOK /\ MarkedIsShown /\ HintsAreForTheTerm
    BY DEF SearchBoxInv, MarkFits, MarkedIsShown, Some
  <1> QED BY <1>1, InitSearchBox, StepSearchBox, PTL DEF SearchBoxSpec
=============================================================================
