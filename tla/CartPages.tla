------------------------------ MODULE CartPages ------------------------------
(***************************************************************************)
(* The cart as the browser shows it: the context that keeps the last       *)
(* answer of the server, the sidebar and the cart page that edit it, the   *)
(* buttons that add a product, and the products recommended beside it.     *)
(* Every request answers with the whole cart, and the last answer wins.    *)
(***************************************************************************)
EXTENDS Integers, FiniteSets

CONSTANTS
  Goods, InStock,    \* bound: the products, and the units of each that are in stock
  CartOps,           \* bound: the requests under way
  NoGoods

VARIABLES
  basket,     \* the cart on the server: units of each product
  inView,     \* the cart the context holds; `none' before its first answer
  cartLoading, cartOpen, cartOnPage,  \* the spinner, the sidebar, whether the cart page is open
  adding,     \* the products whose button is disabled
  op,         \* the requests
  advice,     \* the products recommended
  adviceCall, \* the request for them, and the products it leaves out
  mixed       \* ghost: requests overlapped or failed since the cart was last in order

cartPageVars == <<basket, inView, cartLoading, cartOpen, cartOnPage, adding, op, advice, adviceCall, mixed>>

IsBasket(b) == b \in [Goods -> Nat] /\ \A g \in Goods : b[g] <= InStock[g]
NoBasket == [none |-> TRUE]
NoOp == [at |-> "idle", kind |-> "refresh", good |-> NoGoods, units |-> 0, cart |-> NoBasket]
NoAdvice == [at |-> "idle", without |-> {}]
InBasket(b) == IF b = NoBasket THEN {} ELSE {g \in Goods : b[g] > 0}

ASSUME CartPagesAssumption ==
  InStock \in [Goods -> Nat \ {0}] /\ IsFiniteSet(Goods) /\ NoGoods \notin Goods /\ CartOps # {}

CartPagesTypeOK ==
  /\ IsBasket(basket) /\ (inView = NoBasket \/ IsBasket(inView))
  /\ {cartLoading, cartOpen, cartOnPage, mixed} \subseteq BOOLEAN
  /\ adding \subseteq Goods /\ advice \subseteq Goods
  /\ \A c \in CartOps :
       /\ op[c].at \in {"idle", "sent", "ok", "failed"}
       /\ op[c].kind \in {"refresh", "add", "update", "remove"}
       /\ op[c].good \in Goods \cup {NoGoods} /\ op[c].units \in Nat
  /\ adviceCall \in [at : {"idle", "sent", "old"}, without : SUBSET Goods]

CartPagesInit ==
  /\ \E n \in {0, 1} : basket = [g \in Goods |-> n]  \* an account's, as it was left
  /\ inView = NoBasket /\ cartLoading = TRUE /\ cartOpen = FALSE
  /\ cartOnPage \in BOOLEAN
  /\ adding = {} /\ advice = {} /\ adviceCall = NoAdvice /\ mixed = FALSE
  /\ LET first == CHOOSE c \in CartOps : TRUE
     IN  op = [c \in CartOps |-> IF c = first THEN [NoOp EXCEPT !.at = "sent"] ELSE NoOp]

UnderWay == {c \in CartOps : op[c].at # "idle"}
CartRequest(c, kind, g, n) ==
  /\ op[c].at = "idle" /\ c = CHOOSE d \in CartOps : op[d].at = "idle"
  /\ op' = [op EXCEPT ![c] = [NoOp EXCEPT !.at = "sent", !.kind = kind, !.good = g, !.units = n]]
  /\ mixed' = (mixed \/ UnderWay # {})

-----------------------------------------------------------------------------
\* A product card, or the product page, and neither is on the cart's: disabled while it adds.
Available(g) == g \notin adding
AddItem(c, g) ==
  /\ Available(g) /\ ~cartOnPage
  /\ CartRequest(c, "add", g, 1)
  /\ adding' = adding \cup {g}
  /\ UNCHANGED <<basket, inView, cartLoading, cartOpen, cartOnPage, advice, adviceCall>>

\* The page's + and - send what is shown and one, the sidebar any quantity in stock.
Lines == InBasket(inView)
PageQuantities(g) == {inView[g] + 1, IF inView[g] > 1 THEN inView[g] - 1 ELSE 1}
SidebarQuantities(g) == (1..InStock[g]) \ {inView[g]}
UpdateItem(c, g) ==
  /\ g \in Lines
  /\ \E n \in (IF cartOnPage THEN PageQuantities(g) ELSE {}) \cup (IF cartOpen THEN SidebarQuantities(g) ELSE {}) :
       CartRequest(c, "update", g, n)
  /\ UNCHANGED <<basket, inView, cartLoading, cartOpen, cartOnPage, adding, advice, adviceCall>>

RemoveItem(c, g) ==
  /\ g \in Lines /\ (cartOnPage \/ cartOpen)
  /\ CartRequest(c, "remove", g, 0)
  /\ UNCHANGED <<basket, inView, cartLoading, cartOpen, cartOnPage, adding, advice, adviceCall>>

\* refreshCart, when the user changes, or a payment is over.
RefreshCart(c) ==
  /\ CartRequest(c, "refresh", NoGoods, 0)
  /\ cartLoading' = TRUE
  /\ UNCHANGED <<basket, inView, cartOpen, cartOnPage, adding, advice, adviceCall>>

ToggleSidebar ==
  /\ cartOpen' = ~cartOpen
  /\ UNCHANGED <<basket, inView, cartLoading, cartOnPage, adding, op, advice, adviceCall, mixed>>

-----------------------------------------------------------------------------
\* The server: what is out of stock is refused, and so is a line that is not there.
Applied(o) ==
  CASE o.kind = "add" -> [basket EXCEPT ![o.good] = @ + 1]
    [] o.kind = "update" -> [basket EXCEPT ![o.good] = o.units]
    [] o.kind = "remove" -> [basket EXCEPT ![o.good] = 0]
    [] OTHER -> basket
Refused0(o) ==
  \/ o.good # NoGoods /\ Applied(o)[o.good] > InStock[o.good]
  \/ o.kind = "update" /\ basket[o.good] = 0
ServeOp(c) ==
  /\ op[c].at = "sent"
  /\ IF Refused0(op[c])
     THEN op' = [op EXCEPT ![c].at = "failed"] /\ UNCHANGED basket
     ELSE basket' = Applied(op[c]) /\ op' = [op EXCEPT ![c].at = "ok", ![c].cart = Applied(op[c])]
  /\ UNCHANGED <<inView, cartLoading, cartOpen, cartOnPage, adding, advice, adviceCall, mixed>>

LoseOp(c) ==
  /\ op[c].at \in {"sent", "ok"}
  /\ op' = [op EXCEPT ![c].at = "failed"]
  /\ mixed' = TRUE
  /\ UNCHANGED <<basket, inView, cartLoading, cartOpen, cartOnPage, adding, advice, adviceCall>>

\* The cart page asks for recommendations when the number of lines, or the first one,
\* changes; an empty cart has none; nothing cancels a request that is under way.
AdviceFor(old, new) ==
  IF ~cartOnPage \/ InBasket(old) = InBasket(new) THEN UNCHANGED <<advice, adviceCall>>
  ELSE IF InBasket(new) = {}
       THEN advice' = {} /\ adviceCall' = [adviceCall EXCEPT !.at = IF @ = "idle" THEN @ ELSE "old"]
       ELSE UNCHANGED advice /\ adviceCall' = [at |-> IF adviceCall.at = "idle" THEN "sent" ELSE "old",
                                               without |-> InBasket(new)]

CartUnlessRemoved(o) == IF o.at = "ok" /\ o.kind # "remove" THEN o.cart ELSE inView
CartAfter(o) == IF o.at = "ok" THEN o.cart ELSE inView
AddingAfter(o) == IF o.kind = "add" THEN adding \ {o.good} ELSE adding
\* Whatever is answered last is the cart; adding something opens the sidebar.
OpAnswered(c) ==
  LET o == op[c] IN
  /\ o.at \in {"ok", "failed"}
  /\ inView' = CartAfter(o)
  /\ AdviceFor(inView, inView')
  /\ cartOpen' = (cartOpen \/ (o.kind = "add" /\ o.at = "ok"))
  /\ cartLoading' = (cartLoading /\ o.kind # "refresh")
  /\ adding' = AddingAfter(o)
  /\ op' = [op EXCEPT ![c] = NoOp]
  /\ mixed' = (mixed /\ ~(UnderWay = {c} /\ o.kind = "refresh" /\ o.at = "ok" /\ o.cart = basket))
  /\ UNCHANGED <<basket, cartOnPage>>

AdviceAnswered(ok) ==
  /\ adviceCall.at # "idle"
  /\ advice' = IF ok THEN Goods \ adviceCall.without ELSE {}
  /\ adviceCall' = NoAdvice
  /\ UNCHANGED <<basket, inView, cartLoading, cartOpen, cartOnPage, adding, op, mixed>>

CartPagesNext ==
  \/ \E c \in CartOps :
       \/ ServeOp(c) \/ LoseOp(c) \/ OpAnswered(c) \/ RefreshCart(c)
       \/ \E g \in Goods : AddItem(c, g) \/ UpdateItem(c, g) \/ RemoveItem(c, g)
  \/ \E ok \in BOOLEAN : AdviceAnswered(ok)
  \/ ToggleSidebar

CartPagesSpec == CartPagesInit /\ [][CartPagesNext]_cartPageVars

-----------------------------------------------------------------------------
\* Once every request is answered the browser shows the server's cart, unless requests
\* overlapped or one was lost, and no refresh had the line for itself since.
ShownCartIsTheServers ==
  UnderWay = {} /\ ~mixed => inView = basket

\* A product in the cart is not recommended beside it once its recommendations have come.
AdviceIsNotInTheCart ==
  cartOnPage /\ ~mixed /\ UnderWay = {} /\ adviceCall.at = "idle" => advice \cap Lines = {}

\* The buttons come back, and the spinner goes: each waits for a request of its own.
DisabledForARequest ==
  \A g \in adding : \E c \in UnderWay : op[c].kind = "add" /\ op[c].good = g

\* At rest the cart that shows is the server's, its advice is of other products, and a button
\* is disabled for a request that is under way.
CartShowsTheServers == ShownCartIsTheServers /\ AdviceIsNotInTheCart /\ DisabledForARequest
==============================================================================
