------------------------------- MODULE MCApp -------------------------------
(* The pages of the front end, checked in one run: a behaviour stays on one  *)
(* page, chosen at the start, while the variables of the others keep their   *)
(* initial values.                                                           *)
EXTENDS ListPanels, CheckoutPage, CatalogPage, OrderPages, CartPages, Session, FormPages, AccountPage, ProductPages, SearchBox

VARIABLE route

Routes == {"panels", "checkout", "catalog", "orders", "cart", "session", "forms", "factor", "profile", "product", "search"}

allVars == <<route, panelVars, checkoutVars, catalogVars, orderPageVars, cartPageVars, sessionVars, postVars, accountPageVars, productPageVars, searchBoxVars>>

MCInit ==
  /\ route \in Routes
  /\ PanelsInit
  /\ CheckoutInit /\ (route # "checkout" => guest /\ cartCall["c1"] = "refresh")
  /\ CatalogInit /\ inflight = "t1" /\ query.filter = "a"
  /\ OrderPagesInit /\ (route # "orders" => ordersPage = "list" /\ status = "PAID" /\ listCall["l1"].at = "sent")
  /\ CartPagesInit /\ basket["g"] = (IF cartOnPage THEN 1 ELSE 0) /\ (route # "cart" => cartOnPage)
  /\ SessionInit /\ (route # "session" => cookie = NoCookie)
  /\ FormPagesInit /\ (route # "forms" => formPage = "contact")
  /\ AccountPageInit /\ (route # "factor" => tfaOn)
  /\ ProductPagesInit /\ slug = "p1" /\ myReview["p1"] = "text" /\ myReview["p2"] = "none"
  /\ SearchBoxInit

Others(r) ==
  /\ UNCHANGED route
  /\ r # "panels" => UNCHANGED panelVars
  /\ r # "checkout" => UNCHANGED checkoutVars
  /\ r # "catalog" => UNCHANGED catalogVars
  /\ r # "orders" => UNCHANGED orderPageVars
  /\ r # "cart" => UNCHANGED cartPageVars
  /\ r # "session" => UNCHANGED sessionVars
  /\ r # "forms" => UNCHANGED postVars
  /\ r \notin {"factor", "profile"} => UNCHANGED accountPageVars
  /\ r # "product" => UNCHANGED productPageVars
  /\ r # "search" => UNCHANGED searchBoxVars

\* Bounds: a panel is left for the orders only, and the sidebar is opened on other
\* pages than the cart's.
LeftForOrders == mounts' = mounts \/ panel = NoPanel \/ panel' = "orders"
SidebarElsewhere == cartOpen' => ~cartOnPage

MCNext ==
  \/ route = "panels" /\ PanelsNext /\ LeftForOrders /\ Others("panels")
  \/ route = "checkout" /\ CheckoutPageNext /\ Others("checkout")
  \/ route = "catalog" /\ CatalogPageNext /\ Others("catalog")
  \/ route = "orders" /\ OrderPagesNext /\ Others("orders")
  \/ route = "cart" /\ CartPagesNext /\ SidebarElsewhere /\ Others("cart")
  \/ route = "session" /\ SessionNext /\ Others("session")
  \/ route = "forms" /\ FormPagesNext /\ Others("forms")
  \/ route = "factor" /\ TfaNext /\ Others("factor")
  \/ route = "profile" /\ ProfileNext /\ Others("profile")
  \/ route = "product" /\ ProductPagesNext /\ Others("product")
  \/ route = "search" /\ SearchBoxNext /\ Others("search")

MCSpec == MCInit /\ [][MCNext]_allVars

-----------------------------------------------------------------------------
MCRows0 == [p \in Panels |-> [r \in RowIds |-> IF r = "x" THEN 1 ELSE 0]]
MCMenu == [r \in Requests |-> IF r = "r1" THEN {"login", "page", "cart"} ELSE {"page", "cart", "logout"}]
MCInStock == [g \in Goods |-> IF g = "g" THEN 2 ELSE 1]
MCSuggestedFor == [t \in Terms |-> IF t = "s1" THEN 2 ELSE 1]
MCPagesOf == [f \in Filters |-> IF f = "a" THEN 2 ELSE 1]

-----------------------------------------------------------------------------
\* Every variable of a page keeps its type: no page comes to a state it cannot show.
AppTypeOK ==
  /\ ListPanelsTypeOK /\ CheckoutPageTypeOK /\ CatalogPageTypeOK /\ OrderPagesTypeOK /\ CartPagesTypeOK
  /\ SessionTypeOK /\ FormPagesTypeOK /\ AccountPageTypeOK /\ ProductPagesTypeOK /\ SearchBoxTypeOK

\* What the shopper reads and looks for: the page of a product is of one product, and replaces a
\* review's text only in the ways that KeepsItsText names; the suggestions are for what is typed,
\* unless a request was overtaken or lost, and the marked one is among them.
StorefrontIsCurrent == [](PageIsOfOneProduct /\ MarkedIsShown /\ HintsAreForTheTerm) /\ KeepsItsText
=============================================================================
