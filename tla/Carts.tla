------------------------------- MODULE Carts -------------------------------
(***************************************************************************)
(* The carts of one visitor: the guest's, a list that Redis holds under    *)
(* the visitor's guest id, and the account's, rows of Postgres.  No call   *)
(* is a transaction: it reads, waits, and writes what follows from what it *)
(* read, so one action is one statement.  A cart and a line are named by   *)
(* the call that inserts them, as their uuids are never used again.        *)
(***************************************************************************)
EXTENDS Naturals, FiniteSets

CONSTANTS
  CartCalls,     \* bound: the calls of a behaviour
  CartProducts,
  Shelf,         \* Shelf[p]: the units in stock to begin with
  MaxAsked,      \* bound: units asked for in one call
  Popular,       \* bound: the products that others buy too
  CartMenu,    \* bound: CartMenu[r] are the kinds of call that r may be
  NoProduct, NoCall

VARIABLES
  guestCart,   \* units of each product in the guest's list
  carts,       \* the account's cart rows: nothing makes them unique
  lines,       \* the lines of each cart: units and row of each product
  shelf,       \* Product.stockQuantity
  cartTask,    \* what each call is asked to do
  cartFrame,   \* the variables of each call
  cartAt,      \* the statement each call is at
  cartAlone,   \* ghost: the running call that overlaps no other, nor a sale
  cartBefore   \* ghost: the carts when it began

cartVars == <<guestCart, carts, lines, shelf, cartTask, cartFrame, cartAt, cartAlone, cartBefore>>
cartLocals == <<cartTask, cartFrame>>
cartStore == <<guestCart, carts, lines, shelf>>

AskedUnits == 1..MaxAsked
EmptyCart == [p \in CartProducts |-> 0]
NoLine == [units |-> 0, row |-> NoCall]
CartOwners == {"guest", "account"}
CartTasks ==
  [kind : {"get"}, owner : CartOwners, product : {NoProduct}, units : {0}]
  \cup [kind : {"add", "update"}, owner : CartOwners, product : CartProducts, units : AskedUnits]
  \cup [kind : {"remove"}, owner : CartOwners, product : CartProducts, units : {0}]
  \cup [kind : {"merge"}, owner : {"account"}, product : {NoProduct}, units : {0}]
  \cup [kind : {"order"}, owner : {"guest"}, product : {NoProduct}, units : {0}]
NoCartTask == [kind |-> "none", owner |-> "guest", product |-> NoProduct, units |-> 0]
NoCartFrame == [cart |-> NoCall, stock |-> 0, line |-> NoLine, product |-> NoProduct, items |-> EmptyCart]
CartEnded == {"idle", "done", "refused", "failed"}
CartsRunning == {r \in CartCalls : cartAt[r] \notin CartEnded}

ASSUME CartsAssumption ==
  /\ IsFiniteSet(CartCalls) /\ IsFiniteSet(CartProducts)
  /\ Shelf \in [CartProducts -> Nat]
  /\ MaxAsked \in Nat
  /\ Popular \subseteq CartProducts
  /\ CartMenu \in [CartCalls -> SUBSET CartTasks]
  /\ NoCall \notin CartCalls /\ NoProduct \notin CartProducts

CartRows == [units : Nat, row : CartCalls \cup {NoCall}]
CartFrames == [cart : CartCalls \cup {NoCall}, stock : Nat, line : CartRows,
           product : CartProducts \cup {NoProduct}, items : [CartProducts -> Nat]]
CartSteps == {"product", "find", "create", "line", "write", "next", "clear", "read", "writeGuest",
          "answer"} \cup CartEnded

CartsTypeOK ==
  /\ guestCart \in [CartProducts -> Nat]
  /\ carts \subseteq CartCalls
  /\ lines \in [CartCalls -> [CartProducts -> CartRows]]
  /\ shelf \in [CartProducts -> Nat]
  /\ cartTask \in [CartCalls -> CartTasks \cup {NoCartTask}]
  /\ cartFrame \in [CartCalls -> CartFrames]
  /\ cartAt \in [CartCalls -> CartSteps]

\* The carts as getCart shows them: of an account with several, any of them.
Contents(c) == [p \in CartProducts |-> lines[c][p].units]
NoCartView == [guest |-> EmptyCart, account |-> EmptyCart]
CartView == [guest |-> guestCart,
         account |-> IF carts = {} THEN EmptyCart ELSE Contents(CHOOSE c \in carts : TRUE)]

CartsInit ==
  /\ guestCart = EmptyCart
  /\ carts = {}
  /\ lines = [r \in CartCalls |-> [p \in CartProducts |-> NoLine]]
  /\ shelf = Shelf
  /\ cartTask = [r \in CartCalls |-> NoCartTask]
  /\ cartFrame = [r \in CartCalls |-> NoCartFrame]
  /\ cartAt = [r \in CartCalls |-> "idle"]
  /\ cartAlone = NoCall
  /\ cartBefore = NoCartView

\* The next statement, with the variables it finds; a call that stops drops them.
CartGoWith(r, f, step) ==
  /\ cartAt' = [cartAt EXCEPT ![r] = step]
  /\ cartFrame' = [cartFrame EXCEPT ![r] = IF step \in CartEnded THEN NoCartFrame ELSE f]
CartGo(r, step) == CartGoWith(r, cartFrame[r], step)
CartQuiet == UNCHANGED <<cartAlone, cartBefore>>
CartOverlap == cartAlone' = NoCall /\ cartBefore' = NoCartView

-----------------------------------------------------------------------------
\* A call arrives, with an account's token or else with a guest id: without
\* either requireIdentity refuses it.
CartBegins(r, t) ==
  /\ cartAt[r] = "idle"
  /\ t \in CartMenu[r]
  /\ cartTask' = [cartTask EXCEPT ![r] = t]
  /\ CartGo(r, CASE t.kind = "get" -> "answer"
                 [] t.kind \in {"add", "update"} -> "product"
                 [] t.kind = "remove" /\ t.owner = "account" -> "find"
                 [] OTHER -> "read")
  /\ IF CartsRunning = {} /\ Cardinality(carts) <= 1
     THEN cartAlone' = r /\ cartBefore' = CartView
     ELSE CartOverlap
  /\ UNCHANGED cartStore

\* add, update: the product, and the first check of its stock.
ReadProduct(r) ==
  /\ cartAt[r] = "product"
  /\ CartGoWith(r,
       [cartFrame[r] EXCEPT !.stock = shelf[cartTask[r].product], !.product = cartTask[r].product],
       IF cartTask[r].units > shelf[cartTask[r].product] THEN "refused"
       ELSE IF cartTask[r].owner = "account" THEN "find" ELSE "read")
  /\ CartQuiet
  /\ UNCHANGED <<cartStore, cartTask>>

\* findFirst of the account's carts.
FindCart(r) ==
  /\ cartAt[r] = "find"
  /\ \/ /\ carts = {}
        /\ CartGo(r, CASE cartTask[r].kind \in {"add", "merge"} -> "create"
                   [] cartTask[r].kind = "update" -> "refused"
                   [] cartTask[r].kind = "remove" -> "answer")
     \/ \E c \in carts :
          CartGoWith(r, [cartFrame[r] EXCEPT !.cart = c],
                 CASE cartTask[r].kind \in {"add", "update"} -> "line"
                   [] cartTask[r].kind = "remove" -> "write"
                   [] cartTask[r].kind = "merge" -> "next")
  /\ CartQuiet
  /\ UNCHANGED <<cartStore, cartTask>>

CreateCart(r) ==
  /\ cartAt[r] = "create"
  /\ carts' = carts \cup {r}
  /\ CartGoWith(r, [cartFrame[r] EXCEPT !.cart = r], IF cartTask[r].kind = "merge" THEN "next" ELSE "line")
  /\ CartQuiet
  /\ UNCHANGED <<guestCart, lines, shelf, cartTask>>

\* findUnique of the line, and the second check.
TooMany(r, units) == units + cartTask[r].units > cartFrame[r].stock
ReadLine(r) ==
  LET line == lines[cartFrame[r].cart][cartFrame[r].product] IN
  /\ cartAt[r] = "line"
  /\ CartGoWith(r, [cartFrame[r] EXCEPT !.line = line],
            IF \/ cartTask[r].kind = "add" /\ TooMany(r, line.units)
               \/ cartTask[r].kind = "update" /\ line = NoLine
            THEN "refused" ELSE "write")
  /\ CartQuiet
  /\ UNCHANGED <<cartStore, cartTask>>

Smaller(m, n) == IF m < n THEN m ELSE n
MergedReplaced(r) == Smaller(cartFrame[r].items[cartFrame[r].product], cartFrame[r].stock)
MergedUnits(r) ==
  Smaller(cartFrame[r].line.units + cartFrame[r].items[cartFrame[r].product], cartFrame[r].stock)
NewUnits(r) ==
  CASE cartTask[r].kind = "add" -> cartFrame[r].line.units + cartTask[r].units
    [] cartTask[r].kind = "update" -> cartTask[r].units
    [] cartTask[r].kind = "merge" -> MergedUnits(r)

\* The line found is updated by its id, or one is inserted.
WriteLine(r) ==
  LET c == cartFrame[r].cart  p == cartFrame[r].product IN
  /\ cartAt[r] = "write" /\ cartTask[r].kind # "remove"
  /\ lines[c][p].row = cartFrame[r].line.row
  /\ lines' = [lines EXCEPT ![c][p] =
       [units |-> NewUnits(r), row |-> IF @ = NoLine THEN r ELSE @.row]]
  /\ IF cartTask[r].kind = "merge"
     THEN CartGoWith(r, [cartFrame[r] EXCEPT !.items[p] = 0, !.line = NoLine], "next")
     ELSE CartGo(r, "answer")
  /\ CartQuiet
  /\ UNCHANGED <<guestCart, carts, shelf, cartTask>>

\* The row is gone, or the unique key finds that another was inserted: error 500.
LineChanged(r) ==
  /\ cartAt[r] = "write" /\ cartTask[r].kind # "remove"
  /\ lines[cartFrame[r].cart][cartFrame[r].product].row # cartFrame[r].line.row
  /\ CartGo(r, "failed")
  /\ CartQuiet
  /\ UNCHANGED <<cartStore, cartTask>>

DeleteLine(r) ==
  /\ cartAt[r] = "write" /\ cartTask[r].kind = "remove"
  /\ lines' = [lines EXCEPT ![cartFrame[r].cart][cartTask[r].product] = NoLine]
  /\ CartGo(r, "answer")
  /\ CartQuiet
  /\ UNCHANGED <<guestCart, carts, shelf, cartTask>>

-----------------------------------------------------------------------------
\* The guest's list is read whole...
ReadGuest(r) ==
  /\ cartAt[r] = "read"
  /\ CartGoWith(r, [cartFrame[r] EXCEPT !.items = guestCart],
       CASE cartTask[r].kind = "add" ->
                  IF TooMany(r, guestCart[cartTask[r].product]) THEN "refused" ELSE "writeGuest"
             [] cartTask[r].kind = "update" ->
                  IF guestCart[cartTask[r].product] = 0 THEN "refused" ELSE "writeGuest"
             [] cartTask[r].kind = "remove" -> IF guestCart = EmptyCart THEN "answer" ELSE "writeGuest"
             [] cartTask[r].kind = "merge" -> IF guestCart = EmptyCart THEN "answer" ELSE "find"
             [] cartTask[r].kind = "order" -> IF guestCart = EmptyCart THEN "refused" ELSE "clear")
  /\ CartQuiet
  /\ UNCHANGED <<cartStore, cartTask>>

\* ... and written back whole, for 7 more days.
WriteGuest(r) ==
  LET p == cartTask[r].product  items == cartFrame[r].items IN
  /\ cartAt[r] = "writeGuest"
  /\ guestCart' = [items EXCEPT ![p] =
       IF cartTask[r].kind = "add" THEN items[p] + cartTask[r].units ELSE cartTask[r].units]
  /\ CartGo(r, "answer")
  /\ CartQuiet
  /\ UNCHANGED <<carts, lines, shelf, cartTask>>

\* The loop of mergeCart: a product out of stock is passed over.
NextItem(r) ==
  /\ cartAt[r] = "next"
  /\ \/ /\ cartFrame[r].items = EmptyCart
        /\ CartGo(r, "clear")
     \/ \E p \in CartProducts :
          /\ cartFrame[r].items[p] > 0
          /\ IF shelf[p] = 0
             THEN CartGoWith(r, [cartFrame[r] EXCEPT !.items[p] = 0], "next")
             ELSE CartGoWith(r, [cartFrame[r] EXCEPT !.stock = shelf[p], !.product = p], "line")
  /\ CartQuiet
  /\ UNCHANGED <<cartStore, cartTask>>

\* The guest's list is dropped: after a merge, and by a guest's checkout.
ClearGuest(r) ==
  /\ cartAt[r] = "clear"
  /\ guestCart' = EmptyCart
  /\ CartGo(r, "answer")
  /\ CartQuiet
  /\ UNCHANGED <<carts, lines, shelf, cartTask>>

\* getCart: what the call answers with.
GetCart(r) ==
  /\ cartAt[r] = "answer"
  /\ cartAt' = [cartAt EXCEPT ![r] = "done"]
  /\ cartFrame' = [cartFrame EXCEPT ![r] = [NoCartFrame EXCEPT !.items = CartView[cartTask[r].owner]]]
  /\ CartOverlap
  /\ UNCHANGED <<cartStore, cartTask>>

\* A store that does not answer, or a restart: what is written stays.
CartFails(r) ==
  /\ r \in CartsRunning
  /\ CartGo(r, "failed")
  /\ CartOverlap
  /\ UNCHANGED <<cartStore, cartTask>>

Sellable(p) == shelf[p] > 0
\* Others buy the product; the guest's list expires (while no call runs: what it
\* does to one that runs, an order does too).
Sold(p) ==
  /\ Sellable(p)
  /\ shelf' = [shelf EXCEPT ![p] = @ - 1]
  /\ CartOverlap
  /\ UNCHANGED <<guestCart, carts, lines, cartLocals, cartAt>>
GuestCartExpires ==
  /\ CartsRunning = {} /\ guestCart # EmptyCart
  /\ guestCart' = EmptyCart
  /\ CartOverlap
  /\ UNCHANGED <<carts, lines, shelf, cartLocals, cartAt>>

CartStep(r) ==
  \/ ReadProduct(r) \/ FindCart(r) \/ CreateCart(r) \/ ReadLine(r) \/ WriteLine(r)
  \/ LineChanged(r) \/ DeleteLine(r) \/ ReadGuest(r) \/ WriteGuest(r) \/ NextItem(r)
  \/ ClearGuest(r) \/ GetCart(r)
CartsNext ==
  \/ \E r \in CartCalls : CartStep(r) \/ CartFails(r) \/ \E t \in CartTasks : CartBegins(r, t)
  \/ \E p \in Popular : Sold(p)
  \/ GuestCartExpires
CartsSpec == CartsInit /\ [][CartsNext]_cartVars

-----------------------------------------------------------------------------
\* What a call is for, on carts that nobody else touches: the reference that the
\* statements above are compared with.
Merged(v, p) == IF shelf[p] = 0 THEN v.account[p] ELSE Smaller(v.account[p] + v.guest[p], shelf[p])
CartEffect(t, v) ==
  CASE t.kind = "get" -> v
    [] t.kind = "add" -> [v EXCEPT ![t.owner][t.product] = @ + t.units]
    [] t.kind \in {"update", "remove"} -> [v EXCEPT ![t.owner][t.product] = t.units]
    [] t.kind = "order" -> [v EXCEPT !.guest = EmptyCart]
    [] t.kind = "merge" /\ v.guest = EmptyCart -> v
    [] t.kind = "merge" /\ v.guest # EmptyCart -> [guest |-> EmptyCart, account |-> [p \in CartProducts |->
                              IF v.guest[p] = 0 THEN v.account[p] ELSE Merged(v, p)]]

\* A call that ran by itself did to both carts what it is for, in all its
\* statements together, and answers with what is then in the cart: what it left
\* alone is as it was, and a merge moved every line before it dropped the list.
LoneCallIsAtomic ==
  [][\A r \in CartCalls :
       /\ cartAlone = r /\ cartAt'[r] = "done" /\ cartAt[r] # "done" =>
            /\ CartView = CartEffect(cartTask[r], cartBefore)
            /\ cartFrame'[r].items = CartView[cartTask[r].owner]
       /\ cartAlone = r /\ cartAt'[r] = "refused" /\ cartAt[r] # "refused" => CartView = cartBefore]_cartVars

\* However calls overlap, a line never asks for more than the shop had in stock
\* ("out-of-stock guards"): the stock was checked against the sum written.
WithinStock ==
  /\ \A p \in CartProducts : guestCart[p] <= Shelf[p]
  /\ \A c \in carts, p \in CartProducts : lines[c][p].units <= Shelf[p]

\* What the carts promise: no line of more units than are in stock, and a call that
\* nothing overlaps does to the cart just what it says.
CartsKeepTheirGoods == []WithinStock /\ LoneCallIsAtomic
=============================================================================
