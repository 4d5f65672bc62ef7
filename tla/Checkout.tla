------------------------------ MODULE Checkout ------------------------------
(***************************************************************************)
(* Checkouts racing for the same stock.  Each is an interactive Postgres   *)
(* transaction at READ COMMITTED: it reads the cart, validates it against  *)
(* the stock it sees, inserts the order, then decrements the products one  *)
(* statement at a time.  A decrement waits for the row lock of another     *)
(* transaction, works on the newest committed quantity, and is undone with *)
(* everything else if it goes below zero.  A guest's cart is in Redis: it  *)
(* is read before the transaction and deleted after it.                    *)
(*                                                                         *)
(* The transaction's uncommitted writes are seen by nobody else, so the    *)
(* model keeps the committed quantities and the locks, and applies the     *)
(* writes of a transaction when it commits.                                *)
(***************************************************************************)
EXTENDS Naturals

CONSTANTS
  Checkouts,     \* bound: the checkout requests of a behaviour
  Buyer,         \* Buyer[k]: whose cart checkout k orders
  Buyers,
  Guests,        \* the buyers without an account
  Products, InitialStock,
  MaxQty,        \* bound: units of a product in a cart
  StockLevels,   \* quantities the staff set
  MaxEdits,      \* bound: cart edits + staff edits
  NoProduct, Free

VARIABLES
  stock,    \* Product.stockQuantity, committed
  lock,     \* who holds the row of each product
  carts,    \* units of each product in each buyer's cart
  placed,   \* the committed order of each checkout
  items,    \* the cart as each checkout read it
  pending,  \* the products a checkout has still to decrement
  want,     \* the product whose row a checkout is waiting for
  pc, edits

vars == <<stock, lock, carts, placed, items, pending, want, pc, edits>>

Carts == [Products -> 0 .. MaxQty]
Nothing == [p \in Products |-> 0]
Pcs == {"idle", "check", "take", "clear", "done", "refused"}
InCart(cart) == {p \in Products : cart[p] > 0}

ASSUME CheckoutAssumption ==
  /\ Buyer \in [Checkouts -> Buyers]
  /\ InitialStock \in [Products -> Nat]
  /\ StockLevels \subseteq Nat
  /\ MaxQty \in Nat
  /\ MaxEdits \in Nat
  /\ NoProduct \notin Products
  /\ Free \notin Checkouts

TypeOK ==
  /\ stock \in [Products -> Nat]
  /\ lock \in [Products -> Checkouts \cup {Free}]
  /\ carts \in [Buyers -> Carts]
  /\ placed \in [Checkouts -> Carts]
  /\ items \in [Checkouts -> Carts]
  /\ pending \in [Checkouts -> SUBSET Products]
  /\ want \in [Checkouts -> Products \cup {NoProduct}]
  /\ pc \in [Checkouts -> Pcs]
  /\ edits \in 0 .. MaxEdits

\* Behaviours start with whatever the buyers have put in their carts.
Init ==
  /\ stock = InitialStock
  /\ lock = [p \in Products |-> Free]
  /\ carts \in [Buyers -> Carts]
  /\ placed = [k \in Checkouts |-> Nothing]
  /\ items = [k \in Checkouts |-> Nothing]
  /\ pending = [k \in Checkouts |-> {}]
  /\ want = [k \in Checkouts |-> NoProduct]
  /\ pc = [k \in Checkouts |-> "idle"]
  /\ edits = 0

Edit == edits < MaxEdits /\ edits' = edits + 1

\* The cart endpoints: whatever they checked, what they do is set the quantity
\* of one product.
EditCart(b, p, n) ==
  /\ Edit
  /\ carts' = [carts EXCEPT ![b][p] = n]
  /\ UNCHANGED <<stock, lock, placed, items, pending, want, pc>>

\* Staff save the product form: an absolute quantity, after any row lock.
SetStock(p, n) ==
  /\ Edit
  /\ lock[p] = Free
  /\ stock' = [stock EXCEPT ![p] = n]
  /\ UNCHANGED <<lock, carts, placed, items, pending, want, pc>>

\* The cart is emptied before the transaction has committed.
ReadCartClearing(k) ==
  /\ pc[k] = "idle"
  /\ items' = [items EXCEPT ![k] = carts[Buyer[k]]]
  /\ pc' = [pc EXCEPT ![k] = IF carts[Buyer[k]] = Nothing THEN "refused" ELSE "check"]
  /\ carts' = [carts EXCEPT ![Buyer[k]] = Nothing]
  /\ UNCHANGED <<stock, lock, placed, pending, want, edits>>
\* The cart is read: by a guest's checkout from Redis before the transaction, by
\* an account's at the start of it.  An empty one ends the checkout.
ReadCart(k) ==
  /\ pc[k] = "idle"
  /\ items' = [items EXCEPT ![k] = carts[Buyer[k]]]
  /\ pc' = [pc EXCEPT ![k] = IF carts[Buyer[k]] = Nothing THEN "refused" ELSE "check"]
  /\ UNCHANGED <<stock, lock, carts, placed, pending, want, edits>>

\* Every line is checked against the stock read with the products.
CheckStock(k) ==
  /\ pc[k] = "check"
  /\ IF \A p \in Products : items[k][p] <= stock[p]
     THEN /\ pc' = [pc EXCEPT ![k] = "take"]
          /\ pending' = [pending EXCEPT ![k] = InCart(items[k])]
     ELSE pc' = [pc EXCEPT ![k] = "refused"] /\ UNCHANGED pending
  /\ UNCHANGED <<stock, lock, carts, placed, items, want, edits>>

\* The next decrement is sent; the rows come in the order of the cart's lines.
Want(k, p) ==
  /\ pc[k] = "take"
  /\ want[k] = NoProduct
  /\ p \in pending[k]
  /\ want' = [want EXCEPT ![k] = p]
  /\ UNCHANGED <<stock, lock, carts, placed, items, pending, pc, edits>>

\* Everything a transaction did is undone: its locks are all that others saw.
Unlocked(k) == [p \in Products |-> IF lock[p] = k THEN Free ELSE lock[p]]
RollBack(k) ==
  /\ lock' = Unlocked(k)
  /\ pending' = [pending EXCEPT ![k] = {}]
  /\ want' = [want EXCEPT ![k] = NoProduct]
  /\ pc' = [pc EXCEPT ![k] = "refused"]
  /\ UNCHANGED <<stock, carts, placed, items, edits>>

\* The quantity was checked before: "Initial validation of cart items".
EnoughBefore(k, p) == pc[k] = "take"
Enough(k, p) == items[k][p] <= stock[p]

\* The row lock is had, and the decrement leaves a quantity that is not negative.
Take(k) ==
  LET p == want[k] IN
  /\ p \in Products
  /\ lock[p] = Free
  /\ Enough(k, p)
  /\ lock' = [lock EXCEPT ![p] = k]
  /\ pending' = [pending EXCEPT ![k] = @ \ {p}]
  /\ want' = [want EXCEPT ![k] = NoProduct]
  /\ UNCHANGED <<stock, carts, placed, items, pc, edits>>

\* A decrement that failed is tried again instead.
OversoldRetries(k) ==
  /\ want[k] \in Products
  /\ lock[want[k]] = Free
  /\ ~Enough(k, want[k])
  /\ want' = [want EXCEPT ![k] = NoProduct]
  /\ UNCHANGED <<stock, lock, carts, placed, items, pending, pc, edits>>
\* The decrement went below zero: "Race condition detected".
Oversold(k) ==
  /\ want[k] \in Products
  /\ lock[want[k]] = Free
  /\ ~Enough(k, want[k])
  /\ RollBack(k)

CommitOverwrites(k) == [p \in Products |-> IF lock[p] = k THEN 0 ELSE stock[p]]
Decremented(k) == [p \in Products |-> IF lock[p] = k THEN stock[p] - items[k][p] ELSE stock[p]]

\* Commit: the order, the decrements and, for an account, the emptied cart.
Commit(k) ==
  /\ pc[k] = "take"
  /\ pending[k] = {}
  /\ stock' = Decremented(k)
  /\ placed' = [placed EXCEPT ![k] = items[k]]
  /\ lock' = Unlocked(k)
  /\ IF Buyer[k] \in Guests
     THEN pc' = [pc EXCEPT ![k] = "clear"] /\ UNCHANGED carts
     ELSE /\ pc' = [pc EXCEPT ![k] = "done"]
          /\ carts' = [carts EXCEPT ![Buyer[k]] = Nothing]
  /\ UNCHANGED <<items, pending, want, edits>>

ClearGuestCart(k) ==
  /\ pc[k] = "clear"
  /\ carts' = [carts EXCEPT ![Buyer[k]] = Nothing]
  /\ pc' = [pc EXCEPT ![k] = "done"]
  /\ UNCHANGED <<stock, lock, placed, items, pending, want, edits>>

\* A database error, the transaction's time limit or a restart of the backend
\* rolls a transaction back.
Abort(k) == pc[k] \in {"check", "take"} /\ RollBack(k)

\* Redis fails, or the backend restarts, after the commit: the buyer is told of
\* an error.
ClearFails(k) ==
  /\ pc[k] = "clear"
  /\ pc' = [pc EXCEPT ![k] = "refused"]
  /\ UNCHANGED <<stock, lock, carts, placed, items, pending, want, edits>>

\* Postgres aborts a transaction that waits in a cycle.
Deadlocked(k) ==
  \E cycle \in SUBSET Checkouts :
    /\ k \in cycle
    /\ \A j \in cycle : want[j] \in Products /\ lock[want[j]] \in cycle

BreakDeadlock(k) == Deadlocked(k) /\ RollBack(k)

Next ==
  \/ \E b \in Buyers, p \in Products, n \in 0 .. MaxQty : EditCart(b, p, n)
  \/ \E p \in Products, n \in StockLevels : SetStock(p, n)
  \/ \E k \in Checkouts :
       \/ \E p \in Products : Want(k, p)
       \/ ReadCart(k) \/ CheckStock(k) \/ Take(k) \/ Oversold(k) \/ Commit(k)
       \/ ClearGuestCart(k) \/ Abort(k) \/ ClearFails(k) \/ BreakDeadlock(k)

Spec == Init /\ [][Next]_vars

\* The database runs every statement it is sent, and its deadlock detector.
Fairness ==
  \A k \in Checkouts :
    WF_vars(CheckStock(k) \/ (\E p \in Products : Want(k, p)) \/ Take(k) \/ Oversold(k)
            \/ Commit(k) \/ ClearGuestCart(k) \/ BreakDeadlock(k))
FairSpec == Spec /\ Fairness

-----------------------------------------------------------------------------
\* The transaction is one indivisible reservation of units that were there
\* (checkout.service.ts:85-86, review-guide-part-2.md:325-334).
Promise == INSTANCE Inventory WITH reserved <- placed, Bundles <- Carts
ReservesAtomically == Promise!Spec

\* A decrementing checkout holds the rows of its order that it is done with, and
\* no others; the units of a row it holds are there.
Reservation(k) ==
  pc[k] = "take" => \A p \in Products :
    /\ lock[p] = k <=> p \in InCart(items[k]) \ pending[k]
    /\ lock[p] = k => items[k][p] <= stock[p]

\* What a checkout has taken stays covered until it commits, whatever others do
\* meanwhile, and it commits no less than all it read in the cart.
TakenIsCovered == \A k \in Checkouts : Reservation(k)

\* Only a checkout that has placed an order empties a cart, and it places one order.
CartOutlivesRefusal ==
  [][\A b \in Buyers : carts'[b] # carts[b] /\ edits' = edits
       => \E k \in Checkouts : Buyer[k] = b /\ placed'[k] # Nothing /\ pc[k] # "done"]_vars

\* Every checkout ends, whatever it waits for: the rows of others are released
\* and cycles of waiting are broken.
EveryCheckoutEnds ==
  \A k \in Checkouts : pc[k] = "check" ~> pc[k] \in {"done", "refused"}
=============================================================================
