--------------------------- MODULE CheckoutProofs ---------------------------
(***************************************************************************)
(* For any number of checkouts, products and staff edits, the checkout     *)
(* transaction implements the atomic reservation of Inventory.             *)
(***************************************************************************)
EXTENDS Checkout, TLAPS

\* A checkout that waits for a row is decrementing, and has not had that row yet.
WantsPending ==
  \A k \in Checkouts : want[k] \in Products => pc[k] = "take" /\ want[k] \in pending[k]

\* What is still to decrement is in the order.
PendingInCart == \A k \in Checkouts : pc[k] = "take" => pending[k] \subseteq InCart(items[k])

\* A locked row is held by a transaction that is decrementing.
LocksAreLive == \A p \in Products : lock[p] # Free => pc[lock[p]] = "take"

\* A checkout that has not committed has placed nothing.
UnplacedYet ==
  \A k \in Checkouts : pc[k] \in {"idle", "check", "take"} => placed[k] = Nothing

IInv == TypeOK /\ WantsPending /\ PendingInCart /\ LocksAreLive /\ UnplacedYet /\ TakenIsCovered

\* An empty order is an order.
LEMMA NothingIsACart == Nothing \in Carts
BY CheckoutAssumption DEF Nothing, Carts

\* The invariant holds when the shop opens.
LEMMA Initially == Init => IInv
<1> SUFFICES ASSUME Init PROVE IInv
  OBVIOUS
<1>1. TypeOK
  BY CheckoutAssumption, NothingIsACart DEF Init, TypeOK, Pcs
<1>2. WantsPending /\ PendingInCart /\ LocksAreLive /\ UnplacedYet /\ TakenIsCovered
  BY CheckoutAssumption DEF Init, WantsPending, PendingInCart, LocksAreLive, UnplacedYet, TakenIsCovered, Reservation
<1>3. QED
  BY <1>1, <1>2 DEF IInv

\* Undoing a transaction keeps the invariant: the rows it leaves are free, and the
\* rows of the others are still covered.
LEMMA RollBackKeeps ==
  ASSUME IInv, NEW k \in Checkouts, RollBack(k)
  PROVE  IInv'
<1>1. TypeOK'
  BY DEF IInv, TypeOK, RollBack, Unlocked, Pcs
<1>2. \A p \in Products : lock'[p] = IF lock[p] = k THEN Free ELSE lock[p]
  BY DEF RollBack, Unlocked
<1>3. pc'[k] = "refused" /\ \A j \in Checkouts : j # k => pc'[j] = pc[j]
  BY DEF RollBack, IInv, TypeOK
<1>4. WantsPending'
  BY CheckoutAssumption DEF RollBack, WantsPending, IInv, TypeOK
<1>5. PendingInCart' /\ LocksAreLive'
  BY <1>2, <1>3 DEF RollBack, PendingInCart, LocksAreLive, IInv, TypeOK, InCart
<1>6. UnplacedYet'
  BY <1>3 DEF RollBack, UnplacedYet, IInv
<1>7. ASSUME NEW j \in Checkouts PROVE Reservation(j)'
  <2>1. CASE j = k
    BY <1>3, <2>1 DEF Reservation
  <2>2. CASE j # k
    <3>1. pending'[j] = pending[j] /\ items' = items /\ stock' = stock
      BY <2>2 DEF RollBack, IInv, TypeOK
    <3>2. \A p \in Products : lock'[p] = j <=> lock[p] = j
      BY <1>2, <2>2, CheckoutAssumption
    <3>3. Reservation(j)
      BY DEF IInv, TakenIsCovered
    <3>4. QED
      BY <1>3, <2>2, <3>1, <3>2, <3>3 DEF Reservation, InCart
  <2>3. QED
    BY <2>1, <2>2
<1>8. QED
  BY <1>1, <1>4, <1>5, <1>6, <1>7 DEF IInv, TakenIsCovered

\* The cart and staff edits keep the invariant: no locked row is among them.
LEMMA EditsKeep ==
  ASSUME IInv,
         \/ \E b \in Buyers, p \in Products, n \in 0 .. MaxQty : EditCart(b, p, n)
         \/ \E p \in Products, n \in StockLevels : SetStock(p, n)
  PROVE  IInv'
<1>1. ASSUME NEW b \in Buyers, NEW p \in Products, NEW n \in 0 .. MaxQty, EditCart(b, p, n)
      PROVE  IInv'
  <2>1. TypeOK'
    BY <1>1, CheckoutAssumption DEF EditCart, Edit, IInv, TypeOK, Carts
  <2>2. UNCHANGED <<stock, lock, placed, items, pending, want, pc>>
    BY <1>1 DEF EditCart
  <2>3. QED
    BY <2>1, <2>2 DEF IInv, WantsPending, PendingInCart, LocksAreLive, UnplacedYet,
                      TakenIsCovered, Reservation, InCart
<1>2. ASSUME NEW p \in Products, NEW n \in StockLevels, SetStock(p, n)
      PROVE  IInv'
  <2>1. TypeOK'
    BY <1>2, CheckoutAssumption DEF SetStock, Edit, IInv, TypeOK
  <2>2. UNCHANGED <<lock, placed, items, pending, want, pc>>
    BY <1>2 DEF SetStock
  <2>3. WantsPending' /\ PendingInCart' /\ LocksAreLive' /\ UnplacedYet'
    BY <2>2 DEF IInv, WantsPending, PendingInCart, LocksAreLive, UnplacedYet, InCart
  <2>4. ASSUME NEW k \in Checkouts PROVE Reservation(k)'
    <3>1. Reservation(k)
      BY DEF IInv, TakenIsCovered
    <3>2. \A q \in Products : lock[q] = k => stock'[q] = stock[q]
      BY <1>2, CheckoutAssumption DEF SetStock, IInv, TypeOK
    <3>3. QED
      BY <2>2, <3>1, <3>2 DEF Reservation, InCart
  <2>5. QED
    BY <2>1, <2>3, <2>4 DEF IInv, TakenIsCovered
<1>3. QED
  BY <1>1, <1>2

\* Reading the cart and checking the stock keep the invariant.
LEMMA ReadsKeep ==
  ASSUME IInv, NEW k \in Checkouts, ReadCart(k) \/ CheckStock(k)
  PROVE  IInv'
<1>1. TypeOK'
  BY CheckoutAssumption DEF ReadCart, CheckStock, IInv, TypeOK, Pcs, InCart
<1>2. UNCHANGED <<stock, lock, placed, want>> /\ pc[k] \in {"idle", "check"}
  BY DEF ReadCart, CheckStock
<1>3. \A j \in Checkouts : j # k => /\ pc'[j] = pc[j] /\ pending'[j] = pending[j]
                                    /\ items'[j] = items[j]
  BY DEF ReadCart, CheckStock, IInv, TypeOK
<1>4. WantsPending'
  BY <1>2, <1>3 DEF IInv, WantsPending
<1>5. PendingInCart'
  <2>1. pc'[k] = "take" => pending'[k] = InCart(items'[k])
    BY DEF ReadCart, CheckStock, IInv, TypeOK, InCart
  <2>2. QED
    BY <1>3, <2>1 DEF IInv, PendingInCart, InCart
<1>6. LocksAreLive'
  <2>1. \A p \in Products : lock[p] # k
    BY <1>2, CheckoutAssumption DEF IInv, LocksAreLive
  <2>2. QED
    BY <1>2, <1>3, <2>1 DEF IInv, LocksAreLive, TypeOK
<1>7. UnplacedYet'
  BY <1>2, <1>3 DEF IInv, UnplacedYet
<1>8. ASSUME NEW j \in Checkouts PROVE Reservation(j)'
  <2>1. Reservation(j)
    BY DEF IInv, TakenIsCovered
  <2>2. CASE j # k
    BY <1>2, <1>3, <2>1, <2>2 DEF Reservation, InCart
  <2>3. CASE j = k
    <3>1. \A p \in Products : lock'[p] # k
      BY <1>2, CheckoutAssumption DEF IInv, LocksAreLive
    <3>2. pc'[k] = "take" => pending'[k] = InCart(items'[k])
      BY DEF ReadCart, CheckStock, IInv, TypeOK, InCart
    <3>3. QED
      BY <2>3, <3>1, <3>2 DEF Reservation, InCart
  <2>4. QED
    BY <2>2, <2>3
<1>9. QED
  BY <1>1, <1>4, <1>5, <1>6, <1>7, <1>8 DEF IInv, TakenIsCovered

\* Sending a decrement keeps the invariant.
LEMMA WantKeeps ==
  ASSUME IInv, NEW k \in Checkouts, NEW p \in Products, Want(k, p)
  PROVE  IInv'
<1>1. TypeOK'
  BY DEF Want, IInv, TypeOK
<1>2. UNCHANGED <<stock, lock, placed, items, pending, pc>>
  BY DEF Want
<1>3. WantsPending'
  BY <1>2 DEF Want, IInv, TypeOK, WantsPending
<1>4. QED
  BY <1>1, <1>2, <1>3 DEF IInv, PendingInCart, LocksAreLive, UnplacedYet, TakenIsCovered,
                          Reservation, InCart

\* Having the row keeps the invariant: it was free, and holds enough.
LEMMA TakeKeeps ==
  ASSUME IInv, NEW k \in Checkouts, Take(k)
  PROVE  IInv'
<1> DEFINE p == want[k]
<1>1. p \in Products /\ lock[p] = Free /\ items[k][p] <= stock[p]
  BY DEF Take, Enough
<1>2. pc[k] = "take" /\ p \in pending[k]
  BY <1>1 DEF IInv, WantsPending
<1>3. UNCHANGED <<stock, placed, items, pc>>
  BY DEF Take
<1>4. TypeOK'
  BY <1>1 DEF Take, IInv, TypeOK
<1>5. \A q \in Products : lock'[q] = IF q = p THEN k ELSE lock[q]
  BY DEF Take, IInv, TypeOK
<1>6. \A j \in Checkouts : /\ pending'[j] = IF j = k THEN pending[j] \ {p} ELSE pending[j]
                           /\ want'[j] = IF j = k THEN NoProduct ELSE want[j]
  BY DEF Take, IInv, TypeOK
<1>7. WantsPending'
  BY <1>3, <1>6, CheckoutAssumption DEF IInv, WantsPending
<1>8. PendingInCart' /\ LocksAreLive' /\ UnplacedYet'
  BY <1>2, <1>3, <1>5, <1>6 DEF IInv, PendingInCart, LocksAreLive, UnplacedYet, InCart
<1>9. ASSUME NEW j \in Checkouts PROVE Reservation(j)'
  <2>1. Reservation(j) /\ Reservation(k)
    BY DEF IInv, TakenIsCovered
  <2>2. CASE j = k
    <3>1. p \in InCart(items[k])
      BY <1>2 DEF IInv, PendingInCart
    <3>2. pending'[k] = pending[k] \ {p} /\ InCart(items'[k]) = InCart(items[k])
      BY <1>3, <1>6
    <3>3. ASSUME NEW q \in Products
          PROVE  /\ lock'[q] = k <=> q \in InCart(items[k]) \ pending'[k]
                 /\ lock'[q] = k => items[k][q] <= stock[q]
      <4>1. CASE q = p
        BY <1>1, <1>5, <3>1, <3>2, <4>1
      <4>2. CASE q # p
        BY <1>2, <1>5, <2>1, <3>2, <4>2 DEF Reservation
      <4>3. QED
        BY <4>1, <4>2
    <3>4. QED
      BY <1>3, <2>2, <3>2, <3>3 DEF Reservation
  <2>3. CASE j # k
    BY <1>1, <1>3, <1>5, <1>6, <2>1, <2>3, CheckoutAssumption DEF Reservation, InCart
  <2>4. QED
    BY <2>2, <2>3
<1>10. QED
  BY <1>4, <1>7, <1>8, <1>9 DEF IInv, TakenIsCovered

\* Committing keeps the invariant: all of the order is taken, so nothing goes
\* below zero, and the rows of the others are not touched.
LEMMA CommitKeeps ==
  ASSUME IInv, NEW k \in Checkouts, Commit(k)
  PROVE  IInv'
<1>1. pc[k] = "take" /\ pending[k] = {} /\ Reservation(k)
  BY DEF Commit, IInv, TakenIsCovered
<1>2. UNCHANGED <<items, pending, want>> /\ lock' = Unlocked(k) /\ stock' = Decremented(k)
  BY DEF Commit
<1>3. /\ pc'[k] \in {"clear", "done"}
      /\ \A j \in Checkouts : j # k => pc'[j] = pc[j] /\ placed'[j] = placed[j]
  BY DEF Commit, IInv, TypeOK
<1>4. TypeOK'
  <2>1. stock' \in [Products -> Nat]
    <3>1. ASSUME NEW p \in Products, lock[p] = k PROVE stock[p] - items[k][p] \in Nat
      BY <1>1, <3>1, CheckoutAssumption DEF Reservation, IInv, TypeOK, Carts
    <3>2. QED
      BY <1>2, <3>1 DEF Decremented, IInv, TypeOK
  <2>2. lock' \in [Products -> Checkouts \cup {Free}]
    BY <1>2 DEF Unlocked, IInv, TypeOK
  <2>3. carts' \in [Buyers -> Carts] /\ placed' \in [Checkouts -> Carts]
    BY NothingIsACart DEF Commit, IInv, TypeOK
  <2>4. pc' \in [Checkouts -> Pcs]
    BY DEF Commit, IInv, TypeOK, Pcs
  <2>5. QED
    BY <1>2, <2>1, <2>2, <2>3, <2>4 DEF Commit, IInv, TypeOK
<1>5. \A p \in Products : lock'[p] = IF lock[p] = k THEN Free ELSE lock[p]
  BY <1>2 DEF Unlocked
<1>6. WantsPending'
  BY <1>1, <1>2, <1>3 DEF IInv, WantsPending
<1>7. PendingInCart' /\ LocksAreLive' /\ UnplacedYet'
  BY <1>2, <1>3, <1>5 DEF IInv, PendingInCart, LocksAreLive, UnplacedYet, TypeOK, InCart
<1>8. ASSUME NEW j \in Checkouts PROVE Reservation(j)'
  <2>1. CASE j = k
    BY <1>3, <2>1 DEF Reservation
  <2>2. CASE j # k
    <3>1. Reservation(j)
      BY DEF IInv, TakenIsCovered
    <3>2. \A p \in Products : lock'[p] = j <=> lock[p] = j
      BY <1>5, <2>2, CheckoutAssumption
    <3>3. \A p \in Products : lock[p] = j => stock'[p] = stock[p]
      BY <1>2, <2>2 DEF Decremented
    <3>4. QED
      BY <1>2, <1>3, <2>2, <3>1, <3>2, <3>3 DEF Reservation, InCart
  <2>3. QED
    BY <2>1, <2>2
<1>9. QED
  BY <1>4, <1>6, <1>7, <1>8 DEF IInv, TakenIsCovered

\* Clearing the guest's cart, or failing to, keeps the invariant.
LEMMA ClearKeeps ==
  ASSUME IInv, NEW k \in Checkouts, ClearGuestCart(k) \/ ClearFails(k)
  PROVE  IInv'
<1>1. TypeOK'
  BY NothingIsACart DEF ClearGuestCart, ClearFails, IInv, TypeOK, Pcs
<1>2. UNCHANGED <<stock, lock, placed, items, pending, want>> /\ pc[k] = "clear"
  BY DEF ClearGuestCart, ClearFails
<1>3. pc'[k] \in {"done", "refused"} /\ \A j \in Checkouts : j # k => pc'[j] = pc[j]
  BY DEF ClearGuestCart, ClearFails, IInv, TypeOK
<1>4. WantsPending' /\ PendingInCart' /\ LocksAreLive' /\ UnplacedYet'
  BY <1>2, <1>3 DEF IInv, WantsPending, PendingInCart, LocksAreLive, UnplacedYet, TypeOK, InCart
<1>5. TakenIsCovered'
  BY <1>2, <1>3 DEF IInv, TakenIsCovered, Reservation, InCart
<1>6. QED
  BY <1>1, <1>4, <1>5 DEF IInv

\* Every step keeps the invariant.
LEMMA Stepwise == IInv /\ [Next]_vars => IInv'
<1> SUFFICES ASSUME IInv, [Next]_vars PROVE IInv'
  OBVIOUS
<1>1. CASE UNCHANGED vars
  BY <1>1 DEF vars, IInv, TypeOK, WantsPending, PendingInCart, LocksAreLive, UnplacedYet,
              TakenIsCovered, Reservation, InCart
<1>2. CASE \/ \E b \in Buyers, p \in Products, n \in 0 .. MaxQty : EditCart(b, p, n)
           \/ \E p \in Products, n \in StockLevels : SetStock(p, n)
  BY <1>2, EditsKeep
<1>3. ASSUME NEW k \in Checkouts, NEW p \in Products, Want(k, p) PROVE IInv'
  BY <1>3, WantKeeps
<1>4. ASSUME NEW k \in Checkouts, ReadCart(k) \/ CheckStock(k) PROVE IInv'
  BY <1>4, ReadsKeep
<1>5. ASSUME NEW k \in Checkouts, Take(k) PROVE IInv'
  BY <1>5, TakeKeeps
<1>6. ASSUME NEW k \in Checkouts, Oversold(k) \/ Abort(k) \/ BreakDeadlock(k) PROVE IInv'
  BY <1>6, RollBackKeeps DEF Oversold, Abort, BreakDeadlock
<1>7. ASSUME NEW k \in Checkouts, Commit(k) PROVE IInv'
  BY <1>7, CommitKeeps
<1>8. ASSUME NEW k \in Checkouts, ClearGuestCart(k) \/ ClearFails(k) PROVE IInv'
  BY <1>8, ClearKeeps
<1>9. QED
  BY <1>1, <1>2, <1>3, <1>4, <1>5, <1>6, <1>7, <1>8 DEF Next

\* The invariant is inductive.
LEMMA Invariance == Spec => []IInv
BY Initially, Stepwise, PTL DEF Spec

\* The committed stock is never negative, whatever the interleaving, though no
\* statement of the transaction holds a lock between the check and the decrement.
THEOREM TypeCorrect == Spec => []TypeOK
<1>1. IInv => TypeOK
  BY DEF IInv
<1>2. QED
  BY <1>1, Invariance, PTL

\* A decrement once done is never invalidated before its transaction commits.
THEOREM TakenStaysCovered == Spec => []TakenIsCovered
<1>1. IInv => TakenIsCovered
  BY DEF IInv
<1>2. QED
  BY <1>1, Invariance, PTL

\* A commit reserves all of the order in one step, and only units that are there.
LEMMA CommitReserves ==
  ASSUME IInv, NEW k \in Checkouts, Commit(k)
  PROVE  Promise!Reserve(k, items[k])
<1>1. pc[k] = "take" /\ pending[k] = {} /\ Reservation(k) /\ placed[k] = Nothing
  BY DEF Commit, IInv, TakenIsCovered, UnplacedYet
<1>2. \A p \in Products : items[k][p] \in Nat /\ stock[p] \in Nat
  BY CheckoutAssumption DEF IInv, TypeOK, Carts
<1>3. \A p \in Products : lock[p] = k <=> items[k][p] > 0
  BY <1>1 DEF Reservation, InCart
<1>4. \A p \in Products : items[k][p] <= stock[p]
  BY <1>1, <1>2, <1>3 DEF Reservation
<1>5. stock' = [p \in Products |-> stock[p] - items[k][p]]
  BY <1>2, <1>3 DEF Commit, Decremented
<1>6. QED
  BY <1>1, <1>4, <1>5 DEF Commit, Promise!Reserve, Promise!Nothing, Nothing

\* The checkout transaction implements Inventory: each step is an indivisible
\* reservation, an edit of the stock by the staff, or leaves both alone.
THEOREM CheckoutImplementsInventory == Spec => ReservesAtomically
<1>1. Init => Promise!Init
  BY DEF Init, Promise!Init, Promise!Nothing, Nothing
<1>2. ASSUME IInv, [Next]_vars PROVE [Promise!Next]_<<stock, placed>>
  <2>1. CASE UNCHANGED vars
    BY <2>1 DEF vars
  <2>2. ASSUME NEW p \in Products, NEW n \in StockLevels, SetStock(p, n)
        PROVE  Promise!Next
    BY <2>2 DEF SetStock, Promise!Next, Promise!SetStock
  <2>3. ASSUME NEW k \in Checkouts, Commit(k) PROVE Promise!Next
    <3>1. items[k] \in Carts
      BY <1>2 DEF IInv, TypeOK
    <3>2. QED
      BY <1>2, <2>3, <3>1, CommitReserves DEF Promise!Next
  <2>4. ASSUME NEW b \in Buyers, NEW p \in Products, NEW n \in 0 .. MaxQty, EditCart(b, p, n)
        PROVE  UNCHANGED <<stock, placed>>
    BY <2>4 DEF EditCart
  <2>5. ASSUME NEW k \in Checkouts,
               \/ \E p \in Products : Want(k, p)
               \/ ReadCart(k) \/ CheckStock(k) \/ Take(k) \/ Oversold(k)
               \/ ClearGuestCart(k) \/ Abort(k) \/ ClearFails(k) \/ BreakDeadlock(k)
        PROVE  UNCHANGED <<stock, placed>>
    BY <2>5 DEF Want, ReadCart, CheckStock, Take, Oversold, ClearGuestCart, Abort,
                ClearFails, BreakDeadlock, RollBack
  <2>6. QED
    BY <1>2, <2>1, <2>2, <2>3, <2>4, <2>5 DEF Next
<1>3. QED
  BY <1>1, <1>2, Invariance, PTL DEF Spec, ReservesAtomically, Promise!Spec

\* Who gets past the empty cart has something to order, and who has still to clear
\* the cart has ordered it.
OrdersSomething ==
  \A k \in Checkouts : /\ pc[k] \in {"check", "take"} => items[k] # Nothing
                       /\ pc[k] = "clear" => placed[k] # Nothing

\* That too is kept by every step.
LEMMA StillSomething == IInv /\ OrdersSomething /\ [Next]_vars => OrdersSomething'
<1> SUFFICES ASSUME IInv, OrdersSomething, [Next]_vars PROVE OrdersSomething'
  OBVIOUS
<1> USE DEF IInv, TypeOK, OrdersSomething
<1>1. CASE UNCHANGED vars
  BY <1>1 DEF vars
<1>2. CASE \/ \E b \in Buyers, p \in Products, n \in 0 .. MaxQty : EditCart(b, p, n)
           \/ \E p \in Products, n \in StockLevels : SetStock(p, n)
           \/ \E k \in Checkouts, p \in Products : Want(k, p)
           \/ \E k \in Checkouts : Take(k)
  <2>1. UNCHANGED <<placed, items, pc>>
    BY <1>2 DEF EditCart, SetStock, Want, Take
  <2>2. QED
    BY <2>1
<1>3. ASSUME NEW k \in Checkouts, ReadCart(k) PROVE OrdersSomething'
  BY <1>3 DEF ReadCart
<1>4. ASSUME NEW k \in Checkouts, CheckStock(k) PROVE OrdersSomething'
  BY <1>4 DEF CheckStock
<1>5. ASSUME NEW k \in Checkouts, Oversold(k) \/ Abort(k) \/ BreakDeadlock(k)
      PROVE  OrdersSomething'
  BY <1>5 DEF Oversold, Abort, BreakDeadlock, RollBack
<1>6. ASSUME NEW k \in Checkouts, Commit(k) PROVE OrdersSomething'
  BY <1>6 DEF Commit
<1>7. ASSUME NEW k \in Checkouts, ClearGuestCart(k) \/ ClearFails(k) PROVE OrdersSomething'
  BY <1>7 DEF ClearGuestCart, ClearFails
<1>8. QED
  BY <1>1, <1>2, <1>3, <1>4, <1>5, <1>6, <1>7 DEF Next

\* A cart that no edit changed was emptied by the one order it became: a checkout
\* that is refused, undone or caught in a deadlock leaves it as it was.
THEOREM CartsOutliveRefusals == Spec => CartOutlivesRefusal
<1>1. Init => OrdersSomething
  BY DEF Init, OrdersSomething
<1>2. ASSUME IInv, OrdersSomething, [Next]_vars
      PROVE  [\A b \in Buyers : carts'[b] # carts[b] /\ edits' = edits
                => \E k \in Checkouts : Buyer[k] = b /\ placed'[k] # Nothing /\ pc[k] # "done"]_vars
  <2> SUFFICES ASSUME NEW b \in Buyers, carts'[b] # carts[b], edits' = edits
               PROVE  \E k \in Checkouts : Buyer[k] = b /\ placed'[k] # Nothing /\ pc[k] # "done"
    OBVIOUS
  <2>1. PICK k \in Checkouts : Commit(k) \/ ClearGuestCart(k)
    <3>1. edits \in Nat
      BY <1>2, CheckoutAssumption DEF IInv, TypeOK
    <3>2. QED
      BY <1>2, <3>1 DEF Next, vars, EditCart, SetStock, Edit, Want, ReadCart, CheckStock, Take,
                        Oversold, Abort, ClearFails, BreakDeadlock, RollBack
  <2>2. Buyer[k] = b
    BY <1>2, <2>1 DEF Commit, ClearGuestCart, IInv, TypeOK
  <2>3. placed'[k] # Nothing /\ pc[k] # "done"
    BY <1>2, <2>1 DEF Commit, ClearGuestCart, OrdersSomething, IInv, TypeOK
  <2>4. QED
    BY <2>2, <2>3
<1>3. QED
  BY <1>1, <1>2, StillSomething, Initially, Invariance, PTL DEF Spec, CartOutlivesRefusal
=============================================================================
