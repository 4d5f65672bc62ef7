----------------------------- MODULE Inventory -----------------------------
(***************************************************************************)
(* What the shop promises of its stock: an order takes all of its units in *)
(* one indivisible step, and only units that are there.  The staff may set *)
(* a product's stock to any quantity at any time.                          *)
(***************************************************************************)
EXTENDS Naturals

CONSTANTS
  Checkouts, Products, InitialStock,
  Bundles,       \* the orders there may be: units of each product
  StockLevels    \* the quantities staff set

VARIABLES
  stock,         \* units on the shelf
  reserved       \* reserved[k]: the units of the order placed by checkout k

Nothing == [p \in Products |-> 0]

Init ==
  /\ stock = InitialStock
  /\ reserved = [k \in Checkouts |-> Nothing]

Reserve(k, items) ==
  /\ reserved[k] = Nothing
  /\ \A p \in Products : items[p] <= stock[p]
  /\ stock' = [p \in Products |-> stock[p] - items[p]]
  /\ reserved' = [reserved EXCEPT ![k] = items]

SetStock(p, n) ==
  /\ stock' = [stock EXCEPT ![p] = n]
  /\ UNCHANGED reserved

Next ==
  \/ \E k \in Checkouts, items \in Bundles : Reserve(k, items)
  \/ \E p \in Products, n \in StockLevels : SetStock(p, n)

Spec == Init /\ [][Next]_<<stock, reserved>>
=============================================================================
