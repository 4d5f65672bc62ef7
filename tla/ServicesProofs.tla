--------------------------- MODULE ServicesProofs ---------------------------
(***************************************************************************)
(* The services: the carts, the second factor, the accounts and the bucket *)
(* that guards them all, one part per component; and, at the end, what     *)
(* holds of the services together, in the one specification that their run *)
(* explores.                                                               *)
(***************************************************************************)
EXTENDS MCServices, CatalogProofs, FiniteSetTheorems, TLAPS

-----------------------------------------------------------------------------
(* Carts: for every number of calls, products and units in stock.            *)

\* The statements that each kind of call comes to, and what a call holds by then: a cart
\* of the account, a product, and units that the stock was checked against.
KindFits(t, at) ==
  /\ at \notin CartEnded => t \in CartTasks
  /\ at = "product" => t.kind \in {"add", "update"}
  /\ at = "find" => t.kind \in {"add", "update", "remove", "merge"} /\ t.owner = "account"
  /\ at = "create" => t.kind \in {"add", "merge"} /\ t.owner = "account"
  /\ at = "line" => t.kind \in {"add", "update", "merge"} /\ t.owner = "account"
  /\ at = "write" => t.kind \in {"add", "update", "remove", "merge"} /\ t.owner = "account"
  /\ at = "next" => t.kind = "merge"
  /\ at = "read" => t.kind = "merge" \/ (t.kind \in {"add", "update", "remove", "order"} /\ t.owner = "guest")
  /\ at = "writeGuest" => t.kind \in {"add", "update", "remove"} /\ t.owner = "guest"
  /\ at = "clear" => t.kind \in {"merge", "order"}

FrameFits(t, at, f, cs) ==
  /\ at \in {"line", "write", "next"} => f.cart \in cs
  /\ at \in {"line", "write"} /\ t.kind # "remove" =>
       f.product \in CartProducts /\ f.stock <= Shelf[f.product]
  /\ at \in {"find", "create", "line", "write", "read", "writeGuest"} /\ t.kind \in {"add", "update"} =>
       f.product = t.product /\ t.units <= f.stock /\ f.stock <= Shelf[t.product]
  /\ at = "write" /\ t.kind = "add" => f.line.units + t.units <= f.stock
  /\ at = "writeGuest" /\ t.kind = "add" => f.items[t.product] + t.units <= f.stock
  /\ \A p \in CartProducts : f.items[p] <= Shelf[p]

\* Of what is on the shelf, and of a cart that is not there yet.
StoreFits ==
  /\ \A p \in CartProducts : shelf[p] <= Shelf[p] /\ guestCart[p] <= Shelf[p]
  /\ \A c \in CartCalls, p \in CartProducts : lines[c][p].units <= Shelf[p]
  /\ \A c \in CartCalls \ carts, p \in CartProducts : lines[c][p] = NoLine

CallsFit ==
  \A r \in CartCalls :
    /\ KindFits(cartTask[r], cartAt[r])
    /\ FrameFits(cartTask[r], cartAt[r], cartFrame[r], carts)

CartsInv == CartsTypeOK /\ StoreFits /\ CallsFit

LEMMA CartTaskFields ==
  ASSUME NEW t \in CartTasks
  PROVE  /\ t.owner \in CartOwners /\ t.units \in Nat
         /\ t.kind \in {"get", "add", "update", "remove", "merge", "order"}
         /\ t.kind \in {"add", "update", "remove"} => t.product \in CartProducts
         /\ t.kind = "remove" => t.units = 0
         /\ t.kind = "merge" => t.owner = "account"
         /\ t.kind = "order" => t.owner = "guest"
         /\ t.kind \in {"add", "update"} => t.units > 0
  BY CartsAssumption DEF CartTasks, CartOwners, AskedUnits

LEMMA InitCartsInv == CartsInit => CartsInv
  <1> SUFFICES ASSUME CartsInit PROVE CartsInv
    OBVIOUS
  <1> USE CartsAssumption DEF CartsInit, NoCartFrame, NoLine, EmptyCart, CartEnded
  <1>1. CartsTypeOK
    BY DEF CartsTypeOK, CartRows, CartFrames, CartSteps
  <1>2. StoreFits
    BY DEF StoreFits
  <1>3. CallsFit
    BY DEF CallsFit, KindFits, FrameFits
  <1> QED BY <1>1, <1>2, <1>3 DEF CartsInv

\* A call goes to its next statement, or stops.
LEMMA GoesOn ==
  ASSUME CartsTypeOK, NEW r \in CartCalls, NEW f \in CartFrames, NEW step \in CartSteps,
         CartGoWith(r, f, step)
  PROVE  /\ cartAt' \in [CartCalls -> CartSteps] /\ cartFrame' \in [CartCalls -> CartFrames]
         /\ cartAt'[r] = step
         /\ cartFrame'[r] = IF step \in CartEnded THEN NoCartFrame ELSE f
         /\ \A q \in CartCalls \ {r} : cartAt'[q] = cartAt[q] /\ cartFrame'[q] = cartFrame[q]
  <1>1. NoCartFrame \in CartFrames
    BY DEF NoCartFrame, CartFrames, CartRows, NoLine, EmptyCart
  <1> QED BY <1>1 DEF CartGoWith, CartsTypeOK

LEMMA GoFits ==
  ASSUME CartsInv, NEW r \in CartCalls, NEW f \in CartFrames, NEW step \in CartSteps,
         CartGoWith(r, f, step), cartTask' = cartTask, carts \subseteq carts',
         step \in CartEnded \/ (KindFits(cartTask[r], step) /\ FrameFits(cartTask[r], step, f, carts'))
  PROVE  CallsFit'
  <1> SUFFICES ASSUME NEW q \in CartCalls
               PROVE  /\ KindFits(cartTask[q], cartAt'[q])
                      /\ FrameFits(cartTask[q], cartAt'[q], cartFrame'[q], carts')
    BY DEF CallsFit, KindFits, FrameFits
  <1>1. /\ cartAt'[r] = step
        /\ cartFrame'[r] = IF step \in CartEnded THEN NoCartFrame ELSE f
        /\ \A p \in CartCalls \ {r} : cartAt'[p] = cartAt[p] /\ cartFrame'[p] = cartFrame[p]
    BY GoesOn DEF CartsInv
  <1>2. CASE q # r
    <2>1. KindFits(cartTask[q], cartAt[q]) /\ FrameFits(cartTask[q], cartAt[q], cartFrame[q], carts)
      BY DEF CartsInv, CallsFit
    <2>2. FrameFits(cartTask[q], cartAt[q], cartFrame[q], carts')
      BY <2>1 DEF FrameFits
    <2> QED BY <1>1, <1>2, <2>1, <2>2
  <1>3. CASE q = r /\ step \in CartEnded
    <2>1. KindFits(cartTask[r], step)
      BY <1>3 DEF KindFits, CartEnded
    <2>2. FrameFits(cartTask[r], step, NoCartFrame, carts')
      BY <1>3, CartsAssumption DEF FrameFits, CartEnded, NoCartFrame, EmptyCart
    <2> QED BY <1>1, <1>3, <2>1, <2>2
  <1>4. CASE q = r /\ step \notin CartEnded
    BY <1>1, <1>4
  <1> QED BY <1>2, <1>3, <1>4

\* A statement that only reads.
LEMMA GoInv ==
  ASSUME CartsInv, NEW r \in CartCalls, NEW f \in CartFrames, NEW step \in CartSteps,
         CartGoWith(r, f, step), UNCHANGED <<cartStore, cartTask>>,
         step \in CartEnded \/ (KindFits(cartTask[r], step) /\ FrameFits(cartTask[r], step, f, carts))
  PROVE  CartsInv'
  <1> USE DEF CartsInv, cartStore
  <1>1. CartsTypeOK'
    BY GoesOn DEF CartsTypeOK
  <1>2. StoreFits'
    BY DEF StoreFits
  <1>3. CallsFit'
    BY GoFits
  <1> QED BY <1>1, <1>2, <1>3

-----------------------------------------------------------------------------
LEMMA FrameTypes ==
  ASSUME CartsInv, NEW r \in CartCalls
  PROVE  /\ cartFrame[r] \in CartFrames
         /\ KindFits(cartTask[r], cartAt[r]) /\ FrameFits(cartTask[r], cartAt[r], cartFrame[r], carts)
         /\ cartAt[r] \notin CartEnded => cartTask[r] \in CartTasks
         /\ EmptyCart \in [CartProducts -> Nat] /\ guestCart \in [CartProducts -> Nat]
         /\ \A p \in CartProducts : Shelf[p] \in Nat /\ shelf[p] \in Nat /\ shelf[p] <= Shelf[p]
  BY CartsAssumption DEF CartsInv, CartsTypeOK, CallsFit, KindFits, StoreFits, EmptyCart

LEMMA CartBeginsInv ==
  ASSUME CartsInv, NEW r \in CartCalls, NEW t \in CartTasks, CartBegins(r, t)
  PROVE  CartsInv'
  <1> USE DEF CartsInv
  <1> DEFINE step == CASE t.kind = "get" -> "answer"
                       [] t.kind \in {"add", "update"} -> "product"
                       [] t.kind = "remove" /\ t.owner = "account" -> "find"
                       [] OTHER -> "read"
  <1>1. CartGoWith(r, cartFrame[r], step) /\ cartTask' = [cartTask EXCEPT ![r] = t]
        /\ UNCHANGED cartStore /\ cartAt[r] = "idle"
    BY DEF CartBegins, CartGo
  <1>2. /\ step \in {"answer", "product", "find", "read"}
        /\ step = "product" => t.kind \in {"add", "update"}
        /\ step = "find" => t.kind = "remove" /\ t.owner = "account"
        /\ step = "read" => t.kind = "merge" \/ (t.kind \in {"remove", "order"} /\ t.owner = "guest")
    BY CartTaskFields DEF CartOwners
  <1> HIDE DEF step
  <1>3. step \in CartSteps /\ cartFrame[r] \in CartFrames /\ step \notin CartEnded
    BY <1>2 DEF CartSteps, CartEnded, CartsTypeOK
  <1>4. /\ cartAt' \in [CartCalls -> CartSteps] /\ cartFrame' \in [CartCalls -> CartFrames]
        /\ cartAt'[r] = step /\ cartFrame'[r] = cartFrame[r]
        /\ \A q \in CartCalls \ {r} : cartAt'[q] = cartAt[q] /\ cartFrame'[q] = cartFrame[q]
    BY <1>1, <1>3, GoesOn
  <1>5. CartsTypeOK'
    BY <1>1, <1>4 DEF CartsTypeOK, cartStore
  <1>6. StoreFits'
    BY <1>1 DEF StoreFits, cartStore
  <1>7. KindFits(t, step)
    BY <1>2 DEF KindFits
  <1>8. FrameFits(t, step, cartFrame[r], carts)
    BY <1>1, <1>2 DEF FrameFits, CallsFit
  <1>9. CallsFit'
    <2> SUFFICES ASSUME NEW q \in CartCalls
                 PROVE  /\ KindFits(cartTask'[q], cartAt'[q])
                        /\ FrameFits(cartTask'[q], cartAt'[q], cartFrame'[q], carts)
      BY <1>1 DEF CallsFit, KindFits, FrameFits, cartStore
    <2>1. CASE q = r
      BY <2>1, <1>1, <1>4, <1>7, <1>8 DEF CartsTypeOK
    <2>2. CASE q # r
      BY <2>2, <1>1, <1>4 DEF CallsFit, CartsTypeOK
    <2> QED BY <2>1, <2>2
  <1> QED BY <1>5, <1>6, <1>9

LEMMA ReadProductInv ==
  ASSUME CartsInv, NEW r \in CartCalls, ReadProduct(r)
  PROVE  CartsInv'
  <1> DEFINE t == cartTask[r]
             f == [cartFrame[r] EXCEPT !.stock = shelf[t.product], !.product = t.product]
             step == IF t.units > shelf[t.product] THEN "refused"
                     ELSE IF t.owner = "account" THEN "find" ELSE "read"
  <1>1. cartAt[r] = "product" /\ CartGoWith(r, f, step) /\ UNCHANGED <<cartStore, cartTask>>
    BY DEF ReadProduct
  <1>2. /\ t \in CartTasks /\ t.kind \in {"add", "update"} /\ t.product \in CartProducts
        /\ t.owner \in CartOwners /\ t.units \in Nat
    BY <1>1, FrameTypes, CartTaskFields DEF KindFits, CartEnded
  <1>3. /\ f \in CartFrames /\ f.product = t.product /\ f.stock = shelf[t.product]
        /\ f.items = cartFrame[r].items
    BY <1>2, FrameTypes DEF CartFrames
  <1>4. /\ step \in {"refused", "find", "read"}
        /\ step # "refused" => t.units <= shelf[t.product]
        /\ step = "find" => t.owner = "account"
        /\ step = "read" => t.owner = "guest"
    BY <1>2, FrameTypes DEF CartOwners
  <1> HIDE DEF step, f
  <1>5. step \in CartSteps
    BY <1>4 DEF CartSteps, CartEnded
  <1>6. step = "refused" \/ KindFits(t, step)
    BY <1>2, <1>4 DEF KindFits
  <1>7. step = "refused" \/ FrameFits(t, step, f, carts)
    BY <1>2, <1>3, <1>4, FrameTypes DEF FrameFits
  <1> QED BY <1>1, <1>3, <1>5, <1>6, <1>7, GoInv DEF CartEnded

LEMMA FindCartInv ==
  ASSUME CartsInv, NEW r \in CartCalls, FindCart(r)
  PROVE  CartsInv'
  <1> DEFINE t == cartTask[r]  f == cartFrame[r]
  <1>1. cartAt[r] = "find" /\ UNCHANGED <<cartStore, cartTask>>
    BY DEF FindCart
  <1>2. /\ t \in CartTasks /\ t.kind \in {"add", "update", "remove", "merge"} /\ t.owner = "account"
        /\ t.kind \in {"add", "update", "remove"} => t.product \in CartProducts
        /\ f \in CartFrames /\ FrameFits(t, "find", f, carts)
    BY <1>1, FrameTypes, CartTaskFields DEF KindFits, CartEnded
  <1>3. ASSUME CartGo(r, CASE t.kind \in {"add", "merge"} -> "create"
                           [] t.kind = "update" -> "refused"
                           [] t.kind = "remove" -> "answer")
        PROVE  CartsInv'
    <2> DEFINE step == CASE t.kind \in {"add", "merge"} -> "create"
                         [] t.kind = "update" -> "refused"
                         [] t.kind = "remove" -> "answer"
    <2>1. /\ step \in {"create", "refused", "answer"} /\ (step = "create" => t.kind \in {"add", "merge"})
      BY <1>2
    <2>2. CartGoWith(r, f, step)
      BY <1>3 DEF CartGo
    <2> HIDE DEF step
    <2>3. step \in CartSteps
      BY <2>1 DEF CartSteps, CartEnded
    <2>4. KindFits(t, step)
      BY <1>2, <2>1 DEF KindFits
    <2>5. FrameFits(t, step, f, carts)
      BY <1>2, <2>1 DEF FrameFits
    <2> QED BY <1>1, <1>2, <2>2, <2>3, <2>4, <2>5, GoInv
  <1>4. ASSUME NEW c \in carts,
               CartGoWith(r, [f EXCEPT !.cart = c],
                 CASE t.kind \in {"add", "update"} -> "line"
                   [] t.kind = "remove" -> "write"
                   [] t.kind = "merge" -> "next")
        PROVE  CartsInv'
    <2> DEFINE step == CASE t.kind \in {"add", "update"} -> "line"
                         [] t.kind = "remove" -> "write"
                         [] t.kind = "merge" -> "next"
               g == [f EXCEPT !.cart = c]
    <2>1. /\ step \in {"line", "write", "next"} /\ (step = "line" => t.kind \in {"add", "update"})
          /\ (step = "write" => t.kind = "remove") /\ (step = "next" => t.kind = "merge")
      BY <1>2
    <2>2. CartGoWith(r, g, step)
      BY <1>4
    <2>3. /\ g \in CartFrames /\ g.cart = c /\ g.product = f.product /\ g.stock = f.stock
          /\ g.items = f.items
      BY <1>2 DEF CartFrames, CartsInv, CartsTypeOK
    <2> HIDE DEF step, g
    <2>4. step \in CartSteps
      BY <2>1 DEF CartSteps, CartEnded
    <2>5. KindFits(t, step)
      BY <1>2, <2>1 DEF KindFits
    <2>6. FrameFits(t, step, g, carts)
      BY <1>2, <2>1, <2>3 DEF FrameFits
    <2> QED BY <1>1, <2>2, <2>3, <2>4, <2>5, <2>6, GoInv
  <1> QED BY <1>3, <1>4 DEF FindCart

LEMMA CreateCartInv ==
  ASSUME CartsInv, NEW r \in CartCalls, CreateCart(r)
  PROVE  CartsInv'
  <1> DEFINE t == cartTask[r]
             f == [cartFrame[r] EXCEPT !.cart = r]
             step == IF t.kind = "merge" THEN "next" ELSE "line"
  <1>1. /\ cartAt[r] = "create" /\ CartGoWith(r, f, step) /\ carts' = carts \cup {r}
        /\ UNCHANGED <<guestCart, lines, shelf, cartTask>>
    BY DEF CreateCart
  <1>2. /\ t \in CartTasks /\ t.kind \in {"add", "merge"} /\ t.owner = "account"
        /\ t.kind = "add" => t.product \in CartProducts
        /\ FrameFits(t, "create", cartFrame[r], carts)
    BY <1>1, FrameTypes, CartTaskFields DEF KindFits, CartEnded
  <1>3. /\ f \in CartFrames /\ f.cart = r /\ f.product = cartFrame[r].product
        /\ f.stock = cartFrame[r].stock /\ f.items = cartFrame[r].items
    BY FrameTypes DEF CartFrames
  <1>4. step \in {"next", "line"} /\ (step = "next" => t.kind = "merge") /\ (step = "line" => t.kind = "add")
    BY <1>2
  <1> HIDE DEF step, f
  <1>5. step \in CartSteps
    BY <1>4 DEF CartSteps, CartEnded
  <1>6. KindFits(t, step) /\ FrameFits(t, step, f, carts')
    <2>1. KindFits(t, step)
      BY <1>2, <1>4 DEF KindFits
    <2>2. FrameFits(t, step, f, carts')
      BY <1>1, <1>2, <1>3, <1>4 DEF FrameFits
    <2> QED BY <2>1, <2>2
  <1>7. CallsFit'
    BY <1>1, <1>3, <1>5, <1>6, GoFits
  <1>8. CartsTypeOK'
    BY <1>1, <1>3, <1>5, GoesOn DEF CartsInv, CartsTypeOK
  <1>9. StoreFits'
    BY <1>1 DEF CartsInv, StoreFits
  <1> QED BY <1>7, <1>8, <1>9 DEF CartsInv

LEMMA ReadLineInv ==
  ASSUME CartsInv, NEW r \in CartCalls, ReadLine(r)
  PROVE  CartsInv'
  <1> DEFINE t == cartTask[r]
             line == lines[cartFrame[r].cart][cartFrame[r].product]
             f == [cartFrame[r] EXCEPT !.line = line]
             refused == \/ t.kind = "add" /\ TooMany(r, line.units)
                        \/ t.kind = "update" /\ line = NoLine
             step == IF refused THEN "refused" ELSE "write"
  <1>1. cartAt[r] = "line" /\ CartGoWith(r, f, step) /\ UNCHANGED <<cartStore, cartTask>>
    BY DEF ReadLine
  <1>2. /\ t \in CartTasks /\ t.kind \in {"add", "update", "merge"} /\ t.owner = "account"
        /\ t.kind \in {"add", "update"} => t.product \in CartProducts
        /\ t.units \in Nat /\ cartFrame[r] \in CartFrames
        /\ FrameFits(t, "line", cartFrame[r], carts)
    BY <1>1, FrameTypes, CartTaskFields DEF KindFits, CartEnded
  <1>3. cartFrame[r].cart \in carts /\ cartFrame[r].cart \in CartCalls /\ cartFrame[r].product \in CartProducts
    BY <1>2 DEF FrameFits, CartsInv, CartsTypeOK
  <1>4. line \in CartRows /\ line.units \in Nat
    BY <1>3 DEF CartsInv, CartsTypeOK, CartRows
  <1>5. /\ f \in CartFrames /\ f.cart = cartFrame[r].cart /\ f.product = cartFrame[r].product
        /\ f.stock = cartFrame[r].stock /\ f.items = cartFrame[r].items /\ f.line = line
    BY <1>2, <1>4 DEF CartFrames
  <1>6. step = "write" /\ t.kind = "add" => line.units + t.units <= cartFrame[r].stock
    BY <1>2, <1>4 DEF TooMany, CartFrames
  <1>7. step \in {"refused", "write"} /\ step \in CartSteps
    BY DEF CartSteps, CartEnded
  <1> HIDE DEF step, f, line
  <1>8. step = "refused" \/ KindFits(t, step)
    BY <1>2, <1>7 DEF KindFits
  <1>9. step = "refused" \/ FrameFits(t, step, f, carts)
    BY <1>2, <1>5, <1>6, <1>7 DEF FrameFits
  <1> QED BY <1>1, <1>5, <1>7, <1>8, <1>9, GoInv DEF CartEnded

\* What is written to a line is in stock.
LEMMA NewUnitsInStock ==
  ASSUME CartsInv, NEW r \in CartCalls, cartAt[r] = "write", cartTask[r].kind # "remove"
  PROVE  /\ NewUnits(r) \in Nat /\ NewUnits(r) <= Shelf[cartFrame[r].product]
         /\ cartFrame[r].cart \in carts /\ cartFrame[r].cart \in CartCalls
         /\ cartFrame[r].product \in CartProducts
         /\ cartTask[r].kind \in {"add", "update", "merge"} /\ cartTask[r].owner = "account"
  <1> DEFINE t == cartTask[r]  f == cartFrame[r]
  <1>1. /\ t \in CartTasks /\ t.kind \in {"add", "update", "merge"} /\ t.owner = "account"
        /\ t.units \in Nat /\ f \in CartFrames /\ FrameFits(t, "write", f, carts)
    BY FrameTypes, CartTaskFields DEF KindFits, CartEnded
  <1>2. /\ f.cart \in carts /\ f.product \in CartProducts /\ f.stock <= Shelf[f.product]
        /\ f.stock \in Nat /\ f.line.units \in Nat /\ f.items[f.product] \in Nat
        /\ Shelf[f.product] \in Nat
    BY <1>1, FrameTypes DEF FrameFits, CartFrames, CartRows
  <1>3. t.kind = "add" => NewUnits(r) \in Nat /\ NewUnits(r) <= Shelf[f.product]
    BY <1>1, <1>2 DEF FrameFits, NewUnits
  <1>4. t.kind = "update" => NewUnits(r) \in Nat /\ NewUnits(r) <= Shelf[f.product]
    BY <1>1, <1>2 DEF FrameFits, NewUnits
  <1>5. t.kind = "merge" => NewUnits(r) \in Nat /\ NewUnits(r) <= Shelf[f.product]
    <2>1. MergedUnits(r) \in Nat /\ MergedUnits(r) <= f.stock
      BY <1>2 DEF MergedUnits, Smaller
    <2>2. t.kind = "merge" => NewUnits(r) = MergedUnits(r)
      BY DEF NewUnits
    <2> QED BY <1>2, <2>1, <2>2
  <1>6. f.cart \in CartCalls
    BY <1>2 DEF CartsInv, CartsTypeOK
  <1> QED BY <1>1, <1>2, <1>3, <1>4, <1>5, <1>6

LEMMA WriteLineInv ==
  ASSUME CartsInv, NEW r \in CartCalls, WriteLine(r)
  PROVE  CartsInv'
  <1> DEFINE t == cartTask[r]  c == cartFrame[r].cart  p == cartFrame[r].product
             new == [units |-> NewUnits(r), row |-> IF lines[c][p] = NoLine THEN r ELSE lines[c][p].row]
             done == [[cartFrame[r] EXCEPT !.items[p] = 0] EXCEPT !.line = NoLine]
             f == IF t.kind = "merge" THEN done ELSE cartFrame[r]
             step == IF t.kind = "merge" THEN "next" ELSE "answer"
  <1>1. /\ cartAt[r] = "write" /\ t.kind # "remove" /\ UNCHANGED <<guestCart, carts, shelf, cartTask>>
        /\ lines' = [lines EXCEPT ![c][p] = new]
        /\ CartGoWith(r, f, step)
    BY DEF WriteLine, CartGo
  <1>2. /\ NewUnits(r) \in Nat /\ NewUnits(r) <= Shelf[p] /\ c \in carts /\ c \in CartCalls
        /\ p \in CartProducts /\ t.kind \in {"add", "update", "merge"}
    BY <1>1, NewUnitsInStock
  <1>3. lines[c] \in [CartProducts -> CartRows] /\ lines[c][p] \in CartRows
    BY <1>2 DEF CartsInv, CartsTypeOK
  <1>4. new \in CartRows /\ new.units = NewUnits(r)
    BY <1>2, <1>3 DEF CartRows
  <1> HIDE DEF new
  <1>5. /\ lines' \in [CartCalls -> [CartProducts -> CartRows]]
        /\ \A d \in CartCalls, q \in CartProducts :
             lines'[d][q] = IF d = c /\ q = p THEN new ELSE lines[d][q]
    BY <1>1, <1>2, <1>4 DEF CartsInv, CartsTypeOK
  <1>6. /\ done \in CartFrames /\ done.cart = c
        /\ \A q \in CartProducts : done.items[q] = IF q = p THEN 0 ELSE cartFrame[r].items[q]
    BY <1>2, FrameTypes DEF CartFrames, CartRows, NoLine
  <1>7. \A q \in CartProducts : done.items[q] <= Shelf[q]
    BY <1>6, FrameTypes DEF FrameFits
  <1> HIDE DEF done
  <1>8. f \in CartFrames
    BY <1>6, FrameTypes
  <1>9. step \in {"next", "answer"} /\ (step = "next" => t.kind = "merge" /\ f = done)
        /\ (step = "answer" => f = cartFrame[r]) /\ step \in CartSteps
    BY DEF CartSteps, CartEnded
  <1> HIDE DEF f, step
  <1>10. KindFits(t, step) /\ FrameFits(t, step, f, carts)
    <2>1. KindFits(t, step)
      BY <1>1, <1>9, FrameTypes DEF KindFits, CartEnded
    <2>2. \A q \in CartProducts : f.items[q] <= Shelf[q]
      BY <1>7, <1>9, FrameTypes DEF FrameFits
    <2>3. FrameFits(t, step, f, carts)
      BY <1>2, <1>6, <1>9, <2>2 DEF FrameFits
    <2> QED BY <2>1, <2>3
  <1>11. CallsFit'
    BY <1>1, <1>8, <1>9, <1>10, GoFits
  <1>12. CartsTypeOK'
    BY <1>1, <1>5, <1>8, <1>9, GoesOn DEF CartsInv, CartsTypeOK
  <1>13. StoreFits'
    BY <1>1, <1>2, <1>4, <1>5 DEF CartsInv, StoreFits
  <1> QED BY <1>11, <1>12, <1>13 DEF CartsInv

LEMMA FailsInv ==
  ASSUME CartsInv, NEW r \in CartCalls, CartGo(r, "failed"), UNCHANGED <<cartStore, cartTask>>
  PROVE  CartsInv'
  <1>1. "failed" \in CartSteps /\ "failed" \in CartEnded
    BY DEF CartSteps, CartEnded
  <1> QED BY <1>1, FrameTypes, GoInv DEF CartGo

LEMMA DeleteLineInv ==
  ASSUME CartsInv, NEW r \in CartCalls, DeleteLine(r)
  PROVE  CartsInv'
  <1> DEFINE t == cartTask[r]  c == cartFrame[r].cart  p == t.product
  <1>1. /\ cartAt[r] = "write" /\ t.kind = "remove" /\ UNCHANGED <<guestCart, carts, shelf, cartTask>>
        /\ lines' = [lines EXCEPT ![c][p] = NoLine]
        /\ CartGoWith(r, cartFrame[r], "answer")
    BY DEF DeleteLine, CartGo
  <1>2. /\ t \in CartTasks /\ p \in CartProducts /\ c \in carts /\ c \in CartCalls
        /\ cartFrame[r] \in CartFrames /\ FrameFits(t, "write", cartFrame[r], carts)
    BY <1>1, FrameTypes, CartTaskFields DEF FrameFits, CartEnded, CartsInv, CartsTypeOK
  <1>3. NoLine \in CartRows /\ NoLine.units = 0
    BY DEF NoLine, CartRows
  <1>4. /\ lines' \in [CartCalls -> [CartProducts -> CartRows]]
        /\ \A d \in CartCalls, q \in CartProducts :
             lines'[d][q] = IF d = c /\ q = p THEN NoLine ELSE lines[d][q]
    BY <1>1, <1>2, <1>3 DEF CartsInv, CartsTypeOK
  <1>5. "answer" \in CartSteps
    BY DEF CartSteps
  <1>6. KindFits(t, "answer") /\ FrameFits(t, "answer", cartFrame[r], carts)
    BY <1>2 DEF KindFits, FrameFits
  <1>7. CallsFit'
    BY <1>1, <1>2, <1>5, <1>6, GoFits
  <1>8. CartsTypeOK'
    BY <1>1, <1>2, <1>4, <1>5, GoesOn DEF CartsInv, CartsTypeOK
  <1>9. StoreFits'
    BY <1>1, <1>2, <1>3, <1>4, FrameTypes DEF CartsInv, StoreFits
  <1> QED BY <1>7, <1>8, <1>9 DEF CartsInv

LEMMA ReadGuestInv ==
  ASSUME CartsInv, NEW r \in CartCalls, ReadGuest(r)
  PROVE  CartsInv'
  <1> DEFINE t == cartTask[r]
             f == [cartFrame[r] EXCEPT !.items = guestCart]
             step == CASE t.kind = "add" ->
                            IF TooMany(r, guestCart[t.product]) THEN "refused" ELSE "writeGuest"
                       [] t.kind = "update" ->
                            IF guestCart[t.product] = 0 THEN "refused" ELSE "writeGuest"
                       [] t.kind = "remove" -> IF guestCart = EmptyCart THEN "answer" ELSE "writeGuest"
                       [] t.kind = "merge" -> IF guestCart = EmptyCart THEN "answer" ELSE "find"
                       [] t.kind = "order" -> IF guestCart = EmptyCart THEN "refused" ELSE "clear"
  <1>1. cartAt[r] = "read" /\ CartGoWith(r, f, step) /\ UNCHANGED <<cartStore, cartTask>>
    BY DEF ReadGuest
  <1>2. /\ t \in CartTasks /\ t.kind \in {"add", "update", "remove", "merge", "order"}
        /\ t.kind \in {"add", "update", "remove"} => t.product \in CartProducts /\ t.owner = "guest"
        /\ t.kind = "merge" => t.owner = "account"
        /\ t.units \in Nat /\ FrameFits(t, "read", cartFrame[r], carts)
    BY <1>1, FrameTypes, CartTaskFields DEF KindFits, CartEnded
  <1>3. /\ f \in CartFrames /\ f.items = guestCart /\ f.product = cartFrame[r].product
        /\ f.stock = cartFrame[r].stock /\ f.stock \in Nat
    BY FrameTypes DEF CartFrames
  <1>4. /\ step \in {"refused", "writeGuest", "answer", "find", "clear"}
        /\ step = "writeGuest" => t.kind \in {"add", "update", "remove"}
        /\ step = "find" => t.kind = "merge"
        /\ step = "clear" => t.kind = "order"
    BY <1>2
  <1>5. step = "writeGuest" /\ t.kind = "add" => guestCart[t.product] + t.units <= f.stock
    BY <1>2, <1>3, FrameTypes DEF TooMany
  <1>6. \A p \in CartProducts : f.items[p] <= Shelf[p]
    BY <1>3 DEF CartsInv, StoreFits
  <1> HIDE DEF step, f
  <1>7. step \in CartSteps
    BY <1>4 DEF CartSteps, CartEnded
  <1>8. KindFits(t, step)
    BY <1>2, <1>4 DEF KindFits
  <1>9. FrameFits(t, step, f, carts)
    BY <1>2, <1>3, <1>4, <1>5, <1>6 DEF FrameFits
  <1> QED BY <1>1, <1>3, <1>7, <1>8, <1>9, GoInv

LEMMA WriteGuestInv ==
  ASSUME CartsInv, NEW r \in CartCalls, WriteGuest(r)
  PROVE  CartsInv'
  <1> DEFINE t == cartTask[r]  p == t.product  items == cartFrame[r].items
             units == IF t.kind = "add" THEN items[p] + t.units ELSE t.units
  <1>1. /\ cartAt[r] = "writeGuest" /\ UNCHANGED <<carts, lines, shelf, cartTask>>
        /\ guestCart' = [items EXCEPT ![p] = units]
        /\ CartGoWith(r, cartFrame[r], "answer")
    BY DEF WriteGuest, CartGo
  <1>2. /\ t \in CartTasks /\ t.kind \in {"add", "update", "remove"} /\ p \in CartProducts
        /\ t.units \in Nat /\ (t.kind = "remove" => t.units = 0)
        /\ FrameFits(t, "writeGuest", cartFrame[r], carts)
    BY <1>1, FrameTypes, CartTaskFields DEF KindFits, CartEnded
  <1>3. /\ items \in [CartProducts -> Nat] /\ cartFrame[r] \in CartFrames
        /\ cartFrame[r].stock \in Nat /\ Shelf[p] \in Nat
    BY <1>2, FrameTypes DEF CartFrames
  <1>4. units \in Nat /\ units <= Shelf[p]
    BY <1>2, <1>3 DEF FrameFits
  <1> HIDE DEF units
  <1>5. /\ guestCart' \in [CartProducts -> Nat]
        /\ \A q \in CartProducts : guestCart'[q] = IF q = p THEN units ELSE items[q]
    BY <1>1, <1>2, <1>3, <1>4
  <1>6. "answer" \in CartSteps
    BY DEF CartSteps
  <1>7. KindFits(t, "answer") /\ FrameFits(t, "answer", cartFrame[r], carts)
    BY <1>2 DEF KindFits, FrameFits
  <1>8. CallsFit'
    BY <1>1, <1>3, <1>6, <1>7, GoFits
  <1>9. CartsTypeOK'
    BY <1>1, <1>3, <1>5, <1>6, GoesOn DEF CartsInv, CartsTypeOK
  <1>10. \A q \in CartProducts : items[q] <= Shelf[q]
    BY <1>2 DEF FrameFits
  <1>11. StoreFits'
    BY <1>1, <1>4, <1>5, <1>10 DEF CartsInv, StoreFits
  <1> QED BY <1>8, <1>9, <1>11 DEF CartsInv

LEMMA NextItemInv ==
  ASSUME CartsInv, NEW r \in CartCalls, NextItem(r)
  PROVE  CartsInv'
  <1> DEFINE t == cartTask[r]  f == cartFrame[r]
  <1>1. cartAt[r] = "next" /\ UNCHANGED <<cartStore, cartTask>>
    BY DEF NextItem
  <1>2. t \in CartTasks /\ t.kind = "merge" /\ t.owner = "account" /\ FrameFits(t, "next", f, carts)
        /\ f \in CartFrames
    BY <1>1, FrameTypes, CartTaskFields DEF KindFits, CartEnded
  <1>3. {"clear", "next", "line"} \subseteq CartSteps
    BY DEF CartSteps
  <1>4. ASSUME CartGo(r, "clear") PROVE CartsInv'
    <2>1. KindFits(t, "clear") /\ FrameFits(t, "clear", f, carts)
      BY <1>2 DEF KindFits, FrameFits
    <2> QED BY <1>1, <1>2, <1>3, <1>4, <2>1, GoInv DEF CartGo
  <1>5. ASSUME NEW p \in CartProducts, CartGoWith(r, [f EXCEPT !.items[p] = 0], "next") PROVE CartsInv'
    <2> DEFINE g == [f EXCEPT !.items[p] = 0]
    <2>1. g \in CartFrames /\ g.cart = f.cart
          /\ \A q \in CartProducts : g.items[q] = IF q = p THEN 0 ELSE f.items[q]
      BY <1>2 DEF CartFrames
    <2> HIDE DEF g
    <2>2. KindFits(t, "next")
      BY <1>2 DEF KindFits
    <2>3. FrameFits(t, "next", g, carts)
      BY <1>2, <2>1, FrameTypes DEF FrameFits
    <2> QED BY <1>1, <1>3, <1>5, <2>1, <2>2, <2>3, GoInv DEF g
  <1>6. ASSUME NEW p \in CartProducts, CartGoWith(r, [f EXCEPT !.stock = shelf[p], !.product = p], "line")
        PROVE  CartsInv'
    <2> DEFINE g == [f EXCEPT !.stock = shelf[p], !.product = p]
    <2>1. g \in CartFrames /\ g.cart = f.cart /\ g.product = p /\ g.stock = shelf[p] /\ g.items = f.items
      BY <1>2, FrameTypes DEF CartFrames
    <2> HIDE DEF g
    <2>2. KindFits(t, "line")
      BY <1>2 DEF KindFits
    <2>3. FrameFits(t, "line", g, carts)
      BY <1>2, <2>1, FrameTypes DEF FrameFits
    <2> QED BY <1>1, <1>3, <1>6, <2>1, <2>2, <2>3, GoInv DEF g
  <1> QED BY <1>4, <1>5, <1>6 DEF NextItem

\* The guest's list is dropped.
LEMMA EmptiedFits ==
  ASSUME CartsInv, guestCart' = EmptyCart, UNCHANGED <<carts, lines, shelf>>
  PROVE  StoreFits' /\ guestCart' \in [CartProducts -> Nat]
  BY CartsAssumption DEF CartsInv, StoreFits, EmptyCart

LEMMA ClearGuestInv ==
  ASSUME CartsInv, NEW r \in CartCalls, ClearGuest(r)
  PROVE  CartsInv'
  <1>1. /\ cartAt[r] = "clear" /\ guestCart' = EmptyCart /\ UNCHANGED <<carts, lines, shelf, cartTask>>
        /\ CartGoWith(r, cartFrame[r], "answer")
    BY DEF ClearGuest, CartGo
  <1>2. "answer" \in CartSteps /\ cartFrame[r] \in CartFrames
    BY FrameTypes DEF CartSteps
  <1>3. KindFits(cartTask[r], "answer") /\ FrameFits(cartTask[r], "answer", cartFrame[r], carts)
    BY <1>1, FrameTypes DEF KindFits, FrameFits, CartEnded
  <1>4. CallsFit'
    BY <1>1, <1>2, <1>3, GoFits
  <1>5. CartsTypeOK'
    BY <1>1, <1>2, GoesOn, EmptiedFits DEF CartsInv, CartsTypeOK
  <1> QED BY <1>1, <1>4, <1>5, EmptiedFits DEF CartsInv

LEMMA ViewInStock ==
  ASSUME CartsInv, NEW o \in CartOwners
  PROVE  /\ CartView \in [guest : [CartProducts -> Nat], account : [CartProducts -> Nat]]
         /\ CartView[o] \in [CartProducts -> Nat]
         /\ \A p \in CartProducts : CartView[o][p] <= Shelf[p]
  <1> DEFINE account == IF carts = {} THEN EmptyCart ELSE Contents(CHOOSE c \in carts : TRUE)
  <1>1. account \in [CartProducts -> Nat] /\ \A p \in CartProducts : account[p] <= Shelf[p]
    <2>1. CASE carts = {}
      BY <2>1, CartsAssumption DEF EmptyCart
    <2>2. CASE carts # {}
      <3>1. PICK c \in CartCalls : account = Contents(c)
        BY <2>2 DEF CartsInv, CartsTypeOK
      <3> QED BY <3>1 DEF Contents, CartsInv, CartsTypeOK, StoreFits, CartRows
    <2> QED BY <2>1, <2>2
  <1>2. guestCart \in [CartProducts -> Nat] /\ \A p \in CartProducts : guestCart[p] <= Shelf[p]
    BY DEF CartsInv, CartsTypeOK, StoreFits
  <1>3. CartView = [guest |-> guestCart, account |-> account]
    BY DEF CartView
  <1> HIDE DEF account
  <1>4. /\ CartView \in [guest : [CartProducts -> Nat], account : [CartProducts -> Nat]]
        /\ CartView["guest"] = guestCart /\ CartView["account"] = account
    BY <1>1, <1>2, <1>3
  <1> QED BY <1>1, <1>2, <1>4 DEF CartOwners

LEMMA GetCartInv ==
  ASSUME CartsInv, NEW r \in CartCalls, GetCart(r)
  PROVE  CartsInv'
  <1> DEFINE answer == CartView[cartTask[r].owner]
             g == [NoCartFrame EXCEPT !.items = answer]
  <1>1. /\ cartAt[r] = "answer" /\ cartAt' = [cartAt EXCEPT ![r] = "done"]
        /\ cartFrame' = [cartFrame EXCEPT ![r] = g] /\ UNCHANGED <<cartStore, cartTask>>
    BY DEF GetCart
  <1>2. cartTask[r].owner \in CartOwners
    BY <1>1, FrameTypes, CartTaskFields DEF CartEnded
  <1>3. answer \in [CartProducts -> Nat] /\ \A p \in CartProducts : answer[p] <= Shelf[p]
    BY <1>2, ViewInStock
  <1> HIDE DEF answer
  <1>4. g \in CartFrames /\ g.items = answer
    BY <1>3 DEF NoCartFrame, CartFrames, CartRows, NoLine
  <1> HIDE DEF g
  <1>5. CartsTypeOK'
    BY <1>1, <1>4 DEF CartsInv, CartsTypeOK, CartSteps, CartEnded, cartStore
  <1>6. StoreFits'
    BY <1>1 DEF CartsInv, StoreFits, cartStore
  <1>7. KindFits(cartTask[r], "done") /\ FrameFits(cartTask[r], "done", g, carts)
    BY <1>3, <1>4 DEF KindFits, FrameFits, CartEnded
  <1>8. CallsFit'
    <2> SUFFICES ASSUME NEW q \in CartCalls
                 PROVE  /\ KindFits(cartTask[q], cartAt'[q])
                        /\ FrameFits(cartTask[q], cartAt'[q], cartFrame'[q], carts)
      BY <1>1 DEF CallsFit, KindFits, FrameFits, cartStore
    <2>1. CASE q = r
      BY <2>1, <1>1, <1>7 DEF CartsInv, CartsTypeOK
    <2>2. CASE q # r
      BY <2>2, <1>1 DEF CartsInv, CallsFit, CartsTypeOK
    <2> QED BY <2>1, <2>2
  <1> QED BY <1>5, <1>6, <1>8 DEF CartsInv

LEMMA SoldInv ==
  ASSUME CartsInv, NEW p \in Popular, Sold(p)
  PROVE  CartsInv'
  <1>1. /\ UNCHANGED <<guestCart, carts, lines, cartTask, cartFrame, cartAt>>
        /\ shelf' = [shelf EXCEPT ![p] = shelf[p] - 1] /\ p \in CartProducts /\ shelf[p] > 0
    BY CartsAssumption DEF Sold, Sellable, cartLocals
  <1>2. shelf' \in [CartProducts -> Nat] /\ \A q \in CartProducts : shelf'[q] <= shelf[q]
    BY <1>1 DEF CartsInv, CartsTypeOK
  <1>3. CartsTypeOK'
    BY <1>1, <1>2 DEF CartsInv, CartsTypeOK
  <1>4. StoreFits'
    <2>1. \A q \in CartProducts : shelf'[q] <= Shelf[q]
      BY <1>2, CartsAssumption DEF CartsInv, CartsTypeOK, StoreFits
    <2> QED BY <1>1, <2>1 DEF CartsInv, StoreFits
  <1>5. CallsFit'
    BY <1>1 DEF CartsInv, CallsFit, KindFits, FrameFits
  <1> QED BY <1>3, <1>4, <1>5 DEF CartsInv

LEMMA GuestCartExpiresInv ==
  ASSUME CartsInv, GuestCartExpires
  PROVE  CartsInv'
  <1>1. /\ UNCHANGED <<carts, lines, shelf, cartTask, cartFrame, cartAt>> /\ guestCart' = EmptyCart
    BY DEF GuestCartExpires, cartLocals
  <1>2. CartsTypeOK' /\ StoreFits'
    BY <1>1, EmptiedFits DEF CartsInv, CartsTypeOK
  <1>3. CallsFit'
    BY <1>1 DEF CartsInv, CallsFit, KindFits, FrameFits
  <1> QED BY <1>2, <1>3 DEF CartsInv

LEMMA NextCartsInv == CartsInv /\ [CartsNext]_cartVars => CartsInv'
  <1> SUFFICES ASSUME CartsInv, [CartsNext]_cartVars PROVE CartsInv'
    OBVIOUS
  <1>1. CASE UNCHANGED cartVars
    BY <1>1 DEF cartVars, CartsInv, CartsTypeOK, StoreFits, CallsFit, KindFits, FrameFits
  <1>2. ASSUME NEW r \in CartCalls, CartStep(r) PROVE CartsInv'
    <2>1. ASSUME LineChanged(r) PROVE CartsInv'
      BY <2>1, FailsInv DEF LineChanged
    <2> QED BY <1>2, <2>1, ReadProductInv, FindCartInv, CreateCartInv, ReadLineInv, WriteLineInv, DeleteLineInv,
               ReadGuestInv, WriteGuestInv, NextItemInv, ClearGuestInv, GetCartInv DEF CartStep
  <1>3. ASSUME NEW r \in CartCalls, CartFails(r) PROVE CartsInv'
    BY <1>3, FailsInv DEF CartFails
  <1>4. ASSUME NEW r \in CartCalls, NEW t \in CartTasks, CartBegins(r, t) PROVE CartsInv'
    BY <1>4, CartBeginsInv
  <1> QED BY <1>1, <1>2, <1>3, <1>4, SoldInv, GuestCartExpiresInv DEF CartsNext

LEMMA CartsInvariant == CartsSpec => []CartsInv
  BY InitCartsInv, NextCartsInv, PTL DEF CartsSpec

-----------------------------------------------------------------------------
\* How far a call has come that runs alone, against the carts it found: a merge has moved the
\* lines that it does not hold any more.
LoneMerge(f, at) ==
  /\ guestCart = cartBefore.guest /\ guestCart # EmptyCart
  /\ \A p \in CartProducts :
       /\ f.items[p] \in {0, guestCart[p]}
       /\ CartView.account[p] =
            IF f.items[p] = guestCart[p] THEN cartBefore.account[p] ELSE Merged(cartBefore, p)
  /\ at \in {"find", "create"} => f.items = guestCart
  /\ at \in {"line", "write"} => f.stock = shelf[f.product] /\ f.stock > 0 /\ f.items[f.product] > 0
  /\ at = "clear" => f.items = EmptyCart

LoneCall(t, f, at) ==
  /\ \A c, d \in carts : c = d
  /\ at = "create" => carts = {}
  /\ at = "write" /\ t.kind # "remove" => f.line = lines[f.cart][f.product]
  /\ at = "writeGuest" => f.items = guestCart
  /\ at # "answer" /\ (t.kind # "merge" \/ at = "read") => CartView = cartBefore
  /\ at # "answer" /\ t.kind = "merge" /\ at # "read" => LoneMerge(f, at)
  /\ at = "answer" => CartView = CartEffect(t, cartBefore)

LoneInv ==
  /\ cartBefore \in [guest : [CartProducts -> Nat], account : [CartProducts -> Nat]]
  /\ \A r \in CartsRunning : cartAlone = r => CartsRunning = {r} /\ LoneCall(cartTask[r], cartFrame[r], cartAt[r])

\* What the visitor sees: of one cart its lines, of none nothing.
LEMMA NoCartSeen == carts = {} => CartView = [guest |-> guestCart, account |-> EmptyCart]
  BY DEF CartView
LEMMA NoCartSeenNext == carts' = {} => CartView' = [guest |-> guestCart', account |-> EmptyCart]
  BY DEF CartView, EmptyCart
LEMMA OneCartSeen ==
  ASSUME NEW c \in carts, \A d, e \in carts : d = e
  PROVE  CartView = [guest |-> guestCart, account |-> [p \in CartProducts |-> lines[c][p].units]]
  <1>1. (CHOOSE d \in carts : TRUE) = c
    OBVIOUS
  <1> QED BY <1>1 DEF CartView, Contents
LEMMA OneCartSeenNext ==
  ASSUME NEW c \in carts', \A d, e \in carts' : d = e
  PROVE  CartView' = [guest |-> guestCart', account |-> [p \in CartProducts |-> lines'[c][p].units]]
  <1>1. (CHOOSE d \in carts' : TRUE) = c
    OBVIOUS
  <1> QED BY <1>1 DEF CartView, Contents
LEMMA SameSeen == UNCHANGED cartStore => CartView' = CartView
  BY DEF cartStore, CartView, Contents

LEMMA OverlapLone ==
  ASSUME CartOverlap
  PROVE  LoneInv'
  BY CartsAssumption DEF CartOverlap, LoneInv, NoCartView, EmptyCart, CartsRunning

\* A call's own step: the others do not run, if it runs alone.
LEMMA OwnStepLone ==
  ASSUME CartsInv, LoneInv, NEW r \in CartsRunning, NEW f \in CartFrames, NEW step \in CartSteps,
         CartGoWith(r, f, step), CartQuiet, cartTask' = cartTask,
         step \notin CartEnded /\ cartAlone = r /\ LoneCall(cartTask[r], cartFrame[r], cartAt[r])
           => LoneCall(cartTask[r], f, step)'
  PROVE  LoneInv'
  <1>1. /\ cartAt'[r] = step /\ r \in CartCalls
        /\ step \notin CartEnded => cartFrame'[r] = f
        /\ \A q \in CartCalls \ {r} : cartAt'[q] = cartAt[q]
    BY GoesOn DEF CartsInv, CartsRunning
  <1>2. CartsRunning' \subseteq CartsRunning
    BY <1>1 DEF CartsRunning
  <1>3. cartBefore' \in [guest : [CartProducts -> Nat], account : [CartProducts -> Nat]]
    BY DEF LoneInv, CartQuiet
  <1>4. ASSUME NEW q \in CartsRunning', cartAlone' = q
        PROVE  CartsRunning' = {q} /\ LoneCall(cartTask[q], cartFrame[q], cartAt[q])'
    <2>1. q \in CartsRunning /\ cartAlone = q
      BY <1>2, <1>4 DEF CartQuiet
    <2>2. CartsRunning = {q} /\ LoneCall(cartTask[q], cartFrame[q], cartAt[q])
      BY <2>1 DEF LoneInv
    <2>3. q = r /\ CartsRunning' = {q}
      BY <1>2, <2>2
    <2>4. step \notin CartEnded
      BY <1>1, <2>3 DEF CartsRunning
    <2>5. LoneCall(cartTask[r], f, step)'
      BY <2>1, <2>2, <2>3, <2>4
    <2>6. cartTask' = cartTask /\ cartFrame'[r] = f /\ cartAt'[r] = step
      BY <1>1, <2>4
    <2> QED BY <2>3, <2>5, <2>6 DEF LoneCall, LoneMerge
  <1> QED BY <1>3, <1>4 DEF LoneInv

\* A statement that only reads: what it finds, on the same carts.
LEMMA ReadStepLone ==
  ASSUME CartsInv, LoneInv, NEW r \in CartsRunning, NEW f \in CartFrames, NEW step \in CartSteps,
         CartGoWith(r, f, step), CartQuiet, UNCHANGED <<cartStore, cartTask>>,
         step \notin CartEnded /\ LoneCall(cartTask[r], cartFrame[r], cartAt[r])
           => LoneCall(cartTask[r], f, step)
  PROVE  LoneInv'
  <1>1. CartView' = CartView
    BY SameSeen
  <1>2. UNCHANGED <<carts, guestCart, lines, shelf, cartBefore, cartTask>>
    BY DEF cartStore, CartQuiet
  <1>3. CartEffect(cartTask[r], cartBefore)' = CartEffect(cartTask[r], cartBefore)
    BY <1>2 DEF CartEffect, Merged
  <1>4. LoneCall(cartTask[r], f, step) => LoneCall(cartTask[r], f, step)'
    BY <1>1, <1>2, <1>3 DEF LoneCall, LoneMerge, Merged
  <1> QED BY <1>2, <1>4, OwnStepLone

LEMMA AccountEffect ==
  ASSUME NEW v \in [guest : [CartProducts -> Nat], account : [CartProducts -> Nat]],
         NEW p \in CartProducts, NEW n \in Nat
  PROVE  /\ [v EXCEPT !["account"][p] = n] = [guest |-> v.guest, account |-> [v.account EXCEPT ![p] = n]]
         /\ [v EXCEPT !["guest"][p] = n] = [guest |-> [v.guest EXCEPT ![p] = n], account |-> v.account]
         /\ v = [guest |-> v.guest, account |-> v.account]
         /\ v["guest"] = v.guest /\ v["account"] = v.account
  <1>1. [v EXCEPT !["account"][p] = n] = [v EXCEPT !.account[p] = n]
    OBVIOUS
  <1>2. [v EXCEPT !.account[p] = n] = [guest |-> v.guest, account |-> [v.account EXCEPT ![p] = n]]
    OBVIOUS
  <1>3. [v EXCEPT !["guest"][p] = n] = [v EXCEPT !.guest[p] = n]
    OBVIOUS
  <1>4. [v EXCEPT !.guest[p] = n] = [guest |-> [v.guest EXCEPT ![p] = n], account |-> v.account]
    OBVIOUS
  <1>5. v = [guest |-> v.guest, account |-> v.account]
    OBVIOUS
  <1>6. v["guest"] = v.guest /\ v["account"] = v.account
    OBVIOUS
  <1> QED BY <1>1, <1>2, <1>3, <1>4, <1>5, <1>6

\* What the kinds of call do to the carts, written out.
LEMMA EffectOf ==
  ASSUME NEW t \in CartTasks,
         NEW v \in [guest : [CartProducts -> Nat], account : [CartProducts -> Nat]]
  PROVE  /\ t.kind = "get" => CartEffect(t, v) = v
         /\ t.kind = "add" /\ t.owner = "account" => CartEffect(t, v) =
              [guest |-> v.guest, account |-> [v.account EXCEPT ![t.product] = v.account[t.product] + t.units]]
         /\ t.kind = "add" /\ t.owner = "guest" => CartEffect(t, v) =
              [guest |-> [v.guest EXCEPT ![t.product] = v.guest[t.product] + t.units], account |-> v.account]
         /\ t.kind \in {"update", "remove"} /\ t.owner = "account" => CartEffect(t, v) =
              [guest |-> v.guest, account |-> [v.account EXCEPT ![t.product] = t.units]]
         /\ t.kind \in {"update", "remove"} /\ t.owner = "guest" => CartEffect(t, v) =
              [guest |-> [v.guest EXCEPT ![t.product] = t.units], account |-> v.account]
         /\ t.kind = "order" => CartEffect(t, v) = [guest |-> EmptyCart, account |-> v.account]
         /\ t.kind = "merge" /\ v.guest = EmptyCart => CartEffect(t, v) = v
         /\ t.kind = "merge" /\ v.guest # EmptyCart => CartEffect(t, v) =
              [guest |-> EmptyCart, account |-> [p \in CartProducts |->
                 IF v.guest[p] = 0 THEN v.account[p] ELSE Merged(v, p)]]
  <1> DEFINE p == t.product
  <1>1. t.kind = "get" => CartEffect(t, v) = v
    BY DEF CartEffect
  <1>2. ASSUME t.kind = "add" PROVE CartEffect(t, v) = [v EXCEPT ![t.owner][p] = v[t.owner][p] + t.units]
    BY <1>2 DEF CartEffect
  <1>3. ASSUME t.kind \in {"update", "remove"} PROVE CartEffect(t, v) = [v EXCEPT ![t.owner][p] = t.units]
    BY <1>3 DEF CartEffect
  <1>4. t.kind \in {"add", "update", "remove"} => p \in CartProducts /\ t.units \in Nat
    BY CartTaskFields
  <1>5. v.guest \in [CartProducts -> Nat] /\ v.account \in [CartProducts -> Nat]
    OBVIOUS
  <1>6. ASSUME t.kind = "add", t.owner = "account"
        PROVE  CartEffect(t, v) = [guest |-> v.guest, account |-> [v.account EXCEPT ![p] = v.account[p] + t.units]]
    <2> DEFINE n == v.account[p] + t.units
    <2>1. n \in Nat /\ p \in CartProducts
      BY <1>4, <1>5, <1>6
    <2>2. CartEffect(t, v) = [v EXCEPT !["account"][p] = n]
      BY <1>2, <1>6, AccountEffect, <2>1
    <2> QED BY <2>1, <2>2, AccountEffect
  <1>7. ASSUME t.kind = "add", t.owner = "guest"
        PROVE  CartEffect(t, v) = [guest |-> [v.guest EXCEPT ![p] = v.guest[p] + t.units], account |-> v.account]
    <2> DEFINE n == v.guest[p] + t.units
    <2>1. n \in Nat /\ p \in CartProducts
      BY <1>4, <1>5, <1>7
    <2>2. CartEffect(t, v) = [v EXCEPT !["guest"][p] = n]
      BY <1>2, <1>7, AccountEffect, <2>1
    <2> QED BY <2>1, <2>2, AccountEffect
  <1>8. ASSUME t.kind \in {"update", "remove"}, t.owner = "account"
        PROVE  CartEffect(t, v) = [guest |-> v.guest, account |-> [v.account EXCEPT ![p] = t.units]]
    BY <1>3, <1>4, <1>8, AccountEffect
  <1>9. ASSUME t.kind \in {"update", "remove"}, t.owner = "guest"
        PROVE  CartEffect(t, v) = [guest |-> [v.guest EXCEPT ![p] = t.units], account |-> v.account]
    BY <1>3, <1>4, <1>9, AccountEffect
  <1>10. t.kind = "order" => CartEffect(t, v) = [guest |-> EmptyCart, account |-> v.account]
    BY DEF CartEffect
  <1>11. t.kind = "merge" /\ v.guest = EmptyCart => CartEffect(t, v) = v
    BY DEF CartEffect
  <1>12. ASSUME t.kind = "merge", v.guest # EmptyCart
         PROVE  CartEffect(t, v) = [guest |-> EmptyCart, account |-> [q \in CartProducts |->
                  IF v.guest[q] = 0 THEN v.account[q] ELSE Merged(v, q)]]
    BY <1>12 DEF CartEffect
  <1> QED BY <1>1, <1>6, <1>7, <1>8, <1>9, <1>10, <1>11, <1>12

-----------------------------------------------------------------------------
\* A call that begins alone finds at most one cart.
LEMMA AtMostOneCart ==
  ASSUME CartsInv, Cardinality(carts) <= 1
  PROVE  \A c, d \in carts : c = d
  <1>1. IsFiniteSet(carts) /\ Cardinality(carts) \in Nat
    BY CartsAssumption, FS_Subset, FS_CardinalityType DEF CartsInv, CartsTypeOK
  <1>2. CASE Cardinality(carts) = 0
    BY <1>1, <1>2, FS_EmptySet
  <1>3. CASE Cardinality(carts) = 1
    BY <1>1, <1>3, FS_Singleton
  <1> QED BY <1>1, <1>2, <1>3

LEMMA CartBeginsLone ==
  ASSUME CartsInv, LoneInv, NEW r \in CartCalls, NEW t \in CartTasks, CartBegins(r, t)
  PROVE  LoneInv'
  <1> DEFINE step == CASE t.kind = "get" -> "answer"
                       [] t.kind \in {"add", "update"} -> "product"
                       [] t.kind = "remove" /\ t.owner = "account" -> "find"
                       [] OTHER -> "read"
  <1>1. CASE CartOverlap
    BY <1>1, OverlapLone
  <1>2. CASE CartsRunning = {} /\ Cardinality(carts) <= 1 /\ cartAlone' = r /\ cartBefore' = CartView
    <2>1. /\ CartGoWith(r, cartFrame[r], step) /\ cartTask' = [cartTask EXCEPT ![r] = t]
          /\ UNCHANGED cartStore
      BY DEF CartBegins, CartGo
    <2>2. /\ step \in {"answer", "product", "find", "read"}
          /\ step = "product" => t.kind \in {"add", "update"}
          /\ step = "find" => t.kind = "remove" /\ t.owner = "account"
          /\ step = "answer" => t.kind = "get"
      BY CartTaskFields DEF CartOwners
    <2> HIDE DEF step
    <2>3. step \in CartSteps /\ step \notin CartEnded
      BY <2>2 DEF CartSteps, CartEnded
    <2>4. /\ cartAt'[r] = step /\ cartFrame'[r] = cartFrame[r] /\ cartTask'[r] = t
          /\ \A q \in CartCalls \ {r} : cartAt'[q] = cartAt[q]
      BY <2>1, <2>3, FrameTypes, GoesOn DEF CartsInv, CartsTypeOK
    <2>5. CartsRunning' = {r}
      BY <1>2, <2>3, <2>4 DEF CartsRunning
    <2>6. /\ cartBefore' \in [guest : [CartProducts -> Nat], account : [CartProducts -> Nat]]
          /\ CartView' = CartView
      BY <1>2, <2>1, ViewInStock, SameSeen DEF CartOwners
    <2>7. \A c, d \in carts' : c = d
      BY <1>2, <2>1, AtMostOneCart DEF cartStore
    <2>8. CartEffect(t, CartView) = CartView \/ t.kind # "get"
      BY DEF CartEffect
    <2>9. CartEffect(cartTask[r], cartBefore)' = CartEffect(t, CartView) \/ t.kind # "get"
      BY <1>2, <2>4 DEF CartEffect
    <2>10. LoneCall(cartTask[r], cartFrame[r], cartAt[r])'
      BY <1>2, <2>2, <2>4, <2>6, <2>7, <2>8, <2>9 DEF LoneCall
    <2> QED BY <1>2, <2>5, <2>6, <2>10 DEF LoneInv
  <1> QED BY <1>1, <1>2 DEF CartBegins

\* Where a call runs: as the actions find it.
LEMMA RunsAt ==
  ASSUME CartsInv, NEW r \in CartCalls, cartAt[r] \notin CartEnded
  PROVE  r \in CartsRunning /\ cartTask[r] \in CartTasks /\ cartFrame[r] \in CartFrames
         /\ KindFits(cartTask[r], cartAt[r]) /\ FrameFits(cartTask[r], cartAt[r], cartFrame[r], carts)
  BY FrameTypes DEF CartsRunning

LEMMA ReadProductLone ==
  ASSUME CartsInv, LoneInv, NEW r \in CartCalls, ReadProduct(r)
  PROVE  LoneInv'
  <1> DEFINE t == cartTask[r]
             f == [cartFrame[r] EXCEPT !.stock = shelf[t.product], !.product = t.product]
             step == IF t.units > shelf[t.product] THEN "refused"
                     ELSE IF t.owner = "account" THEN "find" ELSE "read"
  <1>1. cartAt[r] = "product" /\ CartGoWith(r, f, step) /\ UNCHANGED <<cartStore, cartTask>> /\ CartQuiet
    BY DEF ReadProduct
  <1>2. r \in CartsRunning /\ t.kind \in {"add", "update"} /\ t \in CartTasks
    BY <1>1, RunsAt DEF KindFits, CartEnded
  <1>3. t.product \in CartProducts
    BY <1>2, CartTaskFields
  <1>4. f \in CartFrames
    BY <1>3, FrameTypes DEF CartFrames
  <1>5. step \in {"refused", "find", "read"}
    OBVIOUS
  <1> HIDE DEF step, f
  <1>6. step \in CartSteps
    BY <1>5 DEF CartSteps, CartEnded
  <1>7. LoneCall(t, cartFrame[r], cartAt[r]) => LoneCall(t, f, step)
    BY <1>1, <1>2, <1>5 DEF LoneCall
  <1> QED BY <1>1, <1>2, <1>4, <1>6, <1>7, ReadStepLone

LEMMA FindCartLone ==
  ASSUME CartsInv, LoneInv, NEW r \in CartCalls, FindCart(r)
  PROVE  LoneInv'
  <1> DEFINE t == cartTask[r]  f == cartFrame[r]
  <1>1. cartAt[r] = "find" /\ UNCHANGED <<cartStore, cartTask>> /\ CartQuiet
    BY DEF FindCart
  <1>2. /\ r \in CartsRunning /\ t \in CartTasks /\ f \in CartFrames
        /\ t.kind \in {"add", "update", "remove", "merge"} /\ t.owner = "account"
        /\ t.kind \in {"add", "update", "remove"} => t.product \in CartProducts
    BY <1>1, RunsAt, CartTaskFields DEF KindFits, CartEnded
  <1>3. ASSUME carts = {},
               CartGo(r, CASE t.kind \in {"add", "merge"} -> "create"
                           [] t.kind = "update" -> "refused"
                           [] t.kind = "remove" -> "answer")
        PROVE  LoneInv'
    <2> DEFINE step == CASE t.kind \in {"add", "merge"} -> "create"
                         [] t.kind = "update" -> "refused"
                         [] t.kind = "remove" -> "answer"
    <2>1. /\ step \in {"create", "refused", "answer"} /\ (step = "answer" => t.kind = "remove")
          /\ t.kind = "merge" => step = "create"
      BY <1>2
    <2>2. CartGoWith(r, f, step)
      BY <1>3 DEF CartGo
    <2> HIDE DEF step
    <2>3. step \in CartSteps
      BY <2>1 DEF CartSteps, CartEnded
    <2>4. ASSUME step \notin CartEnded, LoneCall(t, f, "find") PROVE LoneCall(t, f, step)
      <3>1. step \in {"create", "answer"}
        BY <2>1, <2>4 DEF CartEnded
      <3>2. CASE step = "create"
        BY <1>3, <2>4, <3>2 DEF LoneCall, LoneMerge
      <3>3. CASE step = "answer"
        <4>1. t.kind = "remove" /\ t.product \in CartProducts /\ t.units = 0
          BY <1>2, <2>1, <3>3, CartTaskFields
        <4>2. CartView = cartBefore /\ CartView = [guest |-> guestCart, account |-> EmptyCart]
          BY <1>3, <2>4, <4>1, NoCartSeen DEF LoneCall
        <4>3. CartEffect(t, CartView) = [guest |-> guestCart, account |-> [EmptyCart EXCEPT ![t.product] = 0]]
          BY <1>2, <4>1, <4>2, EffectOf, ViewInStock DEF CartOwners
        <4>4. [EmptyCart EXCEPT ![t.product] = 0] = EmptyCart
          BY <4>1 DEF EmptyCart
        <4>5. CartView = CartEffect(t, cartBefore)
          BY <4>2, <4>3, <4>4
        <4> QED BY <1>3, <3>3, <4>5 DEF LoneCall
      <3> QED BY <3>1, <3>2, <3>3
    <2> QED BY <1>1, <1>2, <2>2, <2>3, <2>4, ReadStepLone
  <1>4. ASSUME NEW c \in carts,
               CartGoWith(r, [f EXCEPT !.cart = c],
                 CASE t.kind \in {"add", "update"} -> "line"
                   [] t.kind = "remove" -> "write"
                   [] t.kind = "merge" -> "next")
        PROVE  LoneInv'
    <2> DEFINE step == CASE t.kind \in {"add", "update"} -> "line"
                         [] t.kind = "remove" -> "write"
                         [] t.kind = "merge" -> "next"
               g == [f EXCEPT !.cart = c]
    <2>1. /\ step \in {"line", "write", "next"} /\ (step = "line" => t.kind \in {"add", "update"})
          /\ (step = "write" => t.kind = "remove") /\ (step = "next" => t.kind = "merge")
      BY <1>2
    <2>2. CartGoWith(r, g, step)
      BY <1>4
    <2>3. g \in CartFrames /\ g.items = f.items /\ g.product = f.product
      BY <1>2 DEF CartFrames, CartsInv, CartsTypeOK
    <2> HIDE DEF step, g
    <2>4. step \in CartSteps
      BY <2>1 DEF CartSteps, CartEnded
    <2>5. ASSUME LoneCall(t, f, "find") PROVE LoneCall(t, g, step)
      <3>1. CASE t.kind # "merge"
        BY <1>2, <2>1, <2>5, <3>1 DEF LoneCall
      <3>2. CASE t.kind = "merge"
        <4>1. step = "next" /\ LoneMerge(f, "find")
          BY <2>1, <2>5, <3>2 DEF LoneCall
        <4>2. LoneMerge(g, "next")
          BY <2>3, <4>1 DEF LoneMerge
        <4> QED BY <2>5, <3>2, <4>1, <4>2 DEF LoneCall
      <3> QED BY <3>1, <3>2
    <2> QED BY <1>1, <1>2, <2>2, <2>3, <2>4, <2>5, ReadStepLone
  <1> QED BY <1>3, <1>4 DEF FindCart

\* A cart that is created is empty: the visitor sees what was seen before.
LEMMA CreateCartLone ==
  ASSUME CartsInv, LoneInv, NEW r \in CartCalls, CreateCart(r)
  PROVE  LoneInv'
  <1>1. /\ cartAt[r] = "create" /\ carts' = carts \cup {r} /\ CartQuiet
        /\ UNCHANGED <<guestCart, lines, shelf, cartTask>>
        /\ CartGoWith(r, [cartFrame[r] EXCEPT !.cart = r], IF cartTask[r].kind = "merge" THEN "next" ELSE "line")
    BY DEF CreateCart
  <1>2. r \in CartsRunning /\ cartTask[r] \in CartTasks /\ cartTask[r].kind \in {"add", "merge"}
    BY <1>1, RunsAt DEF KindFits, CartEnded
  <1>3. PICK f \in CartFrames : f = [cartFrame[r] EXCEPT !.cart = r]
    BY FrameTypes DEF CartFrames
  <1>4. f.items = cartFrame[r].items
    BY <1>3
  <1>5. PICK step \in {"next", "line"} :
          step = IF cartTask[r].kind = "merge" THEN "next" ELSE "line"
    OBVIOUS
  <1>6. CartGoWith(r, f, step) /\ step \in CartSteps
    BY <1>1, <1>3, <1>5 DEF CartSteps
  <1>7. ASSUME LoneCall(cartTask[r], cartFrame[r], "create") PROVE LoneCall(cartTask[r], f, step)'
    <2>1. carts = {} /\ carts' = {r}
      BY <1>1, <1>7 DEF LoneCall
    <2>2. \A p \in CartProducts : lines[r][p].units = 0
      BY <2>1 DEF CartsInv, StoreFits, NoLine
    <2>3. CartView = [guest |-> guestCart, account |-> EmptyCart]
      BY <2>1, NoCartSeen
    <2>4. CartView' = [guest |-> guestCart', account |-> [p \in CartProducts |-> lines'[r][p].units]]
      BY <2>1, OneCartSeenNext
    <2>5. CartView' = CartView
      BY <1>1, <2>2, <2>3, <2>4 DEF EmptyCart
    <2>6. UNCHANGED <<cartTask, cartBefore, guestCart, shelf, lines>>
      BY <1>1 DEF CartQuiet
    <2>7. CASE cartTask[r].kind = "add"
      <3>1. step = "line" /\ CartView' = cartBefore'
        BY <1>5, <1>7, <2>5, <2>6, <2>7 DEF LoneCall
      <3> QED BY <2>1, <2>6, <2>7, <3>1 DEF LoneCall
    <2>8. CASE cartTask[r].kind = "merge"
      <3>1. step = "next" /\ LoneMerge(cartFrame[r], "create")
        BY <1>5, <1>7, <2>8 DEF LoneCall
      <3>2. LoneMerge(f, "next")
        BY <1>4, <3>1 DEF LoneMerge
      <3>3. LoneMerge(f, "next")'
        BY <2>5, <2>6, <3>2 DEF LoneMerge, Merged
      <3> QED BY <2>1, <2>6, <2>8, <3>1, <3>3 DEF LoneCall
    <2> QED BY <1>2, <2>7, <2>8
  <1> QED BY <1>1, <1>2, <1>6, <1>7, OwnStepLone

LEMMA ReadLineLone ==
  ASSUME CartsInv, LoneInv, NEW r \in CartCalls, ReadLine(r)
  PROVE  LoneInv'
  <1> DEFINE t == cartTask[r]
             line == lines[cartFrame[r].cart][cartFrame[r].product]
             f == [cartFrame[r] EXCEPT !.line = line]
             step == IF \/ t.kind = "add" /\ TooMany(r, line.units)
                        \/ t.kind = "update" /\ line = NoLine
                     THEN "refused" ELSE "write"
  <1>1. cartAt[r] = "line" /\ CartGoWith(r, f, step) /\ UNCHANGED <<cartStore, cartTask>> /\ CartQuiet
    BY DEF ReadLine
  <1>2. /\ r \in CartsRunning /\ t \in CartTasks /\ t.kind \in {"add", "update", "merge"}
        /\ FrameFits(t, "line", cartFrame[r], carts)
    BY <1>1, RunsAt DEF KindFits, CartEnded
  <1>3. cartFrame[r].cart \in CartCalls /\ cartFrame[r].product \in CartProducts
    BY <1>2 DEF FrameFits, CartsInv, CartsTypeOK
  <1>4. line \in CartRows
    BY <1>3 DEF CartsInv, CartsTypeOK
  <1>5. /\ f \in CartFrames /\ f.cart = cartFrame[r].cart /\ f.product = cartFrame[r].product
        /\ f.stock = cartFrame[r].stock /\ f.items = cartFrame[r].items
        /\ f.line = lines[f.cart][f.product]
    BY <1>4, FrameTypes DEF CartFrames
  <1>6. step \in {"refused", "write"} /\ step \in CartSteps
    BY DEF CartSteps, CartEnded
  <1> HIDE DEF step, f, line
  <1>7. ASSUME step = "write", LoneCall(t, cartFrame[r], "line") PROVE LoneCall(t, f, step)
    <2>1. CASE t.kind # "merge"
      BY <1>5, <1>7, <2>1 DEF LoneCall
    <2>2. CASE t.kind = "merge"
      <3>1. LoneMerge(cartFrame[r], "line")
        BY <1>7, <2>2 DEF LoneCall
      <3>2. LoneMerge(f, "write")
        BY <1>5, <3>1 DEF LoneMerge
      <3> QED BY <1>5, <1>7, <2>2, <3>2 DEF LoneCall
    <2> QED BY <2>1, <2>2
  <1> QED BY <1>1, <1>2, <1>5, <1>6, <1>7, ReadStepLone DEF CartEnded

\* The line that is written is the visitor's, of the product of the call or of the loop.
LEMMA LineWritten ==
  ASSUME CartsInv, NEW c \in carts, \A d, e \in carts : d = e, NEW p \in CartProducts, NEW row,
         lines' = [lines EXCEPT ![c][p] = row], UNCHANGED <<carts, guestCart>>
  PROVE  CartView' = [guest |-> CartView.guest, account |-> [CartView.account EXCEPT ![p] = row.units]]
  <1>1. CartView = [guest |-> guestCart, account |-> [q \in CartProducts |-> lines[c][q].units]]
    BY OneCartSeen
  <1>2. CartView' = [guest |-> guestCart', account |-> [q \in CartProducts |-> lines'[c][q].units]]
    BY OneCartSeenNext
  <1>3. \A q \in CartProducts : lines'[c][q] = IF q = p THEN row ELSE lines[c][q]
    BY DEF CartsInv, CartsTypeOK
  <1>4. [q \in CartProducts |-> lines'[c][q].units] =
          [[q \in CartProducts |-> lines[c][q].units] EXCEPT ![p] = row.units]
    <2>1. \A q \in CartProducts : lines'[c][q].units = IF q = p THEN row.units ELSE lines[c][q].units
      BY <1>3
    <2> QED BY <2>1
  <1> QED BY <1>1, <1>2, <1>4

LEMMA DeleteLineLone ==
  ASSUME CartsInv, LoneInv, NEW r \in CartCalls, DeleteLine(r)
  PROVE  LoneInv'
  <1>1. /\ cartAt[r] = "write" /\ cartTask[r].kind = "remove" /\ CartQuiet
        /\ UNCHANGED <<guestCart, carts, shelf, cartTask>>
        /\ lines' = [lines EXCEPT ![cartFrame[r].cart][cartTask[r].product] = NoLine]
        /\ CartGoWith(r, cartFrame[r], "answer")
    BY DEF DeleteLine, CartGo
  <1>2. /\ r \in CartsRunning /\ cartTask[r] \in CartTasks /\ cartTask[r].owner = "account"
        /\ cartTask[r].product \in CartProducts /\ cartTask[r].units = 0
        /\ cartFrame[r].cart \in carts
    BY <1>1, RunsAt, CartTaskFields DEF KindFits, FrameFits, CartEnded
  <1>3. PICK f \in CartFrames : f = cartFrame[r]
    BY FrameTypes
  <1>4. ASSUME LoneCall(cartTask[r], cartFrame[r], "write") PROVE LoneCall(cartTask[r], f, "answer")'
    <2>1. CartView = cartBefore /\ \A c, d \in carts : c = d
      BY <1>1, <1>4 DEF LoneCall
    <2>2. CartView' = [guest |-> CartView.guest,
                       account |-> [CartView.account EXCEPT ![cartTask[r].product] = 0]]
      <3>1. CartView' = [guest |-> CartView.guest,
                         account |-> [CartView.account EXCEPT ![cartTask[r].product] = NoLine.units]]
        BY <1>1, <1>2, <2>1, LineWritten
      <3> QED BY <3>1 DEF NoLine
    <2>3. CartEffect(cartTask[r], CartView) =
            [guest |-> CartView.guest, account |-> [CartView.account EXCEPT ![cartTask[r].product] = 0]]
      BY <1>1, <1>2, EffectOf, ViewInStock DEF CartOwners
    <2>4. CartEffect(cartTask[r], cartBefore)' = CartEffect(cartTask[r], cartBefore)
      BY <1>1 DEF CartEffect, Merged, CartQuiet
    <2> QED BY <1>1, <2>1, <2>2, <2>3, <2>4 DEF LoneCall
  <1> QED BY <1>1, <1>2, <1>3, <1>4, OwnStepLone DEF CartSteps

LEMMA WriteLineLone ==
  ASSUME CartsInv, LoneInv, NEW r \in CartCalls, WriteLine(r)
  PROVE  LoneInv'
  <1> DEFINE c == cartFrame[r].cart  p == cartFrame[r].product
             row == [units |-> NewUnits(r), row |-> IF lines[c][p] = NoLine THEN r ELSE lines[c][p].row]
             done == [[cartFrame[r] EXCEPT !.items[p] = 0] EXCEPT !.line = NoLine]
  <1>1. /\ cartAt[r] = "write" /\ cartTask[r].kind # "remove" /\ CartQuiet
        /\ UNCHANGED <<guestCart, carts, shelf, cartTask>>
        /\ lines' = [lines EXCEPT ![c][p] = row]
        /\ IF cartTask[r].kind = "merge" THEN CartGoWith(r, done, "next")
           ELSE CartGoWith(r, cartFrame[r], "answer")
    BY DEF WriteLine, CartGo
  <1>2. /\ c \in carts /\ c \in CartCalls /\ p \in CartProducts /\ NewUnits(r) \in Nat
        /\ cartTask[r].kind \in {"add", "update", "merge"} /\ cartTask[r].owner = "account"
    BY <1>1, NewUnitsInStock
  <1>3. /\ r \in CartsRunning /\ cartTask[r] \in CartTasks
        /\ FrameFits(cartTask[r], "write", cartFrame[r], carts) /\ cartFrame[r] \in CartFrames
    BY <1>1, RunsAt DEF CartEnded
  <1>4. row.units = NewUnits(r)
    OBVIOUS
  <1> HIDE DEF row
  <1>5. ASSUME \A d, e \in carts : d = e
        PROVE  /\ CartView' = [guest |-> CartView.guest, account |-> [CartView.account EXCEPT ![p] = NewUnits(r)]]
               /\ lines[c][p].units = CartView.account[p] /\ CartView.guest = guestCart
    <2>1. CartView' = [guest |-> CartView.guest, account |-> [CartView.account EXCEPT ![p] = row.units]]
      BY <1>1, <1>2, <1>5, LineWritten
    <2> QED BY <1>2, <1>4, <1>5, <2>1, OneCartSeen
  <1>6. CASE cartTask[r].kind \in {"add", "update"}
    <2>1. PICK f \in CartFrames : f = cartFrame[r]
      BY <1>3
    <2>2. ASSUME LoneCall(cartTask[r], cartFrame[r], "write") PROVE LoneCall(cartTask[r], f, "answer")'
      <3>1. /\ CartView = cartBefore /\ \A d, e \in carts : d = e
            /\ cartFrame[r].line = lines[c][p]
        BY <1>1, <1>6, <2>2 DEF LoneCall
      <3>2. p = cartTask[r].product
        BY <1>3, <1>6 DEF FrameFits
      <3>3. NewUnits(r) = IF cartTask[r].kind = "add" THEN CartView.account[p] + cartTask[r].units
                          ELSE cartTask[r].units
        BY <1>5, <1>6, <3>1 DEF NewUnits
      <3>4. CartEffect(cartTask[r], CartView) =
              [guest |-> CartView.guest, account |-> [CartView.account EXCEPT ![p] = NewUnits(r)]]
        BY <1>2, <1>3, <1>6, <3>2, <3>3, EffectOf, ViewInStock DEF CartOwners
      <3>5. CartEffect(cartTask[r], cartBefore)' = CartEffect(cartTask[r], cartBefore)
        BY <1>1 DEF CartEffect, Merged, CartQuiet
      <3> QED BY <1>1, <1>5, <3>1, <3>4, <3>5 DEF LoneCall
    <2> QED BY <1>1, <1>3, <1>6, <2>1, <2>2, OwnStepLone DEF CartSteps
  <1>7. CASE cartTask[r].kind = "merge"
    <2>1. PICK f \in CartFrames : f = done
      BY <1>2, <1>3 DEF CartFrames, CartRows, NoLine
    <2>2. \A q \in CartProducts : f.items[q] = IF q = p THEN 0 ELSE cartFrame[r].items[q]
      BY <1>2, <1>3, <2>1 DEF CartFrames
    <2>3. ASSUME LoneCall(cartTask[r], cartFrame[r], "write") PROVE LoneCall(cartTask[r], f, "next")'
      <3>1. /\ \A d, e \in carts : d = e
            /\ cartFrame[r].line = lines[c][p] /\ LoneMerge(cartFrame[r], "write")
        BY <1>1, <1>7, <2>3 DEF LoneCall
      <3>2. /\ cartFrame[r].items[p] = guestCart[p] /\ cartFrame[r].items[p] > 0
            /\ cartFrame[r].stock = shelf[p] /\ shelf[p] > 0 /\ guestCart = cartBefore.guest
            /\ CartView.account[p] = cartBefore.account[p]
        BY <1>2, <3>1, FrameTypes DEF LoneMerge
      <3>3. NewUnits(r) = Merged(cartBefore, p)
        BY <1>2, <1>5, <1>7, <3>1, <3>2, FrameTypes DEF NewUnits, MergedUnits, Merged
      <3>4. \A q \in CartProducts : CartView'.account[q] = IF q = p THEN NewUnits(r) ELSE CartView.account[q]
        BY <1>2, <1>5, <3>1, ViewInStock DEF CartOwners
      <3>5. UNCHANGED <<guestCart, shelf, cartBefore, carts, cartTask>>
        BY <1>1 DEF CartQuiet
      <3>6. LoneMerge(f, "next")'
        <4>1. \A q \in CartProducts : Merged(cartBefore, q)' = Merged(cartBefore, q)
          BY <3>5 DEF Merged
        <4>2. guestCart' = cartBefore'.guest /\ guestCart' # EmptyCart
          BY <3>1, <3>5 DEF LoneMerge, EmptyCart
        <4>3. ASSUME NEW q \in CartProducts
              PROVE  /\ f.items[q] \in {0, guestCart'[q]}
                     /\ CartView'.account[q] =
                          IF f.items[q] = guestCart'[q] THEN cartBefore'.account[q] ELSE Merged(cartBefore, q)'
          <5>1. CASE q = p
            BY <2>2, <3>2, <3>3, <3>4, <3>5, <4>1, <5>1, FrameTypes
          <5>2. CASE q # p
            BY <2>2, <3>1, <3>4, <3>5, <4>1, <5>2 DEF LoneMerge
          <5> QED BY <5>1, <5>2
        <4> QED BY <4>2, <4>3 DEF LoneMerge
      <3> QED BY <1>7, <3>1, <3>5, <3>6 DEF LoneCall
    <2> QED BY <1>1, <1>3, <1>7, <2>1, <2>3, OwnStepLone DEF CartSteps
  <1> QED BY <1>2, <1>6, <1>7

\* What is seen of the guest's list, and that an empty one has nothing to take away.
LEMMA GuestSeen == CartView.guest = guestCart /\ CartView'.guest = guestCart' /\ CartView'.account = CartView'["account"]
  BY DEF CartView

LEMMA GuestChanged ==
  ASSUME UNCHANGED <<carts, lines>>
  PROVE  CartView' = [guest |-> guestCart', account |-> CartView.account]
  BY DEF CartView, Contents, EmptyCart

LEMMA ReadGuestLone ==
  ASSUME CartsInv, LoneInv, NEW r \in CartCalls, ReadGuest(r)
  PROVE  LoneInv'
  <1> DEFINE t == cartTask[r]
             f == [cartFrame[r] EXCEPT !.items = guestCart]
             step == CASE t.kind = "add" ->
                            IF TooMany(r, guestCart[t.product]) THEN "refused" ELSE "writeGuest"
                       [] t.kind = "update" ->
                            IF guestCart[t.product] = 0 THEN "refused" ELSE "writeGuest"
                       [] t.kind = "remove" -> IF guestCart = EmptyCart THEN "answer" ELSE "writeGuest"
                       [] t.kind = "merge" -> IF guestCart = EmptyCart THEN "answer" ELSE "find"
                       [] t.kind = "order" -> IF guestCart = EmptyCart THEN "refused" ELSE "clear"
  <1>1. cartAt[r] = "read" /\ CartGoWith(r, f, step) /\ UNCHANGED <<cartStore, cartTask>> /\ CartQuiet
    BY DEF ReadGuest
  <1>2. /\ r \in CartsRunning /\ t \in CartTasks /\ t.kind \in {"add", "update", "remove", "merge", "order"}
        /\ t.kind = "remove" => t.product \in CartProducts /\ t.units = 0 /\ t.owner = "guest"
    BY <1>1, RunsAt, CartTaskFields DEF KindFits, CartEnded
  <1>3. f \in CartFrames /\ f.items = guestCart
    BY FrameTypes DEF CartFrames
  <1>4. /\ step \in {"refused", "writeGuest", "answer", "find", "clear"}
        /\ step = "writeGuest" => t.kind \in {"add", "update", "remove"}
        /\ step = "find" => t.kind = "merge" /\ guestCart # EmptyCart
        /\ step = "clear" => t.kind = "order"
        /\ step = "answer" => t.kind \in {"remove", "merge"} /\ guestCart = EmptyCart
    BY <1>2
  <1> HIDE DEF step, f
  <1>5. step \in CartSteps
    BY <1>4 DEF CartSteps, CartEnded
  <1>6. ASSUME step \notin CartEnded, LoneCall(t, cartFrame[r], "read") PROVE LoneCall(t, f, step)
    <2>1. CartView = cartBefore /\ CartView.guest = guestCart /\ \A c, d \in carts : c = d
      BY <1>6, GuestSeen DEF LoneCall
    <2>2. CASE step = "writeGuest"
      BY <1>3, <1>4, <2>1, <2>2 DEF LoneCall
    <2>3. CASE step = "clear"
      BY <1>3, <1>4, <2>1, <2>3 DEF LoneCall
    <2>4. CASE step = "find"
      <3>1. LoneMerge(f, "find")
        BY <1>3, <1>4, <2>1, <2>4, FrameTypes DEF LoneMerge
      <3> QED BY <1>4, <2>1, <2>4, <3>1 DEF LoneCall
    <2>5. CASE step = "answer"
      <3>1. CASE t.kind = "merge"
        <4>1. CartEffect(t, CartView) = CartView
          BY <1>2, <1>4, <2>1, <2>5, <3>1, EffectOf, ViewInStock DEF CartOwners
        <4> QED BY <2>1, <2>5, <4>1 DEF LoneCall
      <3>2. CASE t.kind = "remove"
        <4>1. CartEffect(t, CartView) =
                [guest |-> [guestCart EXCEPT ![t.product] = 0], account |-> CartView.account]
          BY <1>2, <2>1, <3>2, EffectOf, ViewInStock DEF CartOwners
        <4>2. [guestCart EXCEPT ![t.product] = 0] = guestCart
          BY <1>2, <1>4, <2>5, <3>2 DEF EmptyCart
        <4>3. CartView = [guest |-> CartView.guest, account |-> CartView.account]
          BY ViewInStock DEF CartOwners
        <4>4. CartEffect(t, CartView) = CartView
          BY <2>1, <4>1, <4>2, <4>3
        <4> QED BY <2>1, <2>5, <4>4 DEF LoneCall
      <3> QED BY <1>4, <2>5, <3>1, <3>2
    <2> QED BY <1>4, <1>6, <2>2, <2>3, <2>4, <2>5 DEF CartEnded
  <1> QED BY <1>1, <1>2, <1>3, <1>5, <1>6, ReadStepLone

LEMMA WriteGuestLone ==
  ASSUME CartsInv, LoneInv, NEW r \in CartCalls, WriteGuest(r)
  PROVE  LoneInv'
  <1> DEFINE p == cartTask[r].product  items == cartFrame[r].items
             units == IF cartTask[r].kind = "add" THEN items[p] + cartTask[r].units ELSE cartTask[r].units
  <1>1. /\ cartAt[r] = "writeGuest" /\ CartQuiet /\ UNCHANGED <<carts, lines, shelf, cartTask>>
        /\ guestCart' = [items EXCEPT ![p] = units]
        /\ CartGoWith(r, cartFrame[r], "answer")
    BY DEF WriteGuest, CartGo
  <1>2. /\ r \in CartsRunning /\ cartTask[r] \in CartTasks /\ cartTask[r].owner = "guest"
        /\ cartTask[r].kind \in {"add", "update", "remove"} /\ p \in CartProducts
    BY <1>1, RunsAt, CartTaskFields DEF KindFits, CartEnded
  <1>3. PICK f \in CartFrames : f = cartFrame[r]
    BY FrameTypes
  <1>4. ASSUME LoneCall(cartTask[r], cartFrame[r], "writeGuest") PROVE LoneCall(cartTask[r], f, "answer")'
    <2>1. CartView = cartBefore /\ items = guestCart /\ \A c, d \in carts : c = d
      BY <1>2, <1>4 DEF LoneCall
    <2>2. CartView.guest = guestCart
      BY GuestSeen
    <2>3. CartView' = [guest |-> [guestCart EXCEPT ![p] = units], account |-> CartView.account]
      BY <1>1, <2>1, GuestChanged
    <2>4. CartEffect(cartTask[r], CartView) =
            [guest |-> [guestCart EXCEPT ![p] = units], account |-> CartView.account]
      BY <1>2, <2>1, <2>2, EffectOf, ViewInStock DEF CartOwners
    <2>5. CartEffect(cartTask[r], cartBefore)' = CartEffect(cartTask[r], cartBefore)
      BY <1>1 DEF CartEffect, Merged, CartQuiet
    <2> HIDE DEF units, items, p
    <2>6. CartView' = CartEffect(cartTask[r], cartBefore)'
      BY <2>1, <2>3, <2>4, <2>5
    <2>7. \A c, d \in carts' : c = d
      BY <1>1, <2>1
    <2> QED BY <2>6, <2>7 DEF LoneCall
  <1> QED BY <1>1, <1>2, <1>3, <1>4, OwnStepLone DEF CartSteps

LEMMA ClearGuestLone ==
  ASSUME CartsInv, LoneInv, NEW r \in CartCalls, ClearGuest(r)
  PROVE  LoneInv'
  <1>1. /\ cartAt[r] = "clear" /\ CartQuiet /\ UNCHANGED <<carts, lines, shelf, cartTask>>
        /\ guestCart' = EmptyCart
        /\ CartGoWith(r, cartFrame[r], "answer")
    BY DEF ClearGuest, CartGo
  <1>2. r \in CartsRunning /\ cartTask[r] \in CartTasks /\ cartTask[r].kind \in {"merge", "order"}
    BY <1>1, RunsAt DEF KindFits, CartEnded
  <1>3. PICK f \in CartFrames : f = cartFrame[r]
    BY FrameTypes
  <1>4. ASSUME LoneCall(cartTask[r], cartFrame[r], "clear") PROVE LoneCall(cartTask[r], f, "answer")'
    <2>1. \A c, d \in carts' : c = d
      BY <1>1, <1>4 DEF LoneCall
    <2>2. CartView' = [guest |-> EmptyCart, account |-> CartView.account]
      BY <1>1, GuestChanged
    <2>3. CartEffect(cartTask[r], cartBefore)' = CartEffect(cartTask[r], cartBefore)
      BY <1>1 DEF CartEffect, Merged, CartQuiet
    <2>4. cartBefore \in [guest : [CartProducts -> Nat], account : [CartProducts -> Nat]]
      BY DEF LoneInv
    <2>5. CartEffect(cartTask[r], cartBefore) = [guest |-> EmptyCart, account |-> CartView.account]
      <3>1. CASE cartTask[r].kind = "order"
        <4>1. CartView = cartBefore
          BY <1>4, <3>1 DEF LoneCall
        <4> QED BY <1>2, <2>4, <3>1, <4>1, EffectOf
      <3>2. CASE cartTask[r].kind = "merge"
        <4>1. LoneMerge(cartFrame[r], "clear")
          BY <1>4, <3>2 DEF LoneCall
        <4>2. /\ cartBefore.guest = guestCart /\ cartBefore.guest # EmptyCart
              /\ \A p \in CartProducts : CartView.account[p] =
                   IF cartBefore.guest[p] = 0 THEN cartBefore.account[p] ELSE Merged(cartBefore, p)
          BY <4>1 DEF LoneMerge, EmptyCart
        <4>3. CartView.account \in [CartProducts -> Nat]
          BY ViewInStock DEF CartOwners
        <4>4. CartView.account = [p \in CartProducts |->
                IF cartBefore.guest[p] = 0 THEN cartBefore.account[p] ELSE Merged(cartBefore, p)]
          BY <4>2, <4>3
        <4>5. CartEffect(cartTask[r], cartBefore) = [guest |-> EmptyCart, account |-> [p \in CartProducts |->
                IF cartBefore.guest[p] = 0 THEN cartBefore.account[p] ELSE Merged(cartBefore, p)]]
          BY <1>2, <2>4, <3>2, <4>2, EffectOf
        <4> QED BY <4>4, <4>5
      <3> QED BY <1>2, <3>1, <3>2
    <2>6. CartView' = CartEffect(cartTask[r], cartBefore)'
      BY <2>2, <2>3, <2>5
    <2> QED BY <2>1, <2>6 DEF LoneCall
  <1> QED BY <1>1, <1>2, <1>3, <1>4, OwnStepLone DEF CartSteps

LEMMA NextItemLone ==
  ASSUME CartsInv, LoneInv, NEW r \in CartCalls, NextItem(r)
  PROVE  LoneInv'
  <1> DEFINE t == cartTask[r]  f == cartFrame[r]
  <1>1. cartAt[r] = "next" /\ UNCHANGED <<cartStore, cartTask>> /\ CartQuiet
    BY DEF NextItem
  <1>2. /\ r \in CartsRunning /\ t.kind = "merge" /\ f \in CartFrames
        /\ LoneCall(t, f, "next") => LoneMerge(f, "next") /\ \A c, d \in carts : c = d
    BY <1>1, RunsAt DEF KindFits, CartEnded, LoneCall
  <1>3. {"clear", "next", "line"} \subseteq CartSteps
    BY DEF CartSteps
  <1>4. ASSUME f.items = EmptyCart, CartGo(r, "clear") PROVE LoneInv'
    <2>1. LoneMerge(f, "next") => LoneMerge(f, "clear")
      BY <1>4 DEF LoneMerge
    <2>2. LoneCall(t, f, "next") => LoneCall(t, f, "clear")
      BY <1>2, <2>1 DEF LoneCall
    <2> QED BY <1>1, <1>2, <1>3, <1>4, <2>2, ReadStepLone DEF CartGo
  <1>5. ASSUME NEW p \in CartProducts, f.items[p] > 0, shelf[p] = 0,
               CartGoWith(r, [f EXCEPT !.items[p] = 0], "next")
        PROVE  LoneInv'
    <2> DEFINE g == [f EXCEPT !.items[p] = 0]
    <2>1. g \in CartFrames /\ \A q \in CartProducts : g.items[q] = IF q = p THEN 0 ELSE f.items[q]
      BY <1>2 DEF CartFrames
    <2> HIDE DEF g
    <2>2. ASSUME LoneMerge(f, "next") PROVE LoneMerge(g, "next")
      <3>1. ASSUME NEW q \in CartProducts
            PROVE  /\ g.items[q] \in {0, guestCart[q]}
                   /\ CartView.account[q] =
                        IF g.items[q] = guestCart[q] THEN cartBefore.account[q] ELSE Merged(cartBefore, q)
        <4>1. CASE q # p
          BY <2>1, <2>2, <4>1 DEF LoneMerge
        <4>2. CASE q = p
          <5>1. guestCart[p] > 0 /\ f.items[p] = guestCart[p] /\ g.items[p] = 0
            BY <1>5, <2>1, <2>2, FrameTypes DEF LoneMerge
          <5>2. CartView.account[p] = cartBefore.account[p]
            BY <2>2, <5>1 DEF LoneMerge
          <5>3. Merged(cartBefore, p) = cartBefore.account[p]
            BY <1>5 DEF Merged
          <5> QED BY <4>2, <5>1, <5>2, <5>3
        <4> QED BY <4>1, <4>2
      <3> QED BY <2>2, <3>1 DEF LoneMerge
    <2>3. LoneCall(t, f, "next") => LoneCall(t, g, "next")
      BY <1>2, <2>2 DEF LoneCall
    <2> QED BY <1>1, <1>2, <1>3, <1>5, <2>1, <2>3, ReadStepLone DEF g
  <1>6. ASSUME NEW p \in CartProducts, f.items[p] > 0, shelf[p] # 0,
               CartGoWith(r, [f EXCEPT !.stock = shelf[p], !.product = p], "line")
        PROVE  LoneInv'
    <2> DEFINE g == [f EXCEPT !.stock = shelf[p], !.product = p]
    <2>1. g \in CartFrames /\ g.product = p /\ g.stock = shelf[p] /\ g.items = f.items
      BY <1>2, FrameTypes DEF CartFrames
    <2> HIDE DEF g
    <2>2. LoneMerge(f, "next") => LoneMerge(g, "line")
      BY <1>6, <2>1, FrameTypes DEF LoneMerge
    <2>3. LoneCall(t, f, "next") => LoneCall(t, g, "line")
      BY <1>2, <2>2 DEF LoneCall
    <2> QED BY <1>1, <1>2, <1>3, <1>6, <2>1, <2>3, ReadStepLone DEF g
  <1> QED BY <1>4, <1>5, <1>6 DEF NextItem

LEMMA LineChangedLone ==
  ASSUME CartsInv, LoneInv, NEW r \in CartCalls, LineChanged(r)
  PROVE  LoneInv'
  <1>1. /\ cartAt[r] = "write" /\ CartGoWith(r, cartFrame[r], "failed")
        /\ UNCHANGED <<cartStore, cartTask>> /\ CartQuiet
    BY DEF LineChanged, CartGo
  <1>2. r \in CartsRunning /\ cartFrame[r] \in CartFrames /\ "failed" \in CartSteps /\ "failed" \in CartEnded
    BY <1>1, RunsAt DEF CartEnded, CartSteps
  <1> QED BY <1>1, <1>2, ReadStepLone

LEMMA InitLone == CartsInit => LoneInv
  <1> SUFFICES ASSUME CartsInit PROVE LoneInv
    OBVIOUS
  <1>1. CartsRunning = {}
    BY DEF CartsRunning, CartsInit, CartEnded
  <1>2. cartBefore \in [guest : [CartProducts -> Nat], account : [CartProducts -> Nat]]
    BY DEF CartsInit, NoCartView, EmptyCart
  <1> QED BY <1>1, <1>2 DEF LoneInv

LEMMA NextLone == CartsInv /\ LoneInv /\ [CartsNext]_cartVars => LoneInv'
  <1> SUFFICES ASSUME CartsInv, LoneInv, [CartsNext]_cartVars PROVE LoneInv'
    OBVIOUS
  <1>1. CASE UNCHANGED cartVars
    <2>1. CartView' = CartView
      BY <1>1, SameSeen DEF cartVars, cartStore
    <2>2. UNCHANGED <<carts, guestCart, lines, shelf, cartBefore, cartTask, cartFrame, cartAt, cartAlone>>
      BY <1>1 DEF cartVars
    <2>3. \A r \in CartCalls : CartEffect(cartTask[r], cartBefore)' = CartEffect(cartTask[r], cartBefore)
      BY <2>2 DEF CartEffect, Merged
    <2>4. CartsRunning' = CartsRunning
      BY <2>2 DEF CartsRunning
    <2>5. ASSUME NEW r \in CartCalls, LoneCall(cartTask[r], cartFrame[r], cartAt[r])
          PROVE  LoneCall(cartTask[r], cartFrame[r], cartAt[r])'
      BY <2>1, <2>2, <2>3, <2>5 DEF LoneCall, LoneMerge, Merged
    <2> QED BY <2>2, <2>4, <2>5 DEF LoneInv, CartsRunning
  <1>2. ASSUME NEW r \in CartCalls, CartStep(r) PROVE LoneInv'
    <2>1. ASSUME GetCart(r) PROVE LoneInv'
      BY <2>1, OverlapLone DEF GetCart
    <2> QED BY <1>2, <2>1, ReadProductLone, FindCartLone, CreateCartLone, ReadLineLone, WriteLineLone,
               LineChangedLone, DeleteLineLone, ReadGuestLone, WriteGuestLone, NextItemLone, ClearGuestLone
            DEF CartStep
  <1>3. ASSUME NEW r \in CartCalls, CartFails(r) PROVE LoneInv'
    BY <1>3, OverlapLone DEF CartFails
  <1>4. ASSUME NEW r \in CartCalls, NEW t \in CartTasks, CartBegins(r, t) PROVE LoneInv'
    BY <1>4, CartBeginsLone
  <1>5. ASSUME NEW p \in Popular, Sold(p) PROVE LoneInv'
    BY <1>5, OverlapLone DEF Sold
  <1>6. ASSUME GuestCartExpires PROVE LoneInv'
    BY <1>6, OverlapLone DEF GuestCartExpires
  <1> QED BY <1>1, <1>2, <1>3, <1>4, <1>5, <1>6 DEF CartsNext

LEMMA LoneInvariant == CartsSpec => [](CartsInv /\ LoneInv)
  BY InitCartsInv, NextCartsInv, InitLone, NextLone, PTL DEF CartsSpec

-----------------------------------------------------------------------------
\* Which statements end a call: getCart answers, and the checks refuse before anything is
\* written.
LEMMA StepsThatEnd ==
  ASSUME CartsInv, NEW r \in CartCalls, NEW step, cartAt'[r] = step, cartAt[r] # step, CartsNext
  PROVE  /\ step = "done" => GetCart(r)
         /\ step = "refused" => ReadProduct(r) \/ FindCart(r) \/ ReadLine(r) \/ ReadGuest(r)
  <1> USE DEF CartGo, CartGoWith, CartsInv, CartsTypeOK
  <1>1. ASSUME NEW q \in CartCalls, CartStep(q) \/ CartFails(q) \/ \E t \in CartTasks : CartBegins(q, t)
        PROVE  q = r
    <2>1. ASSUME q # r PROVE cartAt'[r] = cartAt[r]
      <3>1. CASE CartFails(q) \/ \E t \in CartTasks : CartBegins(q, t)
        BY <2>1, <3>1 DEF CartFails, CartBegins
      <3>2. CASE ReadProduct(q) \/ FindCart(q) \/ CreateCart(q) \/ ReadLine(q)
        BY <2>1, <3>2 DEF ReadProduct, FindCart, CreateCart, ReadLine
      <3>3. CASE WriteLine(q) \/ LineChanged(q) \/ DeleteLine(q)
        BY <2>1, <3>3 DEF WriteLine, LineChanged, DeleteLine
      <3>4. CASE ReadGuest(q) \/ WriteGuest(q) \/ NextItem(q) \/ ClearGuest(q) \/ GetCart(q)
        BY <2>1, <3>4 DEF ReadGuest, WriteGuest, NextItem, ClearGuest, GetCart
      <3> QED BY <1>1, <3>1, <3>2, <3>3, <3>4 DEF CartStep
    <2> QED BY <2>1
  <1>2. ~(\E p \in Popular : Sold(p)) /\ ~GuestCartExpires
    BY DEF Sold, GuestCartExpires
  <1>3. CASE CartFails(r)
    BY <1>3 DEF CartFails
  <1>4. ASSUME NEW t \in CartTasks, CartBegins(r, t) PROVE step \notin {"done", "refused"}
    BY <1>4 DEF CartBegins
  <1>5. CASE CreateCart(r) \/ WriteLine(r) \/ LineChanged(r) \/ DeleteLine(r)
    BY <1>5 DEF CreateCart, WriteLine, LineChanged, DeleteLine
  <1>6. CASE WriteGuest(r) \/ NextItem(r) \/ ClearGuest(r)
    BY <1>6 DEF WriteGuest, NextItem, ClearGuest
  <1>7. CASE ReadProduct(r)
    BY <1>7 DEF ReadProduct
  <1>8. CASE ReadLine(r)
    BY <1>8 DEF ReadLine
  <1>9. CASE GetCart(r)
    BY <1>9 DEF GetCart
  <1>10. CASE FindCart(r)
    <2>1. cartTask[r].kind \in {"add", "update", "remove", "merge"}
      BY <1>10, FrameTypes DEF FindCart, KindFits
    <2> QED BY <1>10, <2>1 DEF FindCart
  <1>11. CASE ReadGuest(r)
    <2>1. cartTask[r].kind \in {"add", "update", "remove", "merge", "order"}
      BY <1>11, FrameTypes DEF ReadGuest, KindFits
    <2> QED BY <1>11, <2>1 DEF ReadGuest
  <1>12. CartStep(r) \/ CartFails(r) \/ \E t \in CartTasks : CartBegins(r, t)
    BY <1>1, <1>2 DEF CartsNext
  <1> QED BY <1>3, <1>4, <1>5, <1>6, <1>7, <1>8, <1>9, <1>10, <1>11, <1>12 DEF CartStep

\* Units are checked against the stock, which only falls: never more in a line than there
\* were to begin with, whatever calls overlap.  And a call that runs alone, all its
\* statements together, does what it is for: it answers with the cart it made, or refuses
\* and leaves both carts alone.
THEOREM CartsAreKept == CartsSpec => CartsKeepTheirGoods
  <1>1. CartsInv => WithinStock
    BY DEF CartsInv, StoreFits, WithinStock, CartsTypeOK
  <1> DEFINE Atomic == \A r \in CartCalls :
       /\ cartAlone = r /\ cartAt'[r] = "done" /\ cartAt[r] # "done" =>
            /\ CartView = CartEffect(cartTask[r], cartBefore)
            /\ cartFrame'[r].items = CartView[cartTask[r].owner]
       /\ cartAlone = r /\ cartAt'[r] = "refused" /\ cartAt[r] # "refused" => CartView = cartBefore
  <1>2. CartsInv /\ LoneInv /\ [CartsNext]_cartVars => [Atomic]_cartVars
    <2> SUFFICES ASSUME CartsInv, LoneInv, CartsNext, NEW r \in CartCalls, cartAlone = r
                 PROVE  /\ cartAt'[r] = "done" /\ cartAt[r] # "done" =>
                            /\ CartView = CartEffect(cartTask[r], cartBefore)
                            /\ cartFrame'[r].items = CartView[cartTask[r].owner]
                        /\ cartAt'[r] = "refused" /\ cartAt[r] # "refused" => CartView = cartBefore
      OBVIOUS
    <2>1. ASSUME cartAt[r] \notin CartEnded
          PROVE  LoneCall(cartTask[r], cartFrame[r], cartAt[r])
      BY <2>1 DEF LoneInv, CartsRunning
    <2>2. ASSUME cartAt'[r] = "done", cartAt[r] # "done"
          PROVE  /\ CartView = CartEffect(cartTask[r], cartBefore)
                 /\ cartFrame'[r].items = CartView[cartTask[r].owner]
      <3>1. GetCart(r)
        BY <2>2, StepsThatEnd
      <3>2. CartView = CartEffect(cartTask[r], cartBefore)
        BY <2>1, <3>1 DEF GetCart, LoneCall, CartEnded
      <3>3. cartFrame'[r] = [NoCartFrame EXCEPT !.items = CartView[cartTask[r].owner]]
        BY <3>1 DEF GetCart, CartsInv, CartsTypeOK
      <3> QED BY <3>2, <3>3 DEF NoCartFrame
    <2>3. ASSUME cartAt'[r] = "refused", cartAt[r] # "refused" PROVE CartView = cartBefore
      <3>1. ReadProduct(r) \/ FindCart(r) \/ ReadLine(r) \/ ReadGuest(r)
        BY <2>3, StepsThatEnd
      <3>2. /\ cartAt[r] \in {"product", "find", "line", "read"}
            /\ LoneCall(cartTask[r], cartFrame[r], cartAt[r])
            /\ KindFits(cartTask[r], cartAt[r])
        BY <2>1, <3>1, FrameTypes DEF ReadProduct, FindCart, ReadLine, ReadGuest, CartEnded
      <3>3. cartTask[r].kind # "merge" \/ cartAt[r] = "read"
        <4>1. CASE FindCart(r)
          BY <2>3, <3>2, <4>1 DEF FindCart, CartGo, CartGoWith, CartsInv, CartsTypeOK, KindFits
        <4>2. CASE ReadLine(r)
          BY <2>3, <3>2, <4>2 DEF ReadLine, CartGoWith, CartsInv, CartsTypeOK
        <4>3. CASE ReadProduct(r) \/ ReadGuest(r)
          BY <3>2, <4>3 DEF ReadProduct, ReadGuest, KindFits
        <4> QED BY <3>1, <4>1, <4>2, <4>3
      <3> QED BY <3>2, <3>3 DEF LoneCall
    <2> QED BY <2>2, <2>3
  <1>3. CartsInv /\ LoneInv /\ [CartsNext]_cartVars => [\A r \in CartCalls :
       /\ cartAlone = r /\ cartAt'[r] = "done" /\ cartAt[r] # "done" =>
            /\ CartView = CartEffect(cartTask[r], cartBefore)
            /\ cartFrame'[r].items = CartView[cartTask[r].owner]
       /\ cartAlone = r /\ cartAt'[r] = "refused" /\ cartAt[r] # "refused" => CartView = cartBefore]_cartVars
    BY <1>2
  <1> QED BY <1>1, <1>3, LoneInvariant, PTL DEF CartsSpec, CartsKeepTheirGoods, LoneCallIsAtomic

-----------------------------------------------------------------------------
(***************************************************************************)
(* The token bucket for every limit, period, skew of the clocks and number *)
(* of calls: it holds its rate, and a call that waits as it was told gets  *)
(* in.                                                                     *)
(***************************************************************************)

\* What is in the bucket counts as admitted already: a full bucket, and what time
\* refilled since the window opened, bound the two together.
Budget ==
  window.open =>
    bucket.parts + window.admitted * Ttl
      <= Capacity + Limit * (bucket.stamp - window.from + window.slack)

\* The moment a blocked call was given is one by which the bucket holds a token.
TokenByThen ==
  retryAt # -1 => bucket.parts + (retryAt - bucket.stamp) * Limit >= Ttl

BucketInv == ThrottleTypeOK /\ Budget /\ TokenByThen

-----------------------------------------------------------------------------
LEMMA CapacityHoldsAToken == Capacity \in Nat /\ Ttl <= Capacity
  <1>1. \A l, t \in Nat \ {0} : l * t \in Nat /\ t <= l * t
    OBVIOUS
  <1> QED BY <1>1, ThrottleAssumption DEF Capacity

LEMMA TimesLimit ==
  ASSUME NEW n \in Nat
  PROVE  n * Limit \in Nat
  BY ThrottleAssumption

LEMMA RoundedUp ==
  ASSUME NEW n \in Int
  PROVE  /\ (n + Limit - 1) \div Limit \in Int
         /\ ((n + Limit - 1) \div Limit) * Limit >= n
  <1>1. Limit \in Int /\ Limit > 0
    BY ThrottleAssumption
  <1> DEFINE q == (n + Limit - 1) \div Limit
             r == (n + Limit - 1) % Limit
  <1>2. q \in Int /\ r \in Int /\ n + Limit - 1 = Limit * q + r /\ r < Limit
    BY <1>1
  <1>3. q * Limit = Limit * q
    BY <1>1, <1>2
  <1> QED BY <1>1, <1>2, <1>3

\* The script never leaves less than nothing, nor more than a full bucket.
LEMMA BucketBounds ==
  ASSUME bucket \in [parts : 0..Capacity, stamp : Int, touched : Int, there : BOOLEAN],
         NEW now \in Int
  PROVE  /\ Refilled(now) \in 0..Capacity
         /\ Left(now) \in 0..Capacity
         /\ Wait(now) \in Int
  <1>1. Capacity \in Nat /\ Ttl <= Capacity /\ Ttl \in Nat \ {0}
    BY CapacityHoldsAToken, ThrottleAssumption
  <1>2. AtLeast0(now - bucket.stamp) \in Nat
    BY DEF AtLeast0
  <1>3. AtLeast0(now - bucket.stamp) * Limit \in Nat
    BY <1>2, TimesLimit
  <1>4. Refilled(now) \in 0..Capacity
    BY <1>1, <1>3 DEF Refilled, AtMostFull
  <1>5. Left(now) \in 0..Capacity
    BY <1>1, <1>4 DEF Left, Admits
  <1>6. Ttl - Left(now) \in Int
    BY <1>1, <1>5
  <1>7. Wait(now) \in Int
    BY <1>6, RoundedUp DEF Wait
  <1> QED BY <1>4, <1>5, <1>7

-----------------------------------------------------------------------------
LEMMA InitBucketInv == ThrottleInit => BucketInv
  <1> SUFFICES ASSUME ThrottleInit PROVE BucketInv
    OBVIOUS
  <1>1. Capacity \in Nat
    BY CapacityHoldsAToken
  <1>2. ThrottleTypeOK
    BY <1>1 DEF ThrottleInit, ThrottleTypeOK, HitSteps
  <1>3. Budget /\ TokenByThen
    BY DEF ThrottleInit, Budget, TokenByThen
  <1> QED BY <1>2, <1>3 DEF BucketInv

LEMMA StampType ==
  ASSUME ThrottleTypeOK, NEW h \in Hits, NEW now \in (clock - Skew)..(clock + Skew), Stamp(h, now)
  PROVE  ThrottleTypeOK'
  <1>1. now \in Int
    BY ThrottleAssumption DEF ThrottleTypeOK
  <1> QED BY <1>1 DEF ThrottleTypeOK, Stamp, HitSteps

LEMMA EvaluateType ==
  ASSUME ThrottleTypeOK, NEW h \in Hits, NEW opens \in BOOLEAN, Evaluate(h, opens)
  PROVE  ThrottleTypeOK'
  <1> DEFINE now == hit[h].stamp
  <1>1. now \in Int
    BY DEF ThrottleTypeOK
  <1>2. Left(now) \in 0..Capacity /\ Wait(now) \in Int
    BY <1>1, BucketBounds DEF ThrottleTypeOK
  <1>3. bucket' \in [parts : 0..Capacity, stamp : Int, touched : Int, there : BOOLEAN]
    BY <1>1, <1>2 DEF ThrottleTypeOK, Evaluate
  <1>4. hit' \in [Hits -> [at : HitSteps, stamp : Int]]
    BY DEF ThrottleTypeOK, Evaluate, HitSteps
  <1>5. Backwards(now) \in Nat
    BY <1>1, ThrottleAssumption DEF ThrottleTypeOK, Backwards, AtLeast0
  <1>6. window' \in [open : BOOLEAN, from : Int, admitted : Nat, slack : Nat]
    <2> DEFINE one == IF Admits(now) THEN 1 ELSE 0
    <2>1. one \in Nat /\ window' = Counted(now, opens)
      BY DEF Evaluate
    <2>2. CASE opens
      BY <1>1, <2>1, <2>2 DEF Counted
    <2>3. CASE ~opens /\ window.open
      <3>1. window' = [window EXCEPT !.admitted = @ + one, !.slack = @ + Backwards(now)]
        BY <2>1, <2>3 DEF Counted
      <3>2. window.admitted + one \in Nat /\ window.slack + Backwards(now) \in Nat
        BY <1>5, <2>1 DEF ThrottleTypeOK
      <3> QED BY <3>1, <3>2 DEF ThrottleTypeOK
    <2>4. CASE ~opens /\ ~window.open
      BY <2>1, <2>4 DEF Counted, ThrottleTypeOK
    <2> QED BY <2>2, <2>3, <2>4
  <1>7. retryAt' \in Int
    BY <1>1, <1>2 DEF Evaluate, AtLeast0
  <1>8. clock' \in Nat
    BY DEF ThrottleTypeOK, Evaluate
  <1> QED BY <1>3, <1>4, <1>6, <1>7, <1>8 DEF ThrottleTypeOK

\* What is left after a call, and what the call took, is no more than there was and
\* what the stamps since refilled; a dropped bucket gives back no more than the slack.
LEMMA NothingFromNothing ==
  ASSUME ThrottleTypeOK, Budget, window.open, NEW now \in Int
  PROVE  Refilled(now) + window.admitted * Ttl
           <= Capacity + Limit * (now - window.from + (window.slack + Backwards(now)))
  <1> DEFINE base == bucket.stamp - window.from + window.slack
             ahead == AtLeast0(now - bucket.stamp)
             used == window.admitted * Ttl
  <1>1. base \in Int /\ ahead \in Nat /\ used \in Nat
    BY ThrottleAssumption DEF ThrottleTypeOK, AtLeast0
  <1>2. Limit \in Nat \ {0} /\ Ttl \in Nat /\ Capacity = Limit * Ttl /\ Capacity \in Nat
    BY ThrottleAssumption, CapacityHoldsAToken DEF Capacity
  <1>3. bucket.parts \in Nat /\ bucket.parts + used <= Capacity + Limit * base
    BY <1>2 DEF ThrottleTypeOK, Budget
  <1>4. CASE Kept
    <2>1. now - window.from + (window.slack + Backwards(now)) = base + ahead
      BY <1>4 DEF ThrottleTypeOK, Backwards, AtLeast0
    <2>2. Limit * (base + ahead) = Limit * base + ahead * Limit
      BY <1>1, <1>2
    <2>3. Refilled(now) <= bucket.parts + ahead * Limit
      BY <1>1, <1>2, <1>3, <1>4, TimesLimit DEF Refilled, AtMostFull
    <2>4. Refilled(now) \in Int /\ ahead * Limit \in Int /\ Limit * base \in Int
      BY <1>1, <1>2, BucketBounds, TimesLimit DEF ThrottleTypeOK
    <2> QED BY <1>1, <1>2, <1>3, <2>1, <2>2, <2>3, <2>4
  <1>5. CASE ~Kept
    <2> DEFINE later == now - window.from + (window.slack + Backwards(now))
    <2>1. later \in Int /\ base + Ttl <= later
      BY <1>2, <1>5 DEF ThrottleTypeOK, Backwards, AtLeast0
    <2>2. Limit * (base + Ttl) = Limit * base + Capacity
      BY <1>1, <1>2
    <2>3. Limit * (base + Ttl) <= Limit * later
      <3>1. \A l \in Nat, a, b \in Int : a <= b => l * a <= l * b
        OBVIOUS
      <3> QED BY <1>1, <1>2, <2>1, <3>1
    <2>4. Limit * base \in Int /\ Limit * later \in Int
      BY <1>1, <1>2, <2>1
    <2>5. Refilled(now) = Capacity
      BY <1>5 DEF Refilled
    <2> QED BY <1>1, <1>2, <1>3, <2>2, <2>3, <2>4, <2>5
  <1> QED BY <1>4, <1>5

LEMMA EvaluateBudget ==
  ASSUME ThrottleTypeOK, Budget, NEW h \in Hits, NEW opens \in BOOLEAN, Evaluate(h, opens)
  PROVE  Budget'
  <1> DEFINE now == hit[h].stamp
             one == IF Admits(now) THEN 1 ELSE 0
  <1>1. now \in Int /\ one \in Nat
    BY DEF ThrottleTypeOK
  <1>2. Refilled(now) \in 0..Capacity /\ Capacity \in Nat /\ Ttl \in Nat
    BY <1>1, BucketBounds, CapacityHoldsAToken, ThrottleAssumption DEF ThrottleTypeOK
  <1>3. Left(now) + one * Ttl = Refilled(now)
    BY <1>2 DEF Left
  <1>4. bucket'.parts = Left(now) /\ bucket'.stamp = now /\ window' = Counted(now, opens)
    BY DEF Evaluate
  <1>5. CASE opens
    <2>1. window' = [open |-> TRUE, from |-> now, admitted |-> one, slack |-> 0]
      BY <1>4, <1>5 DEF Counted
    <2>2. Limit * (now - now + 0) = 0
      BY <1>1, ThrottleAssumption
    <2> QED BY <1>1, <1>2, <1>3, <1>4, <2>1, <2>2 DEF Budget
  <1>6. CASE ~opens /\ window.open
    <2>1. window' = [window EXCEPT !.admitted = @ + one, !.slack = @ + Backwards(now)]
      BY <1>4, <1>6 DEF Counted
    <2>2. /\ window'.from = window.from
          /\ window'.admitted = window.admitted + one
          /\ window'.slack = window.slack + Backwards(now)
      BY <2>1 DEF ThrottleTypeOK
    <2>3. Refilled(now) + window.admitted * Ttl
            <= Capacity + Limit * (now - window.from + (window.slack + Backwards(now)))
      BY <1>1, <1>6, NothingFromNothing
    <2>4. (window.admitted + one) * Ttl = window.admitted * Ttl + one * Ttl
      BY <1>1, <1>2 DEF ThrottleTypeOK
    <2>5. window.admitted * Ttl \in Int /\ one * Ttl \in Int /\ Left(now) \in Int
      BY <1>1, <1>2, BucketBounds DEF ThrottleTypeOK
    <2>6. Left(now) + (window.admitted + one) * Ttl = Refilled(now) + window.admitted * Ttl
      BY <1>2, <1>3, <2>4, <2>5
    <2>7. bucket'.parts + window'.admitted * Ttl
            <= Capacity + Limit * (bucket'.stamp - window'.from + window'.slack)
      BY <1>4, <2>2, <2>3, <2>6
    <2> QED BY <2>7 DEF Budget
  <1>7. CASE ~opens /\ ~window.open
    BY <1>4, <1>7 DEF Counted, Budget
  <1> QED BY <1>5, <1>6, <1>7

LEMMA EvaluateTokenByThen ==
  ASSUME ThrottleTypeOK, NEW h \in Hits, NEW opens \in BOOLEAN, Evaluate(h, opens)
  PROVE  TokenByThen'
  <1> DEFINE now == hit[h].stamp
  <1>1. now \in Int /\ Left(now) \in Int /\ Wait(now) \in Int /\ Ttl \in Int /\ Limit \in Nat
    BY BucketBounds, CapacityHoldsAToken, ThrottleAssumption DEF ThrottleTypeOK
  <1>2. CASE Admits(now)
    BY <1>2 DEF Evaluate, TokenByThen
  <1>3. CASE ~Admits(now)
    <2>1. retryAt' = AtLeast0(now + Wait(now))
      BY <1>3 DEF Evaluate
    <2>2. retryAt' \in Int /\ retryAt' - now >= Wait(now)
      BY <1>1, <2>1 DEF AtLeast0
    <2>3. Wait(now) * Limit >= Ttl - Left(now)
      BY <1>1, RoundedUp DEF Wait
    <2>4. (retryAt' - now) * Limit >= Wait(now) * Limit
      <3>1. \A l \in Nat, a, b \in Int : a <= b => a * l <= b * l
        OBVIOUS
      <3> QED BY <1>1, <2>2, <3>1
    <2>5. (retryAt' - now) * Limit \in Int /\ Wait(now) * Limit \in Int
      BY <1>1, <2>2
    <2>6. Left(now) + (retryAt' - now) * Limit >= Ttl
      BY <1>1, <2>3, <2>4, <2>5
    <2> QED BY <2>6 DEF Evaluate, TokenByThen
  <1> QED BY <1>2, <1>3

LEMMA NextBucketInv == BucketInv /\ [ThrottleNext]_throttleVars => BucketInv'
  <1> SUFFICES ASSUME BucketInv, [ThrottleNext]_throttleVars PROVE BucketInv'
    OBVIOUS
  <1> USE DEF BucketInv
  <1>1. CASE Tick
    BY <1>1 DEF Tick, ThrottleTypeOK, Budget, TokenByThen
  <1>2. ASSUME NEW h \in Hits, NEW now \in (clock - Skew)..(clock + Skew), Stamp(h, now)
        PROVE  BucketInv'
    <2>1. ThrottleTypeOK'
      BY <1>2, StampType
    <2> QED BY <1>2, <2>1 DEF Stamp, Budget, TokenByThen
  <1>3. ASSUME NEW h \in Hits, NEW opens \in BOOLEAN, Evaluate(h, opens)
        PROVE  BucketInv'
    BY <1>3, EvaluateType, EvaluateBudget, EvaluateTokenByThen
  <1>4. CASE UNCHANGED throttleVars
    BY <1>4 DEF throttleVars, ThrottleTypeOK, Budget, TokenByThen
  <1> QED BY <1>1, <1>2, <1>3, <1>4 DEF ThrottleNext

LEMMA BucketInvariant == ThrottleSpec => []BucketInv
  BY InitBucketInv, NextBucketInv, PTL DEF ThrottleSpec

-----------------------------------------------------------------------------
\* Every variable keeps its type: the script never leaves less than nothing in the
\* bucket, nor more than it holds.
THEOREM ThrottleTypeCorrect == ThrottleSpec => []ThrottleTypeOK
  <1>1. BucketInv => ThrottleTypeOK
    BY DEF BucketInv
  <1> QED BY <1>1, BucketInvariant, PTL

\* From any call on, no more are admitted than a full bucket and what time refills,
\* however the calls of the instances arrive and whenever Redis drops the bucket.
LEMMA TheRateHolds == ThrottleSpec => []RateHolds
  <1>1. BucketInv => RateHolds
    <2> SUFFICES ASSUME BucketInv, window.open PROVE RateHolds
      BY DEF RateHolds
    <2> DEFINE used == window.admitted * Ttl
               most == Capacity + Limit * (bucket.stamp - window.from + window.slack)
    <2>1. bucket.parts + used <= most
      BY DEF BucketInv, Budget
    <2>2. bucket.parts \in Nat /\ used \in Int /\ most \in Int
      <3>1. Limit \in Int /\ Ttl \in Int /\ Capacity \in Nat
        BY ThrottleAssumption, CapacityHoldsAToken
      <3> QED BY <3>1 DEF BucketInv, ThrottleTypeOK
    <2> QED BY <2>1, <2>2 DEF RateHolds
  <1> QED BY <1>1, BucketInvariant, PTL

\* A blocked call that waits for as long as it was told, with nobody before it, is
\* admitted: the wait is rounded the right way, and a dropped bucket is a full one.
LEMMA WaitingIsEnough == ThrottleSpec => RetriesAreAdmitted
  <1> DEFINE Admitted ==
        \A h \in Hits :
          hit[h].at = "stamped" /\ hit'[h].at # "stamped" /\ retryAt # -1 /\ hit[h].stamp >= retryAt
            => hit'[h].at = "admitted"
  <1>1. BucketInv /\ [ThrottleNext]_throttleVars => [Admitted]_throttleVars
    <2> SUFFICES ASSUME BucketInv, ThrottleNext, NEW h \in Hits,
                        hit[h].at = "stamped", hit'[h].at # "stamped",
                        retryAt # -1, hit[h].stamp >= retryAt
                 PROVE  hit'[h].at = "admitted"
      BY DEF throttleVars
    <2> DEFINE now == hit[h].stamp
    <2>1. PICK opens \in BOOLEAN : Evaluate(h, opens)
      BY DEF ThrottleNext, Tick, Stamp, Evaluate, BucketInv, ThrottleTypeOK
    <2>2. now \in Int /\ retryAt \in Int /\ Limit \in Nat \ {0} /\ Ttl \in Nat
          /\ Capacity \in Nat /\ Ttl <= Capacity
      BY ThrottleAssumption, CapacityHoldsAToken DEF BucketInv, ThrottleTypeOK
    <2>3. Refilled(now) >= Ttl
      <3>1. CASE ~Kept
        BY <2>2, <3>1 DEF Refilled
      <3>2. CASE Kept
        <4> DEFINE ahead == AtLeast0(now - bucket.stamp)
                   told == retryAt - bucket.stamp
        <4>1. bucket.parts \in Nat /\ told \in Int /\ ahead \in Nat /\ told <= ahead
          BY <2>2 DEF BucketInv, ThrottleTypeOK, AtLeast0
        <4>2. told * Limit <= ahead * Limit
          <5>1. \A l \in Nat, a, b \in Int : a <= b => a * l <= b * l
            OBVIOUS
          <5> QED BY <2>2, <4>1, <5>1
        <4>3. told * Limit \in Int /\ ahead * Limit \in Int
          BY <2>2, <4>1
        <4>4. bucket.parts + told * Limit >= Ttl
          BY DEF BucketInv, TokenByThen
        <4>5. bucket.parts + ahead * Limit >= Ttl
          BY <2>2, <4>1, <4>2, <4>3, <4>4
        <4> QED BY <2>2, <3>2, <4>5 DEF Refilled, AtMostFull
      <3> QED BY <3>1, <3>2
    <2> QED BY <2>1, <2>3 DEF Evaluate, Admits, BucketInv, ThrottleTypeOK
  <1> QED BY <1>1, BucketInvariant, PTL DEF ThrottleSpec, RetriesAreAdmitted

\* For every limit, period and number of calls, the bucket holds its rate and its word.
THEOREM TheBucketHolds == ThrottleSpec => BucketKeepsItsWord
  BY TheRateHolds, WaitingIsEnough DEF BucketKeepsItsWord

-----------------------------------------------------------------------------
(***************************************************************************)
(* The second factor for every number of requests and of recovery codes,   *)
(* whatever kinds the requests are of and however they interleave.         *)
(***************************************************************************)

CodeRaced == \E r \in crossed : secretTask[r].kind = "login" /\ secretTask[r].code # NoCode

\* Only a confirmation or a spending about to write holds the row it read, and only
\* a request that has begun can be overtaken.
HoldersWrite ==
  \A r \in SecretCalls :
    /\ secretSeen[r] # NoSecret => secretAt[r] = "write" /\ secretTask[r].kind \in {"enable", "login"}
    /\ r \in crossed => secretAt[r] # "idle"

SecretStepsFit ==
  \A r \in SecretCalls :
    /\ secretAt[r] = "find" => secretTask[r].kind = "enable"
    /\ secretAt[r] \in {"check", "verify"} => secretTask[r].kind = "login"

\* A code that is shown, and one that was used, is of a setup that is over.
CodesAreOfOldSetups ==
  /\ \A r \in SecretCalls : secretTask[r].code # NoCode => secretAt[secretTask[r].code[1]] = "done"
  /\ \A c \in Codes : usedCodes[c] > 0 => secretAt[c[1]] = "done"

\* What a confirmation or a spending decided on is still the row, unless another
\* write came between.
ConfirmersSaw ==
  \A r \in SecretCalls : secretAt[r] = "write" /\ secretTask[r].kind = "enable" =>
    /\ secretTask[r].app # NoSetup
    /\ secretSeen[r].by \in proved
    /\ r \in crossed \/ secret.by = secretSeen[r].by
SpendersSaw ==
  \A r \in SecretCalls : secretAt[r] = "write" /\ secretTask[r].kind = "login" =>
    /\ secretTask[r].code \in secretSeen[r].codes
    /\ r \in crossed \/ secret = secretSeen[r]

\* Past the check of the second factor, a request of staff has shown one.
StaffHaveShown ==
  \A r \in SecretCalls : Staff /\ secretAt[r] \in {"verify", "issue", "session"} =>
    secretTask[r].app # NoSetup \/ secretTask[r].code # NoCode

SecretInv ==
  /\ TwoFactorTypeOK
  /\ HoldersWrite
  /\ SecretStepsFit
  /\ CodesAreOfOldSetups
  /\ ConfirmersSaw
  /\ SpendersSaw
  /\ StaffHaveShown
  /\ EnabledSecretIsProved
  /\ RecoveryCodesAreSpent
  /\ CodesGoWithSecret

-----------------------------------------------------------------------------
LEMMA TaskFields ==
  ASSUME NEW t \in SecretTasks
  PROVE  /\ t.kind \in SecretKinds \cup {"none"}
         /\ t.code = NoCode \/ t.code \in Codes
         /\ t.app \in SecretCalls \cup {NoSetup}
  BY DEF SecretTasks, SecretKinds

LEMMA CodeFields ==
  ASSUME NEW c \in Codes
  PROVE  c[1] \in SecretCalls /\ c # NoCode
  <1>1. PICK s \in SecretCalls, n \in 1..PerSetup : c = <<s, n>>
    BY DEF Codes
  <1> QED BY <1>1, TwoFactorAssumption DEF NoCode

LEMMA NoSecretFields ==
  /\ NoSecret \in SecretRows
  /\ NoSecret.by = NoSetup /\ NoSecret.enabled = FALSE /\ NoSecret.codes = {}
  BY DEF NoSecret, SecretRows

LEMMA InitSecretInv == TwoFactorInit => SecretInv
  <1> SUFFICES ASSUME TwoFactorInit PROVE SecretInv
    OBVIOUS
  <1>1. NoSecretTask \in SecretTasks /\ NoSecretTask.code = NoCode /\ NoSecretTask.kind = "none"
    BY DEF NoSecretTask, SecretTasks
  <1>2. TwoFactorTypeOK
    BY <1>1, NoSecretFields DEF TwoFactorInit, TwoFactorTypeOK, SecretSteps
  <1>3. HoldersWrite /\ SecretStepsFit /\ ConfirmersSaw /\ SpendersSaw /\ StaffHaveShown
    BY DEF TwoFactorInit, HoldersWrite, SecretStepsFit, ConfirmersSaw, SpendersSaw, StaffHaveShown
  <1>4. CodesAreOfOldSetups
    BY <1>1 DEF TwoFactorInit, CodesAreOfOldSetups
  <1>5. EnabledSecretIsProved /\ CodesGoWithSecret /\ RecoveryCodesAreSpent
    BY NoSecretFields DEF TwoFactorInit, EnabledSecretIsProved, CodesGoWithSecret, RecoveryCodesAreSpent
  <1> QED BY <1>2, <1>3, <1>4, <1>5 DEF SecretInv

LEMMA SecretBeginsIInv ==
  ASSUME SecretInv, NEW r \in SecretCalls, NEW t \in SecretTasks, SecretBegins(r, t)
  PROVE  SecretInv'
  <1>1. secretAt[r] = "idle" /\ secretTask' = [secretTask EXCEPT ![r] = t]
    BY DEF SecretBegins
  <1>2. \A s \in {t.app, t.code[1]} \ {NoSetup} : secretAt[s] = "done"
    BY DEF SecretBegins
  <1>3. PICK step \in {"check", "find", "refused", "write"} :
          /\ secretAt' = [secretAt EXCEPT ![r] = step]
          /\ step = "write" => t.kind \notin {"login", "enable"}
          /\ step = "check" => t.kind = "login"
          /\ step = "find" => t.kind = "enable"
    BY DEF SecretBegins, SecretGoes
  <1>4. secretSeen' = [secretSeen EXCEPT ![r] = NoSecret]
    BY DEF SecretBegins, Forget
  <1>5. UNCHANGED <<role, secret, proved, usedCodes, crossed>>
    BY DEF SecretBegins
  <1>6. r \notin crossed
    BY <1>1 DEF SecretInv, HoldersWrite
  <1>7. TwoFactorTypeOK'
    BY <1>1, <1>3, <1>4, <1>5, NoSecretFields DEF SecretInv, TwoFactorTypeOK, SecretSteps
  <1>8. \A s \in SecretCalls : secretAt[s] = "done" => secretAt'[s] = "done"
    BY <1>1, <1>3 DEF SecretInv, TwoFactorTypeOK
  <1>9. HoldersWrite' /\ SecretStepsFit'
    BY <1>1, <1>3, <1>4, <1>5 DEF SecretInv, HoldersWrite, SecretStepsFit, TwoFactorTypeOK
  <1>10. CodesAreOfOldSetups'
    <2>1. ASSUME NEW q \in SecretCalls, secretTask'[q].code # NoCode
          PROVE  secretAt'[secretTask'[q].code[1]] = "done"
      <3>1. secretTask'[q] \in SecretTasks
        BY <1>7 DEF TwoFactorTypeOK
      <3>2. secretTask'[q].code[1] \in SecretCalls
        BY <2>1, <3>1, TaskFields, CodeFields
      <3>3. CASE q = r
        <4>1. t.code[1] \in SecretCalls /\ t.code[1] # NoSetup
          BY <1>1, <3>2, <3>3, TwoFactorAssumption DEF SecretInv, TwoFactorTypeOK
        <4> QED BY <1>1, <1>2, <1>8, <3>3, <4>1 DEF SecretInv, TwoFactorTypeOK
      <3>4. CASE q # r
        BY <1>1, <1>8, <2>1, <3>2, <3>4 DEF SecretInv, TwoFactorTypeOK, CodesAreOfOldSetups
      <3> QED BY <3>3, <3>4
    <2>2. ASSUME NEW c \in Codes, usedCodes'[c] > 0
          PROVE  secretAt'[c[1]] = "done"
      BY <1>5, <1>8, <2>2, CodeFields DEF SecretInv, CodesAreOfOldSetups
    <2> QED BY <2>1, <2>2 DEF CodesAreOfOldSetups
  <1>11. ConfirmersSaw' /\ SpendersSaw' /\ StaffHaveShown'
    BY <1>1, <1>3, <1>4, <1>5 DEF SecretInv, ConfirmersSaw, SpendersSaw, StaffHaveShown, Staff, TwoFactorTypeOK
  <1>12. \A q \in crossed : q # r /\ secretTask'[q] = secretTask[q]
    BY <1>1, <1>6 DEF SecretInv, TwoFactorTypeOK
  <1>13. EnabledSecretIsProved' /\ RecoveryCodesAreSpent' /\ CodesGoWithSecret'
    BY <1>5, <1>12 DEF SecretInv, EnabledSecretIsProved, RecoveryCodesAreSpent, CodesGoWithSecret
  <1> QED BY <1>7, <1>9, <1>10, <1>11, <1>13 DEF SecretInv

-----------------------------------------------------------------------------
\* A step that moves one request on without a write to the row.
LEMMA SecretMoveKeeps ==
  ASSUME SecretInv, NEW r \in SecretCalls, NEW step \in SecretSteps,
         secretAt[r] \notin {"idle", "done"},
         secretAt' = [secretAt EXCEPT ![r] = step], step # "idle",
         UNCHANGED <<role, secret, secretTask, usedCodes, crossed>>,
         proved \subseteq proved', proved' \subseteq SecretCalls,
         secretSeen' \in [SecretCalls -> SecretRows],
         \A q \in SecretCalls \ {r} : secretSeen'[q] = secretSeen[q],
         secretSeen'[r] # NoSecret => step = "write" /\ secretTask[r].kind \in {"enable", "login"},
         step = "find" => secretTask[r].kind = "enable",
         step \in {"check", "verify"} => secretTask[r].kind = "login"
  PROVE  /\ TwoFactorTypeOK' /\ HoldersWrite' /\ SecretStepsFit' /\ CodesAreOfOldSetups'
         /\ EnabledSecretIsProved' /\ RecoveryCodesAreSpent' /\ CodesGoWithSecret'
  <1>1. TwoFactorTypeOK'
    BY DEF SecretInv, TwoFactorTypeOK
  <1>2. HoldersWrite' /\ SecretStepsFit'
    BY DEF SecretInv, HoldersWrite, SecretStepsFit, TwoFactorTypeOK
  <1>3. \A s \in SecretCalls : secretAt[s] = "done" => secretAt'[s] = "done"
    BY DEF SecretInv, TwoFactorTypeOK
  <1>4. \A q \in SecretCalls : secretTask[q].code # NoCode => secretTask[q].code[1] \in SecretCalls
    BY TaskFields, CodeFields DEF SecretInv, TwoFactorTypeOK
  <1>5. CodesAreOfOldSetups'
    BY <1>3, <1>4, CodeFields DEF SecretInv, CodesAreOfOldSetups
  <1>6. EnabledSecretIsProved' /\ RecoveryCodesAreSpent' /\ CodesGoWithSecret'
    BY DEF SecretInv, EnabledSecretIsProved, RecoveryCodesAreSpent, CodesGoWithSecret
  <1> QED BY <1>1, <1>2, <1>5, <1>6

LEMMA FindSecretIInv ==
  ASSUME SecretInv, NEW r \in SecretCalls, FindSecret(r)
  PROVE  SecretInv'
  <1>1. /\ secretAt[r] = "find" /\ secretTask[r].kind = "enable"
        /\ UNCHANGED <<role, secret, secretTask, usedCodes, crossed>>
    BY DEF FindSecret, SecretInv, SecretStepsFit
  <1>2. CASE secret.by = NoSetup \/ secretTask[r].app # secret.by
    <2>1. /\ secretAt' = [secretAt EXCEPT ![r] = "refused"]
          /\ secretSeen' = [secretSeen EXCEPT ![r] = NoSecret] /\ proved' = proved
      BY <1>2 DEF FindSecret, SecretGoes, Forget
    <2>2. /\ secretSeen' \in [SecretCalls -> SecretRows] /\ secretSeen'[r] = NoSecret
          /\ \A q \in SecretCalls \ {r} : secretSeen'[q] = secretSeen[q]
      BY <2>1, NoSecretFields DEF SecretInv, TwoFactorTypeOK
    <2>3. /\ TwoFactorTypeOK' /\ HoldersWrite' /\ SecretStepsFit' /\ CodesAreOfOldSetups'
          /\ EnabledSecretIsProved' /\ RecoveryCodesAreSpent' /\ CodesGoWithSecret'
      <3>1. "refused" \in SecretSteps /\ proved \subseteq proved' /\ proved' \subseteq SecretCalls
        BY <2>1 DEF SecretSteps, SecretInv, TwoFactorTypeOK
      <3> QED BY <1>1, <2>1, <2>2, <3>1, SecretMoveKeeps
    <2>4. ConfirmersSaw' /\ SpendersSaw' /\ StaffHaveShown'
      BY <1>1, <2>1 DEF SecretInv, ConfirmersSaw, SpendersSaw, StaffHaveShown, Staff, TwoFactorTypeOK
    <2> QED BY <2>3, <2>4 DEF SecretInv
  <1>3. CASE ~(secret.by = NoSetup \/ secretTask[r].app # secret.by)
    <2>1. /\ secretAt' = [secretAt EXCEPT ![r] = "write"]
          /\ secretSeen' = [secretSeen EXCEPT ![r] = secret] /\ proved' = proved \cup {secret.by}
      BY <1>3 DEF FindSecret, SecretGoes, Remember
    <2>2. secret \in SecretRows /\ secret.by \in SecretCalls
      BY <1>3 DEF SecretInv, TwoFactorTypeOK, SecretRows
    <2>3. /\ secretSeen' \in [SecretCalls -> SecretRows]
          /\ \A q \in SecretCalls \ {r} : secretSeen'[q] = secretSeen[q]
      BY <2>1, <2>2 DEF SecretInv, TwoFactorTypeOK
    <2>4. /\ TwoFactorTypeOK' /\ HoldersWrite' /\ SecretStepsFit' /\ CodesAreOfOldSetups'
          /\ EnabledSecretIsProved' /\ RecoveryCodesAreSpent' /\ CodesGoWithSecret'
      <3>1. "write" \in SecretSteps /\ proved \subseteq proved' /\ proved' \subseteq SecretCalls
        BY <2>1, <2>2 DEF SecretSteps, SecretInv, TwoFactorTypeOK
      <3> QED BY <1>1, <2>1, <2>3, <3>1, SecretMoveKeeps
    <2>5. ConfirmersSaw'
      BY <1>1, <1>3, <2>1, <2>2 DEF SecretInv, ConfirmersSaw, TwoFactorTypeOK
    <2>6. SpendersSaw' /\ StaffHaveShown'
      BY <1>1, <2>1 DEF SecretInv, SpendersSaw, StaffHaveShown, Staff, TwoFactorTypeOK
    <2> QED BY <2>4, <2>5, <2>6 DEF SecretInv
  <1> QED BY <1>2, <1>3

LEMMA CheckEnabledIInv ==
  ASSUME SecretInv, NEW r \in SecretCalls, CheckEnabled(r)
  PROVE  SecretInv'
  <1>1. secretAt[r] = "check" /\ UNCHANGED <<role, secret, secretTask, secretSeen, proved, usedCodes, crossed>>
    BY DEF CheckEnabled
  <1>2. secretTask[r].kind = "login" /\ secretSeen[r] = NoSecret
    BY <1>1 DEF SecretInv, SecretStepsFit, HoldersWrite
  <1>3. PICK step \in {"enrol", "issue", "askCode", "verify"} :
          /\ secretAt' = [secretAt EXCEPT ![r] = step]
          /\ step = "issue" => ~Staff
          /\ step = "verify" => secretTask[r].app # NoSetup \/ secretTask[r].code # NoCode
    BY DEF CheckEnabled, SecretGoes, MustEnrol
  <1>4. /\ TwoFactorTypeOK' /\ HoldersWrite' /\ SecretStepsFit' /\ CodesAreOfOldSetups'
        /\ EnabledSecretIsProved' /\ RecoveryCodesAreSpent' /\ CodesGoWithSecret'
    <2>1. step \in SecretSteps /\ step \notin {"idle", "find", "check", "write"}
      BY DEF SecretSteps
    <2>2. /\ proved \subseteq proved' /\ proved' \subseteq SecretCalls
          /\ secretSeen' \in [SecretCalls -> SecretRows]
          /\ \A q \in SecretCalls \ {r} : secretSeen'[q] = secretSeen[q]
      BY <1>1 DEF SecretInv, TwoFactorTypeOK
    <2> QED BY <1>1, <1>2, <1>3, <2>1, <2>2, SecretMoveKeeps
  <1>5. ConfirmersSaw' /\ SpendersSaw' /\ StaffHaveShown'
    BY <1>1, <1>3 DEF SecretInv, ConfirmersSaw, SpendersSaw, StaffHaveShown, Staff, TwoFactorTypeOK
  <1> QED BY <1>4, <1>5 DEF SecretInv

LEMMA VerifyCodeIInv ==
  ASSUME SecretInv, NEW r \in SecretCalls, VerifyCode(r)
  PROVE  SecretInv'
  <1>1. secretAt[r] = "verify" /\ UNCHANGED <<role, secret, secretTask, proved, usedCodes, crossed>>
    BY DEF VerifyCode
  <1>2. secretTask[r].kind = "login" /\ secret \in SecretRows
    BY <1>1 DEF SecretInv, SecretStepsFit, TwoFactorTypeOK
  <1>3. PICK step \in {"refused", "issue", "write"}, row \in SecretRows :
          /\ secretAt' = [secretAt EXCEPT ![r] = step]
          /\ secretSeen' = [secretSeen EXCEPT ![r] = row]
          /\ step = "write" => row = secret /\ secretTask[r].code \in secret.codes
          /\ step # "write" => row = NoSecret
    <2>1. CASE ~secret.enabled
      BY <2>1, NoSecretFields DEF VerifyCode, SecretGoes, Forget
    <2>2. CASE secret.enabled /\ secretTask[r].app = secret.by
      BY <2>2, NoSecretFields DEF VerifyCode, SecretGoes, Forget
    <2>3. CASE secret.enabled /\ secretTask[r].app # secret.by /\ secretTask[r].code \in secret.codes
      BY <1>2, <2>3 DEF VerifyCode, SecretGoes, Remember
    <2>4. CASE secret.enabled /\ secretTask[r].app # secret.by /\ secretTask[r].code \notin secret.codes
      BY <2>4, NoSecretFields DEF VerifyCode, SecretGoes, Forget
    <2> QED BY <2>1, <2>2, <2>3, <2>4
  <1>4. /\ TwoFactorTypeOK' /\ HoldersWrite' /\ SecretStepsFit' /\ CodesAreOfOldSetups'
        /\ EnabledSecretIsProved' /\ RecoveryCodesAreSpent' /\ CodesGoWithSecret'
    <2>1. step \in SecretSteps /\ step \notin {"idle", "find", "check", "verify"}
      BY DEF SecretSteps
    <2>2. /\ proved \subseteq proved' /\ proved' \subseteq SecretCalls
          /\ secretSeen' \in [SecretCalls -> SecretRows] /\ secretSeen'[r] = row
          /\ \A q \in SecretCalls \ {r} : secretSeen'[q] = secretSeen[q]
      BY <1>1, <1>3 DEF SecretInv, TwoFactorTypeOK
    <2> QED BY <1>1, <1>2, <1>3, <2>1, <2>2, SecretMoveKeeps
  <1>5. ConfirmersSaw' /\ SpendersSaw' /\ StaffHaveShown'
    BY <1>1, <1>2, <1>3 DEF SecretInv, ConfirmersSaw, SpendersSaw, StaffHaveShown, Staff, TwoFactorTypeOK
  <1> QED BY <1>4, <1>5 DEF SecretInv

LEMMA OpenSessionIInv ==
  ASSUME SecretInv, NEW r \in SecretCalls, OpenSession(r)
  PROVE  SecretInv'
  <1>1. /\ secretAt[r] = "issue" /\ secretAt' = [secretAt EXCEPT ![r] = "session"]
        /\ UNCHANGED <<role, secret, secretTask, secretSeen, proved, usedCodes, crossed>>
    BY DEF OpenSession, SecretGoes
  <1>2. /\ TwoFactorTypeOK' /\ HoldersWrite' /\ SecretStepsFit' /\ CodesAreOfOldSetups'
        /\ EnabledSecretIsProved' /\ RecoveryCodesAreSpent' /\ CodesGoWithSecret'
    <2>1. secretSeen[r] = NoSecret /\ "session" \in SecretSteps
      BY <1>1 DEF SecretInv, HoldersWrite, SecretSteps
    <2>2. /\ proved \subseteq proved' /\ proved' \subseteq SecretCalls
          /\ secretSeen' \in [SecretCalls -> SecretRows]
          /\ \A q \in SecretCalls \ {r} : secretSeen'[q] = secretSeen[q]
      BY <1>1 DEF SecretInv, TwoFactorTypeOK
    <2> QED BY <1>1, <2>1, <2>2, SecretMoveKeeps
  <1>3. ConfirmersSaw' /\ SpendersSaw' /\ StaffHaveShown'
    BY <1>1 DEF SecretInv, ConfirmersSaw, SpendersSaw, StaffHaveShown, Staff, TwoFactorTypeOK
  <1> QED BY <1>2, <1>3 DEF SecretInv

\* The row is not there to be written: the request fails.
LEMMA RowMissing ==
  ASSUME SecretInv, NEW r \in SecretCalls, secretAt[r] = "write",
         secretAt' = [secretAt EXCEPT ![r] = "failed"],
         secretSeen' = [secretSeen EXCEPT ![r] = NoSecret],
         UNCHANGED <<role, secret, secretTask, proved, usedCodes, crossed>>
  PROVE  SecretInv'
  <1>1. /\ TwoFactorTypeOK' /\ HoldersWrite' /\ SecretStepsFit' /\ CodesAreOfOldSetups'
        /\ EnabledSecretIsProved' /\ RecoveryCodesAreSpent' /\ CodesGoWithSecret'
    <2>1. "failed" \in SecretSteps
      BY DEF SecretSteps
    <2>2. /\ proved \subseteq proved' /\ proved' \subseteq SecretCalls
          /\ secretSeen' \in [SecretCalls -> SecretRows] /\ secretSeen'[r] = NoSecret
          /\ \A q \in SecretCalls \ {r} : secretSeen'[q] = secretSeen[q]
      BY NoSecretFields DEF SecretInv, TwoFactorTypeOK
    <2> QED BY <2>1, <2>2, SecretMoveKeeps
  <1>2. ConfirmersSaw' /\ SpendersSaw' /\ StaffHaveShown'
    BY DEF SecretInv, ConfirmersSaw, SpendersSaw, StaffHaveShown, Staff, TwoFactorTypeOK
  <1> QED BY <1>1, <1>2 DEF SecretInv

-----------------------------------------------------------------------------
\* A write of the row overtakes every other request that holds what it read, so what
\* those decided on no longer needs to be the row.
LEMMA RowWritten ==
  ASSUME SecretInv, NEW r \in SecretCalls, NEW step \in {"done", "session", "issue"},
         secretAt[r] = "write", secretAt' = [secretAt EXCEPT ![r] = step],
         UNCHANGED <<role, secretTask, proved>>, Crossed(r),
         secretSeen' \in [SecretCalls -> SecretRows], secretSeen'[r] = NoSecret,
         \A q \in SecretCalls \ {r} : secretSeen'[q] = secretSeen[q],
         secret' \in SecretRows, secret'.by = NoSetup => secret' = NoSecret,
         usedCodes' \in [Codes -> Nat],
         Staff /\ step # "done" => secretTask[r].app # NoSetup \/ secretTask[r].code # NoCode
  PROVE  /\ TwoFactorTypeOK' /\ HoldersWrite' /\ SecretStepsFit'
         /\ ConfirmersSaw' /\ SpendersSaw' /\ StaffHaveShown'
         /\ crossed \subseteq crossed'
         /\ \A s \in SecretCalls : secretAt[s] = "done" => secretAt'[s] = "done"
         /\ \A q \in SecretCalls : secretTask[q].code # NoCode => secretAt'[secretTask[q].code[1]] = "done"
  <1>1. crossed' = crossed \cup {q \in SecretCalls \ {r} : secretSeen[q] # NoSecret}
    BY DEF Crossed
  <1>2. TwoFactorTypeOK'
    BY <1>1 DEF SecretInv, TwoFactorTypeOK, SecretSteps
  <1>3. HoldersWrite' /\ SecretStepsFit'
    BY <1>1 DEF SecretInv, HoldersWrite, SecretStepsFit, TwoFactorTypeOK
  <1>4. ASSUME NEW q \in SecretCalls, secretSeen[q].by \in proved \/ secretSeen[q].codes # {}
        PROVE  secretSeen[q] # NoSecret
    BY <1>4, NoSecretFields, TwoFactorAssumption DEF SecretInv, TwoFactorTypeOK
  <1>5. ConfirmersSaw'
    BY <1>1, <1>4 DEF SecretInv, ConfirmersSaw, TwoFactorTypeOK
  <1>6. SpendersSaw'
    BY <1>1, <1>4 DEF SecretInv, SpendersSaw, TwoFactorTypeOK
  <1>7. StaffHaveShown'
    BY DEF SecretInv, StaffHaveShown, Staff, TwoFactorTypeOK
  <1>8. \A s \in SecretCalls : secretAt[s] = "done" => secretAt'[s] = "done"
    BY DEF SecretInv, TwoFactorTypeOK
  <1>9. \A q \in SecretCalls : secretTask[q].code # NoCode => secretAt'[secretTask[q].code[1]] = "done"
    BY <1>8, TaskFields, CodeFields DEF SecretInv, CodesAreOfOldSetups, TwoFactorTypeOK
  <1> QED BY <1>1, <1>2, <1>3, <1>5, <1>6, <1>7, <1>8, <1>9

LEMMA BeginSetupIInv ==
  ASSUME SecretInv, NEW r \in SecretCalls, BeginSetup(r)
  PROVE  SecretInv'
  <1>1. /\ secretAt[r] = "write" /\ secretTask[r].kind = "setup"
        /\ secretAt' = [secretAt EXCEPT ![r] = "done"]
        /\ secret' = [by |-> r, enabled |-> FALSE, codes |-> {c \in Codes : c[1] = r}]
        /\ Crossed(r) /\ UNCHANGED <<role, secretTask, secretSeen, proved, usedCodes>>
    BY DEF BeginSetup, SecretGoes, NewSecret
  <1>2. secretSeen[r] = NoSecret
    BY <1>1 DEF SecretInv, HoldersWrite
  <1>3. /\ secretSeen' \in [SecretCalls -> SecretRows] /\ usedCodes' \in [Codes -> Nat]
        /\ secret' \in SecretRows /\ secret'.by = r /\ r # NoSetup
    BY <1>1, TwoFactorAssumption DEF SecretInv, TwoFactorTypeOK, SecretRows
  <1>4. /\ TwoFactorTypeOK' /\ HoldersWrite' /\ SecretStepsFit'
        /\ ConfirmersSaw' /\ SpendersSaw' /\ StaffHaveShown'
        /\ crossed \subseteq crossed'
        /\ \A s \in SecretCalls : secretAt[s] = "done" => secretAt'[s] = "done"
        /\ \A q \in SecretCalls : secretTask[q].code # NoCode => secretAt'[secretTask[q].code[1]] = "done"
    BY <1>1, <1>2, <1>3, RowWritten
  <1>5. CodesAreOfOldSetups'
    BY <1>1, <1>4, CodeFields DEF SecretInv, CodesAreOfOldSetups
  <1>6. EnabledSecretIsProved'
    BY <1>1 DEF EnabledSecretIsProved
  <1>7. RecoveryCodesAreSpent'
    BY <1>1, <1>4 DEF SecretInv, RecoveryCodesAreSpent
  <1>8. CodesGoWithSecret'
    <2>1. ASSUME NEW c \in Codes, c[1] = r PROVE usedCodes[c] = 0
      <3>1. usedCodes[c] \in Nat
        BY DEF SecretInv, TwoFactorTypeOK
      <3> QED BY <1>1, <2>1, <3>1 DEF SecretInv, CodesAreOfOldSetups
    <2> QED BY <1>1, <2>1 DEF CodesGoWithSecret
  <1> QED BY <1>4, <1>5, <1>6, <1>7, <1>8 DEF SecretInv

LEMMA DisableIInv ==
  ASSUME SecretInv, NEW r \in SecretCalls, Disable(r)
  PROVE  SecretInv'
  <1>1. /\ secretAt[r] = "write" /\ secretTask[r].kind = "disable"
        /\ secretAt' = [secretAt EXCEPT ![r] = "done"] /\ secret' = NoSecret
        /\ Crossed(r) /\ UNCHANGED <<role, secretTask, secretSeen, proved, usedCodes>>
    BY DEF Disable, SecretGoes
  <1>2. secretSeen[r] = NoSecret
    BY <1>1 DEF SecretInv, HoldersWrite
  <1>3. /\ secretSeen' \in [SecretCalls -> SecretRows] /\ usedCodes' \in [Codes -> Nat]
        /\ secret' \in SecretRows
    BY <1>1, NoSecretFields DEF SecretInv, TwoFactorTypeOK
  <1>4. /\ TwoFactorTypeOK' /\ HoldersWrite' /\ SecretStepsFit'
        /\ ConfirmersSaw' /\ SpendersSaw' /\ StaffHaveShown'
        /\ crossed \subseteq crossed'
        /\ \A s \in SecretCalls : secretAt[s] = "done" => secretAt'[s] = "done"
        /\ \A q \in SecretCalls : secretTask[q].code # NoCode => secretAt'[secretTask[q].code[1]] = "done"
    BY <1>1, <1>2, <1>3, RowWritten
  <1>5. CodesAreOfOldSetups'
    BY <1>1, <1>4, CodeFields DEF SecretInv, CodesAreOfOldSetups
  <1>6. EnabledSecretIsProved' /\ CodesGoWithSecret'
    BY <1>1, NoSecretFields DEF EnabledSecretIsProved, CodesGoWithSecret
  <1>7. RecoveryCodesAreSpent'
    BY <1>1, <1>4 DEF SecretInv, RecoveryCodesAreSpent
  <1> QED BY <1>4, <1>5, <1>6, <1>7 DEF SecretInv

\* The secret enabled is the one whose code was shown, or another write came between.
LEMMA ConfirmIInv ==
  ASSUME SecretInv, NEW r \in SecretCalls, Confirm(r)
  PROVE  SecretInv'
  <1>1. /\ secretAt[r] = "write" /\ secretTask[r].kind = "enable"
        /\ secretSeen' = [secretSeen EXCEPT ![r] = NoSecret]
        /\ UNCHANGED <<role, secretTask, proved, usedCodes>>
    BY DEF Confirm, Forget
  <1>2. CASE ~RowThere
    BY <1>1, <1>2, RowMissing DEF Confirm, SecretGoes
  <1>3. CASE RowThere
    <2>1. secret' = [secret EXCEPT !.enabled = TRUE] /\ Crossed(r)
      BY <1>3 DEF Confirm, Enabled
    <2>2. PICK step \in {"done", "session"} : secretAt' = [secretAt EXCEPT ![r] = step]
      BY <1>3 DEF Confirm, SecretGoes
    <2>3. /\ secret' \in SecretRows /\ secret'.by = secret.by /\ secret.by # NoSetup
          /\ secret'.codes = secret.codes
      BY <1>3, <2>1 DEF SecretInv, TwoFactorTypeOK, SecretRows, RowThere
    <2>4. /\ secretSeen' \in [SecretCalls -> SecretRows] /\ secretSeen'[r] = NoSecret
          /\ \A q \in SecretCalls \ {r} : secretSeen'[q] = secretSeen[q]
          /\ usedCodes' \in [Codes -> Nat]
      BY <1>1, NoSecretFields DEF SecretInv, TwoFactorTypeOK
    <2>5. /\ secretTask[r].app # NoSetup /\ secretSeen[r].by \in proved
          /\ r \in crossed \/ secret.by = secretSeen[r].by
      BY <1>1 DEF SecretInv, ConfirmersSaw
    <2>6. /\ TwoFactorTypeOK' /\ HoldersWrite' /\ SecretStepsFit'
          /\ ConfirmersSaw' /\ SpendersSaw' /\ StaffHaveShown'
          /\ crossed \subseteq crossed'
          /\ \A s \in SecretCalls : secretAt[s] = "done" => secretAt'[s] = "done"
          /\ \A q \in SecretCalls : secretTask[q].code # NoCode => secretAt'[secretTask[q].code[1]] = "done"
      BY <1>1, <2>1, <2>2, <2>3, <2>4, <2>5, RowWritten
    <2>7. CodesAreOfOldSetups'
      BY <1>1, <2>6, CodeFields DEF SecretInv, CodesAreOfOldSetups
    <2>8. EnabledSecretIsProved'
      BY <1>1, <2>3, <2>5, <2>6 DEF EnabledSecretIsProved
    <2>9. RecoveryCodesAreSpent' /\ CodesGoWithSecret'
      BY <1>1, <2>3, <2>6 DEF SecretInv, RecoveryCodesAreSpent, CodesGoWithSecret
    <2> QED BY <2>6, <2>7, <2>8, <2>9 DEF SecretInv
  <1> QED BY <1>2, <1>3

\* A code taken from the row that is still there is unspent, and is gone from it
\* afterwards; from another row, the spending was overtaken.
LEMMA SpendCodeIInv ==
  ASSUME SecretInv, NEW r \in SecretCalls, SpendCode(r)
  PROVE  SecretInv'
  <1> DEFINE code == secretTask[r].code
  <1>1. /\ secretAt[r] = "write" /\ secretTask[r].kind = "login"
        /\ secretSeen' = [secretSeen EXCEPT ![r] = NoSecret]
        /\ UNCHANGED <<role, secretTask, proved>>
    BY DEF SpendCode, Forget
  <1>2. CASE ~RowThere
    BY <1>1, <1>2, RowMissing DEF SpendCode, SecretGoes
  <1>3. CASE RowThere
    <2>1. /\ secret' = [secret EXCEPT !.codes = secretSeen[r].codes \ {code}]
          /\ usedCodes' = [usedCodes EXCEPT ![code] = @ + 1]
          /\ secretAt' = [secretAt EXCEPT ![r] = "issue"] /\ Crossed(r)
      BY <1>3 DEF SpendCode, SecretGoes, Remaining
    <2>2. code \in secretSeen[r].codes /\ (r \in crossed \/ secret = secretSeen[r])
      BY <1>1 DEF SecretInv, SpendersSaw
    <2>3. secretSeen[r].codes \subseteq Codes /\ code \in Codes /\ code # NoCode
      BY <2>2, CodeFields DEF SecretInv, TwoFactorTypeOK, SecretRows
    <2>4. /\ secret' \in SecretRows /\ secret'.by = secret.by /\ secret.by # NoSetup
          /\ secret'.enabled = secret.enabled /\ secret'.codes = secretSeen[r].codes \ {code}
      BY <1>3, <2>1, <2>3 DEF SecretInv, TwoFactorTypeOK, SecretRows, RowThere
    <2>5. /\ secretSeen' \in [SecretCalls -> SecretRows] /\ secretSeen'[r] = NoSecret
          /\ \A q \in SecretCalls \ {r} : secretSeen'[q] = secretSeen[q]
      BY <1>1, NoSecretFields DEF SecretInv, TwoFactorTypeOK
    <2>6. usedCodes \in [Codes -> Nat] /\ usedCodes' \in [Codes -> Nat]
      BY <2>1, <2>3 DEF SecretInv, TwoFactorTypeOK
    <2>7. /\ TwoFactorTypeOK' /\ HoldersWrite' /\ SecretStepsFit'
          /\ ConfirmersSaw' /\ SpendersSaw' /\ StaffHaveShown'
          /\ crossed \subseteq crossed'
          /\ \A s \in SecretCalls : secretAt[s] = "done" => secretAt'[s] = "done"
          /\ \A q \in SecretCalls : secretTask[q].code # NoCode => secretAt'[secretTask[q].code[1]] = "done"
      BY <1>1, <2>1, <2>3, <2>4, <2>5, <2>6, RowWritten
    <2>8. CodesAreOfOldSetups'
      <3>1. ASSUME NEW c \in Codes, usedCodes'[c] > 0 PROVE secretAt'[c[1]] = "done"
        <4>1. CASE c = code
          BY <2>3, <2>7, <4>1
        <4>2. CASE c # code
          BY <2>1, <2>6, <2>7, <3>1, <4>2, CodeFields DEF SecretInv, CodesAreOfOldSetups
        <4> QED BY <4>1, <4>2
      <3> QED BY <1>1, <2>7, <3>1 DEF CodesAreOfOldSetups
    <2>9. EnabledSecretIsProved'
      BY <1>1, <2>4, <2>7 DEF SecretInv, EnabledSecretIsProved
    <2>10. CASE CodeRaced \/ r \in crossed
      <3>1. \E q \in crossed' : secretTask'[q].kind = "login" /\ secretTask'[q].code # NoCode
        BY <1>1, <2>3, <2>7, <2>10 DEF CodeRaced
      <3>2. RecoveryCodesAreSpent' /\ CodesGoWithSecret'
        BY <3>1 DEF RecoveryCodesAreSpent, CodesGoWithSecret
      <3> QED BY <2>7, <2>8, <2>9, <3>2 DEF SecretInv
    <2>11. CASE ~CodeRaced /\ r \notin crossed
      <3>1. \A c \in secret.codes : c[1] = secret.by /\ usedCodes[c] = 0
        BY <2>11 DEF SecretInv, CodesGoWithSecret, CodeRaced
      <3>2. \A c \in Codes : usedCodes[c] <= 1
        BY <2>6, <2>11 DEF SecretInv, RecoveryCodesAreSpent, CodeRaced
      <3>3. secret = secretSeen[r] /\ usedCodes[code] = 0
        BY <2>2, <2>11, <3>1
      <3>4. \A c \in Codes : usedCodes'[c] <= 1 /\ (c # code => usedCodes'[c] = usedCodes[c])
        BY <2>1, <2>3, <2>6, <3>2, <3>3
      <3>5. RecoveryCodesAreSpent'
        BY <2>6, <3>4 DEF RecoveryCodesAreSpent
      <3>6. CodesGoWithSecret'
        BY <2>3, <2>4, <3>1, <3>3, <3>4 DEF CodesGoWithSecret
      <3> QED BY <2>7, <2>8, <2>9, <3>5, <3>6 DEF SecretInv
    <2> QED BY <2>10, <2>11
  <1> QED BY <1>2, <1>3

-----------------------------------------------------------------------------
LEMMA NextSecretInv ==
  ASSUME SecretInv, [SecretNext]_secretVars
  PROVE  SecretInv'
  <1>1. CASE SecretNext
    BY <1>1, SecretBeginsIInv, BeginSetupIInv, DisableIInv, FindSecretIInv, ConfirmIInv,
       CheckEnabledIInv, VerifyCodeIInv, SpendCodeIInv, OpenSessionIInv DEF SecretNext
  <1>2. CASE UNCHANGED secretVars
    <2>1. UNCHANGED <<role, secret, secretTask, secretAt, secretSeen, proved, usedCodes, crossed>>
      BY <1>2 DEF secretVars
    <2>2. TwoFactorTypeOK' /\ HoldersWrite' /\ SecretStepsFit' /\ CodesAreOfOldSetups'
      BY <2>1 DEF SecretInv, TwoFactorTypeOK, HoldersWrite, SecretStepsFit, CodesAreOfOldSetups
    <2>3. ConfirmersSaw' /\ SpendersSaw' /\ StaffHaveShown'
      BY <2>1 DEF SecretInv, ConfirmersSaw, SpendersSaw, StaffHaveShown, Staff
    <2>4. EnabledSecretIsProved' /\ RecoveryCodesAreSpent' /\ CodesGoWithSecret'
      BY <2>1 DEF SecretInv, EnabledSecretIsProved, RecoveryCodesAreSpent, CodesGoWithSecret
    <2> QED BY <2>2, <2>3, <2>4 DEF SecretInv
  <1> QED BY <1>1, <1>2

LEMMA SecretInvariant == TwoFactorSpec => []SecretInv
  BY InitSecretInv, NextSecretInv, PTL DEF TwoFactorSpec

\* The row of the secret, what requests hold of it and the ghosts keep their types.
THEOREM TwoFactorTypeCorrect == TwoFactorSpec => []TwoFactorTypeOK
  <1>1. SecretInv => TwoFactorTypeOK
    BY DEF SecretInv
  <1> QED BY <1>1, SecretInvariant, PTL

\* However many requests set up, confirm, remove and sign in at once
\* (auth/two-factor.service.ts): sign-ins are checked against a secret that was proved, a
\* recovery code lets in once, and staff have shown a second factor, but for the overlaps named.
THEOREM TheSecondFactorHolds == TwoFactorSpec => []SecondFactorHolds
  <1>1. SecretInv => SecondFactorHolds
    <2>1. SecretInv => StaffShowACode
      BY DEF SecretInv, StaffHaveShown, StaffShowACode
    <2> QED BY <2>1 DEF SecretInv, SecondFactorHolds
  <1> QED BY <1>1, SecretInvariant, PTL

-----------------------------------------------------------------------------
(***************************************************************************)
(* The accounts of an email for every number of requests: sign-ins meet in *)
(* one account, a reset ends the sessions there are, a link works once,    *)
(* and a deleted account is not found by its email.                        *)
(***************************************************************************)

\* The unique key of the email.
OneLive == \A u, v \in AccountCalls : users[u] = "live" /\ users[v] = "live" => u = v

\* A request has no row, link or session before it makes one, and has seen nobody
\* before it looks.
NothingBefore ==
  \A r \in AccountCalls :
    /\ accountAt[r] \in {"idle", "find", "create", "link", "provision"} => users[r] = "none"
    /\ accountAt[r] \in {"idle", "find", "create", "link"} => seen[r] = Unseen
    /\ resetLinks[r] # "none" \/ sessions[r] # "none" => accountAt[r] = "done"
    /\ r \in overtaken => accountAt[r] # "idle"

AccountStepsFit ==
  \A r \in AccountCalls :
    /\ accountAt[r] = "create" => accountTask[r].kind = "register"
    /\ accountAt[r] \in {"link", "provision"} => accountTask[r].kind = "oauth"
    /\ accountAt[r] = "issue" \/ sessions[r] # "none" =>
         accountTask[r].kind \in {"register", "oauth", "login"} /\ seen[r].user # Nobody
    /\ accountAt[r] = "write" /\ accountTask[r].kind = "delete" =>
         sessions[accountTask[r].with] # "none" /\ accountTask[r].with \in AccountCalls
    /\ accountTask[r].kind = "reset" =>
         resetLinks[accountTask[r].with] # "none" /\ accountTask[r].with \in AccountCalls

\* Who is seen or linked has a row, and who has none has no password.
RowsExist ==
  /\ provider # Nobody => users[provider] # "none"
  /\ \A r \in AccountCalls : seen[r].user # Nobody => users[seen[r].user] # "none"
  /\ \A r \in AccountCalls : seen[r].user = Nobody => seen[r].password = Nobody
  /\ \A u \in AccountCalls : users[u] = "none" => password[u] = Nobody

\* A row that was deleted stays so, and is not what a later look at the email finds.
DeletedBefore ==
  \A r \in AccountCalls :
    /\ \A u \in goneBefore[r] : users[u] = "deleted"
    /\ accountTask[r].kind \in {"register", "login"} => seen[r].user \notin goneBefore[r]

\* A link that was used is marked so, and a reset that was not overtaken has one that
\* is not.
LinksAreMarked ==
  /\ \A f \in AccountCalls : timesUsed[f] > 0 => resetLinks[f] = "used"
  /\ \A r \in AccountCalls \ overtaken :
       accountAt[r] = "write" /\ accountTask[r].kind = "reset" => timesUsed[accountTask[r].with] = 0

\* The password seen is still the account's, until a reset overtakes or revokes.
PasswordsSeen ==
  \A r \in AccountCalls \ overtaken :
    /\ accountAt[r] \in {"provision", "issue"} \/ sessions[r] = "open"
    /\ seen[r].user # Nobody /\ users[seen[r].user] = "live"
    => password[seen[r].user] = seen[r].password

AccountInv ==
  /\ AccountsTypeOK
  /\ OneLive /\ NothingBefore /\ AccountStepsFit /\ RowsExist
  /\ DeletedBefore /\ LinksAreMarked /\ PasswordsSeen
  /\ ResetLinkWorksOnce

-----------------------------------------------------------------------------
LEMMA LiveIsOne ==
  ASSUME NEW rows, \A u, v \in AccountCalls : rows[u] = "live" /\ rows[v] = "live" => u = v
  PROVE  Cardinality({u \in AccountCalls : rows[u] = "live"}) <= 1
  <1> DEFINE L == {u \in AccountCalls : rows[u] = "live"}
  <1>1. CASE L = {}
    BY <1>1, FS_EmptySet
  <1>2. CASE L # {}
    <2>1. PICK u \in L : L = {u}
      BY <1>2
    <2> QED BY <2>1, FS_Singleton
  <1> QED BY <1>1, <1>2

LEMMA FoundByEmail ==
  /\ FindByEmail \in SomeoneOrNobody
  /\ FindByEmail # Nobody => FindByEmail \in AccountCalls /\ users[FindByEmail] = "live"
  /\ FindByEmail = Nobody => \A u \in AccountCalls : users[u] # "live"
  BY AccountsAssumption DEF FindByEmail, SomeoneOrNobody

LEMMA InitAccountInv == AccountsInit => AccountInv
  <1> SUFFICES ASSUME AccountsInit PROVE AccountInv
    OBVIOUS
  <1>1. OneLive
    BY DEF AccountsInit, OneLive
  <1>2. Cardinality({u \in AccountCalls : users[u] = "live"}) <= 1
    BY <1>1, LiveIsOne DEF OneLive
  <1>3. AccountsTypeOK
    BY <1>2 DEF AccountsInit, AccountsTypeOK, AccountTasks, AccountSteps, SomeoneOrNobody, Unseen
  <1>4. NothingBefore /\ AccountStepsFit /\ RowsExist
    BY DEF AccountsInit, NothingBefore, AccountStepsFit, RowsExist, Unseen
  <1>5. DeletedBefore /\ LinksAreMarked /\ PasswordsSeen /\ ResetLinkWorksOnce
    BY DEF AccountsInit, DeletedBefore, LinksAreMarked, PasswordsSeen, ResetLinkWorksOnce
  <1> QED BY <1>1, <1>3, <1>4, <1>5 DEF AccountInv

\* A step that only moves one request on, with what it has seen.
LEMMA AccountMoveKeeps ==
  ASSUME AccountInv, NEW r \in AccountCalls, NEW step \in AccountSteps \ {"idle"},
         NEW sight \in [user : SomeoneOrNobody, password : SomeoneOrNobody],
         accountAt[r] \notin {"idle", "done"},
         accountAt' = [accountAt EXCEPT ![r] = step], seen' = [seen EXCEPT ![r] = sight],
         UNCHANGED <<users, password, provider, resetLinks, sessions, accountTask,
                     overtaken, timesUsed, goneBefore>>,
         step \in {"find", "create", "link", "provision"} => users[r] = "none",
         step \in {"find", "create", "link"} => sight = Unseen,
         step = "create" => accountTask[r].kind = "register",
         step \in {"link", "provision"} => accountTask[r].kind = "oauth",
         step = "issue" => accountTask[r].kind \in {"register", "oauth", "login"} /\ sight.user # Nobody,
         step = "write" => accountTask[r].kind # "delete",
         step = "write" /\ accountTask[r].kind = "reset" => timesUsed[accountTask[r].with] = 0,
         sight.user # Nobody => users[sight.user] # "none",
         sight.user = Nobody => sight.password = Nobody,
         accountTask[r].kind \in {"register", "login"} => sight.user \notin goneBefore[r],
         step \in {"provision", "issue"} /\ sight.user # Nobody => password[sight.user] = sight.password
  PROVE  AccountInv'
  <1>1. AccountsTypeOK' /\ OneLive'
    BY DEF AccountInv, AccountsTypeOK, OneLive
  <1>2. sessions[r] = "none" /\ resetLinks[r] = "none"
    BY DEF AccountInv, NothingBefore, AccountsTypeOK
  <1>3. NothingBefore' /\ AccountStepsFit'
    BY <1>2 DEF AccountInv, NothingBefore, AccountStepsFit, AccountsTypeOK
  <1>4. RowsExist' /\ DeletedBefore'
    BY DEF AccountInv, RowsExist, DeletedBefore, AccountsTypeOK
  <1>5. LinksAreMarked' /\ ResetLinkWorksOnce'
    BY DEF AccountInv, LinksAreMarked, ResetLinkWorksOnce, AccountsTypeOK
  <1>6. PasswordsSeen'
    BY <1>2 DEF AccountInv, PasswordsSeen, AccountsTypeOK
  <1> QED BY <1>1, <1>3, <1>4, <1>5, <1>6 DEF AccountInv

LEMMA UnseenFields ==
  /\ Unseen \in [user : SomeoneOrNobody, password : SomeoneOrNobody]
  /\ Unseen.user = Nobody /\ Unseen.password = Nobody
  BY DEF Unseen, SomeoneOrNobody

\* Looking at a user gives its row's password, and nobody's none.
LEMMA Sights ==
  ASSUME AccountInv, NEW u \in SomeoneOrNobody
  PROVE  /\ Sight(u) \in [user : SomeoneOrNobody, password : SomeoneOrNobody]
         /\ Sight(u).user = u
         /\ u = Nobody => Sight(u).password = Nobody
         /\ u # Nobody => Sight(u).password = password[u]
  BY DEF AccountInv, AccountsTypeOK, Sight, SomeoneOrNobody

-----------------------------------------------------------------------------
LEMMA AccountBeginsIInv ==
  ASSUME AccountInv, NEW r \in AccountCalls, NEW kind \in AccountKinds, NEW w \in SomeoneOrNobody,
         AccountBegins(r, kind, w)
  PROVE  AccountInv'
  <1>1. /\ accountAt[r] = "idle"
        /\ accountTask' = [accountTask EXCEPT ![r] = [kind |-> kind, with |-> w]]
        /\ goneBefore' = [goneBefore EXCEPT ![r] = {u \in AccountCalls : users[u] = "deleted"}]
        /\ UNCHANGED <<users, password, provider, resetLinks, sessions, seen, overtaken, timesUsed>>
    BY DEF AccountBegins, userRows
  <1>2. PICK step \in {"find", "link", "write"} :
          /\ accountAt' = [accountAt EXCEPT ![r] = step]
          /\ step = "link" => kind = "oauth"
          /\ step = "write" => kind = "delete"
    BY DEF AccountBegins, AccountGoes
  <1>3. /\ kind = "delete" => w \in AccountCalls /\ sessions[w] # "none"
        /\ kind = "reset" => w \in AccountCalls /\ resetLinks[w] # "none"
    BY DEF AccountBegins, Presentable
  <1>4. users[r] = "none" /\ seen[r] = Unseen /\ sessions[r] = "none" /\ resetLinks[r] = "none" /\ r \notin overtaken
    BY <1>1 DEF AccountInv, NothingBefore
  <1>5. [kind |-> kind, with |-> w] \in AccountTasks
    BY DEF AccountTasks
  <1>6. AccountsTypeOK' /\ OneLive'
    BY <1>1, <1>2, <1>5 DEF AccountInv, AccountsTypeOK, AccountSteps, OneLive
  <1>7. NothingBefore'
    BY <1>1, <1>2, <1>4 DEF AccountInv, NothingBefore, AccountsTypeOK
  <1>8. AccountStepsFit'
    BY <1>1, <1>2, <1>3, <1>4 DEF AccountInv, AccountStepsFit, AccountsTypeOK
  <1>9. RowsExist' /\ DeletedBefore'
    BY <1>1, <1>4, UnseenFields, AccountsAssumption DEF AccountInv, RowsExist, DeletedBefore, AccountsTypeOK
  <1>10. LinksAreMarked' /\ ResetLinkWorksOnce'
    BY <1>1, <1>2, <1>4 DEF AccountInv, LinksAreMarked, ResetLinkWorksOnce, AccountsTypeOK
  <1>11. PasswordsSeen'
    BY <1>1, <1>2, <1>4 DEF AccountInv, PasswordsSeen, AccountsTypeOK
  <1> QED BY <1>6, <1>7, <1>8, <1>9, <1>10, <1>11 DEF AccountInv

LEMMA RegisterIInv ==
  ASSUME AccountInv, NEW r \in AccountCalls, Register(r)
  PROVE  AccountInv'
  <1>1. /\ accountAt[r] = "find" /\ accountTask[r].kind = "register"
        /\ UNCHANGED <<users, password, provider, resetLinks, sessions, accountTask, seen,
                       overtaken, timesUsed, goneBefore>>
    BY DEF Register, userRows, accountGhosts
  <1>2. PICK step \in {"create", "refused"} : accountAt' = [accountAt EXCEPT ![r] = step]
    BY DEF Register, AccountGoes
  <1>3. seen[r] = Unseen /\ users[r] = "none" /\ Nobody \notin goneBefore[r] /\ seen' = [seen EXCEPT ![r] = Unseen]
    BY <1>1, AccountsAssumption DEF AccountInv, NothingBefore, AccountsTypeOK
  <1>4. step \in AccountSteps \ {"idle"} /\ step \notin {"find", "link", "provision", "issue", "write"}
    BY DEF AccountSteps
  <1>5. Unseen.user \notin goneBefore[r]
    BY <1>3, UnseenFields
  <1>6. CASE step = "create"
    BY <1>1, <1>2, <1>3, <1>4, <1>5, <1>6, UnseenFields, AccountMoveKeeps
  <1>7. CASE step = "refused"
    BY <1>1, <1>2, <1>3, <1>4, <1>5, <1>7, UnseenFields, AccountMoveKeeps
  <1> QED BY <1>6, <1>7

LEMMA FindLinkIInv ==
  ASSUME AccountInv, NEW r \in AccountCalls, FindLink(r)
  PROVE  AccountInv'
  <1>1. /\ accountAt[r] = "link"
        /\ UNCHANGED <<users, password, provider, resetLinks, sessions, accountTask,
                       overtaken, timesUsed, goneBefore>>
    BY DEF FindLink, userRows, accountGhosts
  <1>2. PICK u \in SomeoneOrNobody, step \in {"issue", "provision"} :
          /\ seen' = [seen EXCEPT ![r] = Sight(u)] /\ accountAt' = [accountAt EXCEPT ![r] = step]
          /\ u # Nobody => users[u] # "none"
          /\ step = "issue" => u # Nobody
    <2>1. CASE provider # Nobody
      BY <2>1 DEF FindLink, See, AccountGoes, AccountInv, AccountsTypeOK, RowsExist
    <2>2. CASE provider = Nobody
      <3>1. /\ seen' = [seen EXCEPT ![r] = Sight(FindByEmail)]
            /\ accountAt' = [accountAt EXCEPT ![r] = "provision"]
        BY <2>2 DEF FindLink, See, AccountGoes
      <3>2. FindByEmail # Nobody => users[FindByEmail] # "none"
        BY FoundByEmail
      <3> QED BY <3>1, <3>2, FoundByEmail
    <2> QED BY <2>1, <2>2
  <1>3. accountTask[r].kind = "oauth" /\ users[r] = "none"
    BY <1>1 DEF AccountInv, AccountStepsFit, NothingBefore
  <1>4. step \in AccountSteps \ {"idle"} /\ step \notin {"find", "create", "link", "write"}
    BY DEF AccountSteps
  <1> QED BY <1>1, <1>2, <1>3, <1>4, Sights, AccountMoveKeeps

LEMMA ValidateCredentialsIInv ==
  ASSUME AccountInv, NEW r \in AccountCalls, ValidateCredentials(r)
  PROVE  AccountInv'
  <1> DEFINE u == FindByEmail
  <1>1. /\ accountAt[r] = "find" /\ accountTask[r].kind = "login"
        /\ seen' = [seen EXCEPT ![r] = Sight(u)]
        /\ UNCHANGED <<users, password, provider, resetLinks, sessions, accountTask,
                       overtaken, timesUsed, goneBefore>>
    BY DEF ValidateCredentials, See, userRows, accountGhosts
  <1>2. PICK step \in {"refused", "issue"} :
          /\ accountAt' = [accountAt EXCEPT ![r] = step]
          /\ step = "issue" => Sight(u).password # Nobody
    BY DEF ValidateCredentials, AccountGoes
  <1>3. /\ u \in SomeoneOrNobody /\ (u # Nobody => users[u] = "live")
        /\ Sight(u) \in [user : SomeoneOrNobody, password : SomeoneOrNobody] /\ Sight(u).user = u
        /\ u = Nobody => Sight(u).password = Nobody
        /\ u # Nobody => Sight(u).password = password[u]
    BY FoundByEmail, Sights
  <1>4. u \notin goneBefore[r]
    BY <1>3, AccountsAssumption DEF AccountInv, DeletedBefore, AccountsTypeOK
  <1>5. step \in AccountSteps \ {"idle"} /\ step \notin {"find", "create", "link", "provision", "write"}
    BY DEF AccountSteps
  <1> HIDE DEF u
  <1> QED BY <1>1, <1>2, <1>3, <1>4, <1>5, AccountMoveKeeps

LEMMA ForgotPasswordIInv ==
  ASSUME AccountInv, NEW r \in AccountCalls, ForgotPassword(r)
  PROVE  AccountInv'
  <1> DEFINE u == FindByEmail
  <1>1. /\ accountAt[r] = "find" /\ accountTask[r].kind = "forgot"
        /\ seen' = [seen EXCEPT ![r] = Sight(u)]
        /\ UNCHANGED <<users, password, provider, resetLinks, sessions, accountTask,
                       overtaken, timesUsed, goneBefore>>
    BY DEF ForgotPassword, See, userRows, accountGhosts
  <1>2. PICK step \in {"done", "write"} : accountAt' = [accountAt EXCEPT ![r] = step]
    BY DEF ForgotPassword, AccountGoes
  <1>3. /\ u \in SomeoneOrNobody /\ (u # Nobody => users[u] = "live")
        /\ Sight(u) \in [user : SomeoneOrNobody, password : SomeoneOrNobody] /\ Sight(u).user = u
        /\ u = Nobody => Sight(u).password = Nobody
    BY FoundByEmail, Sights
  <1>4. step \in AccountSteps \ {"idle"} /\ step \notin {"find", "create", "link", "provision", "issue"}
    BY DEF AccountSteps
  <1> HIDE DEF u
  <1> QED BY <1>1, <1>2, <1>3, <1>4, AccountMoveKeeps

LEMMA FindResetLinkIInv ==
  ASSUME AccountInv, NEW r \in AccountCalls, FindResetLink(r)
  PROVE  AccountInv'
  <1> DEFINE f == accountTask[r].with
             sight == [user |-> seen[f].user, password |-> Nobody]
  <1>1. /\ accountAt[r] = "find" /\ accountTask[r].kind = "reset"
        /\ seen' = [seen EXCEPT ![r].user = seen[f].user]
        /\ UNCHANGED <<users, password, provider, resetLinks, sessions, accountTask,
                       overtaken, timesUsed, goneBefore>>
    BY DEF FindResetLink, userRows, accountGhosts
  <1>2. f \in AccountCalls
    BY <1>1 DEF AccountInv, AccountStepsFit
  <1>3. PICK step \in {"refused", "write"} :
          accountAt' = [accountAt EXCEPT ![r] = step] /\ (step = "write" => resetLinks[f] = "fresh")
    BY DEF FindResetLink, AccountGoes, Usable
  <1>4. timesUsed[f] \in Nat /\ (step = "write" => timesUsed[f] = 0)
    BY <1>2, <1>3 DEF AccountInv, LinksAreMarked, AccountsTypeOK
  <1>5. seen' = [seen EXCEPT ![r] = sight]
    <2>1. seen[r] = Unseen
      BY <1>1 DEF AccountInv, NothingBefore
    <2>2. [seen[r] EXCEPT !.user = seen[f].user] = sight
      BY <2>1 DEF Unseen
    <2> QED BY <1>1, <2>2
  <1>6. sight \in [user : SomeoneOrNobody, password : SomeoneOrNobody]
    BY <1>2 DEF AccountInv, AccountsTypeOK, SomeoneOrNobody
  <1>7. sight.user # Nobody => users[sight.user] # "none"
    BY <1>2 DEF AccountInv, RowsExist
  <1>8. step \in AccountSteps \ {"idle"} /\ step \notin {"find", "create", "link", "provision", "issue"}
    BY DEF AccountSteps
  <1> HIDE DEF sight
  <1>9. sight.password = Nobody
    BY DEF sight
  <1> QED BY <1>1, <1>3, <1>4, <1>5, <1>6, <1>7, <1>8, <1>9, AccountMoveKeeps

\* The unique keys roll the statement back.
LEMMA KeyTaken ==
  ASSUME AccountInv, NEW r \in AccountCalls, accountAt[r] \in {"create", "provision"},
         accountAt' = [accountAt EXCEPT ![r] = "failed"],
         UNCHANGED <<users, password, provider, resetLinks, sessions, accountTask, seen,
                     overtaken, timesUsed, goneBefore>>
  PROVE  AccountInv'
  <1>1. seen[r] \in [user : SomeoneOrNobody, password : SomeoneOrNobody] /\ seen' = [seen EXCEPT ![r] = seen[r]]
    BY DEF AccountInv, AccountsTypeOK
  <1>2. /\ seen[r].user # Nobody => users[seen[r].user] # "none"
        /\ seen[r].user = Nobody => seen[r].password = Nobody
        /\ accountTask[r].kind \in {"register", "login"} => seen[r].user \notin goneBefore[r]
    BY DEF AccountInv, RowsExist, DeletedBefore
  <1>3. "failed" \in AccountSteps \ {"idle"}
    BY DEF AccountSteps
  <1> QED BY <1>1, <1>2, <1>3, AccountMoveKeeps

LEMMA CreateUserIInv ==
  ASSUME AccountInv, NEW r \in AccountCalls, CreateUser(r)
  PROVE  AccountInv'
  <1>1. accountAt[r] = "create" /\ UNCHANGED <<resetLinks, sessions, accountTask, overtaken, timesUsed, goneBefore>>
    BY DEF CreateUser, accountGhosts
  <1>2. CASE FindByEmail # Nobody
    BY <1>1, <1>2, KeyTaken DEF CreateUser, AccountGoes, userRows
  <1>3. CASE FindByEmail = Nobody
    <2>1. /\ users' = [users EXCEPT ![r] = "live"] /\ password' = [password EXCEPT ![r] = r]
          /\ seen' = [seen EXCEPT ![r] = [user |-> r, password |-> r]]
          /\ accountAt' = [accountAt EXCEPT ![r] = "issue"] /\ provider' = provider
      BY <1>3 DEF CreateUser, AccountGoes
    <2>2. /\ users[r] = "none" /\ sessions[r] = "none" /\ resetLinks[r] = "none" /\ r # Nobody
          /\ accountTask[r].kind = "register" /\ \A u \in AccountCalls : users[u] # "live"
      BY <1>1, <1>3, FoundByEmail, AccountsAssumption DEF AccountInv, NothingBefore, AccountStepsFit
    <2>3. \A u \in AccountCalls : users'[u] = "live" => u = r
      BY <2>1, <2>2 DEF AccountInv, AccountsTypeOK
    <2>4. OneLive'
      BY <2>3 DEF OneLive
    <2>5. Cardinality({u \in AccountCalls : users'[u] = "live"}) <= 1
      BY <2>4, LiveIsOne DEF OneLive
    <2>6. AccountsTypeOK'
      BY <1>1, <2>1, <2>5 DEF AccountInv, AccountsTypeOK, AccountSteps, SomeoneOrNobody
    <2>7. NothingBefore' /\ AccountStepsFit'
      BY <1>1, <2>1, <2>2 DEF AccountInv, NothingBefore, AccountStepsFit, AccountsTypeOK
    <2>8. RowsExist'
      BY <1>1, <2>1, <2>2 DEF AccountInv, RowsExist, AccountsTypeOK, SomeoneOrNobody
    <2>9. DeletedBefore'
      BY <1>1, <2>1, <2>2 DEF AccountInv, DeletedBefore, AccountsTypeOK
    <2>10. LinksAreMarked' /\ ResetLinkWorksOnce'
      BY <1>1, <2>1 DEF AccountInv, LinksAreMarked, ResetLinkWorksOnce, AccountsTypeOK
    <2>11. \A s \in AccountCalls \ {r} : seen[s].user # r
      BY <2>2 DEF AccountInv, RowsExist
    <2>12. PasswordsSeen'
      BY <1>1, <2>1, <2>2, <2>11 DEF AccountInv, PasswordsSeen, AccountsTypeOK, SomeoneOrNobody
    <2> QED BY <2>4, <2>6, <2>7, <2>8, <2>9, <2>10, <2>12 DEF AccountInv
  <1> QED BY <1>2, <1>3

LEMMA ProvisionIInv ==
  ASSUME AccountInv, NEW r \in AccountCalls, Provision(r)
  PROVE  AccountInv'
  <1>1. accountAt[r] = "provision" /\ UNCHANGED <<resetLinks, sessions, accountTask, overtaken, timesUsed, goneBefore>>
    BY DEF Provision, accountGhosts
  <1>2. CASE ~Provisions(r)
    BY <1>1, <1>2, KeyTaken DEF Provision, AccountGoes, userRows
  <1>3. CASE Provisions(r)
    <2> DEFINE u == IF seen[r].user = Nobody THEN r ELSE seen[r].user
    <2>1. /\ users' = [users EXCEPT ![u] = IF u = r THEN "live" ELSE @]
          /\ provider' = u /\ password' = password
          /\ seen' = [seen EXCEPT ![r].user = u]
          /\ accountAt' = [accountAt EXCEPT ![r] = "issue"]
      BY <1>3 DEF Provision, AccountGoes
    <2>2. /\ users[r] = "none" /\ sessions[r] = "none" /\ resetLinks[r] = "none" /\ r # Nobody
          /\ accountTask[r].kind = "oauth"
      BY <1>1, AccountsAssumption DEF AccountInv, NothingBefore, AccountStepsFit
    <2>3. u \in AccountCalls /\ u # Nobody /\ (u # r => users[u] # "none" /\ seen[r].user = u)
      BY <2>2 DEF AccountInv, RowsExist, AccountsTypeOK, SomeoneOrNobody
    <2>4. u = r => seen[r].user = Nobody /\ \A v \in AccountCalls : users[v] # "live"
      BY <1>3, <2>2, FoundByEmail DEF AccountInv, RowsExist, Provisions
    <2>5. seen[r] \in [user : SomeoneOrNobody, password : SomeoneOrNobody]
      BY DEF AccountInv, AccountsTypeOK
    <2>6. /\ seen'[r].user = u /\ seen'[r].password = seen[r].password
          /\ \A s \in AccountCalls \ {r} : seen'[s] = seen[s]
          /\ seen' \in [AccountCalls -> [user : SomeoneOrNobody, password : SomeoneOrNobody]]
      BY <2>1, <2>3, <2>5 DEF AccountInv, AccountsTypeOK, SomeoneOrNobody
    <2>7. /\ \A v \in AccountCalls \ {r} : users'[v] = users[v]
          /\ users'[r] = IF u = r THEN "live" ELSE "none"
          /\ users' \in [AccountCalls -> {"none", "live", "deleted"}]
      BY <2>1, <2>2, <2>3 DEF AccountInv, AccountsTypeOK
    <2> HIDE DEF u
    <2>8. OneLive'
      BY <2>4, <2>7 DEF AccountInv, OneLive
    <2>9. Cardinality({v \in AccountCalls : users'[v] = "live"}) <= 1
      BY <2>8, LiveIsOne DEF OneLive
    <2>10. AccountsTypeOK'
      BY <1>1, <2>1, <2>3, <2>6, <2>7, <2>9 DEF AccountInv, AccountsTypeOK, AccountSteps, SomeoneOrNobody
    <2>11. NothingBefore' /\ AccountStepsFit'
      BY <1>1, <2>1, <2>2, <2>3, <2>6, <2>7 DEF AccountInv, NothingBefore, AccountStepsFit, AccountsTypeOK
    <2>12. RowsExist'
      BY <1>1, <2>1, <2>2, <2>3, <2>6, <2>7 DEF AccountInv, RowsExist, AccountsTypeOK, SomeoneOrNobody
    <2>13. DeletedBefore'
      BY <1>1, <2>2, <2>6, <2>7 DEF AccountInv, DeletedBefore, AccountsTypeOK
    <2>14. LinksAreMarked' /\ ResetLinkWorksOnce'
      BY <1>1, <2>1 DEF AccountInv, LinksAreMarked, ResetLinkWorksOnce, AccountsTypeOK
    <2>15. \A s \in AccountCalls \ {r} : seen[s].user # r
      BY <2>2 DEF AccountInv, RowsExist
    <2>16. u = r => seen[r].password = Nobody /\ password[r] = Nobody
      BY <2>2, <2>4 DEF AccountInv, RowsExist
    <2>17. PasswordsSeen'
      BY <1>1, <2>1, <2>2, <2>3, <2>6, <2>7, <2>15, <2>16 DEF AccountInv, PasswordsSeen, AccountsTypeOK, SomeoneOrNobody
    <2> QED BY <2>8, <2>10, <2>11, <2>12, <2>13, <2>14, <2>17 DEF AccountInv
  <1> QED BY <1>2, <1>3

LEMMA IssuePairIInv ==
  ASSUME AccountInv, NEW r \in AccountCalls, IssuePair(r)
  PROVE  AccountInv'
  <1>1. /\ accountAt[r] = "issue" /\ accountAt' = [accountAt EXCEPT ![r] = "done"]
        /\ sessions' = [sessions EXCEPT ![r] = "open"]
        /\ UNCHANGED <<users, password, provider, resetLinks, accountTask, seen, overtaken, timesUsed, goneBefore>>
    BY DEF IssuePair, AccountGoes, userRows, accountGhosts
  <1>2. AccountsTypeOK' /\ OneLive'
    BY <1>1 DEF AccountInv, AccountsTypeOK, AccountSteps, OneLive
  <1>3. NothingBefore' /\ AccountStepsFit'
    BY <1>1 DEF AccountInv, NothingBefore, AccountStepsFit, AccountsTypeOK
  <1>4. RowsExist' /\ DeletedBefore'
    BY <1>1 DEF AccountInv, RowsExist, DeletedBefore
  <1>5. LinksAreMarked' /\ ResetLinkWorksOnce' /\ PasswordsSeen'
    BY <1>1 DEF AccountInv, LinksAreMarked, ResetLinkWorksOnce, PasswordsSeen, AccountsTypeOK
  <1> QED BY <1>2, <1>3, <1>4, <1>5 DEF AccountInv

LEMMA CreateResetLinkIInv ==
  ASSUME AccountInv, NEW r \in AccountCalls, CreateResetLink(r)
  PROVE  AccountInv'
  <1>1. /\ accountAt[r] = "write" /\ accountTask[r].kind = "forgot"
        /\ accountAt' = [accountAt EXCEPT ![r] = "done"]
        /\ resetLinks' = [resetLinks EXCEPT ![r] = "fresh"]
        /\ UNCHANGED <<users, password, provider, sessions, accountTask, seen, overtaken, timesUsed, goneBefore>>
    BY DEF CreateResetLink, AccountGoes, userRows, accountGhosts
  <1>2. resetLinks[r] = "none" /\ sessions[r] = "none"
    BY <1>1 DEF AccountInv, NothingBefore
  <1>3. AccountsTypeOK' /\ OneLive'
    BY <1>1 DEF AccountInv, AccountsTypeOK, AccountSteps, OneLive
  <1>4. NothingBefore' /\ AccountStepsFit'
    BY <1>1 DEF AccountInv, NothingBefore, AccountStepsFit, AccountsTypeOK
  <1>5. RowsExist' /\ DeletedBefore'
    BY <1>1 DEF AccountInv, RowsExist, DeletedBefore
  <1>6. LinksAreMarked' /\ ResetLinkWorksOnce' /\ PasswordsSeen'
    BY <1>1, <1>2 DEF AccountInv, LinksAreMarked, ResetLinkWorksOnce, PasswordsSeen, AccountsTypeOK
  <1> QED BY <1>3, <1>4, <1>5, <1>6 DEF AccountInv

LEMMA LinkExpiresIInv ==
  ASSUME AccountInv, NEW r \in AccountCalls, LinkExpires(r)
  PROVE  AccountInv'
  <1>1. /\ resetLinks[r] = "fresh" /\ resetLinks' = [resetLinks EXCEPT ![r] = "expired"]
        /\ UNCHANGED <<users, password, provider, sessions, accountTask, accountAt, seen,
                       overtaken, timesUsed, goneBefore>>
    BY DEF LinkExpires, userRows, accountGhosts
  <1>2. AccountsTypeOK' /\ OneLive'
    BY <1>1 DEF AccountInv, AccountsTypeOK, OneLive
  <1>3. NothingBefore' /\ AccountStepsFit'
    BY <1>1 DEF AccountInv, NothingBefore, AccountStepsFit, AccountsTypeOK
  <1>4. RowsExist' /\ DeletedBefore'
    BY <1>1 DEF AccountInv, RowsExist, DeletedBefore
  <1>5. LinksAreMarked' /\ ResetLinkWorksOnce' /\ PasswordsSeen'
    BY <1>1 DEF AccountInv, LinksAreMarked, ResetLinkWorksOnce, PasswordsSeen, AccountsTypeOK
  <1> QED BY <1>2, <1>3, <1>4, <1>5 DEF AccountInv

-----------------------------------------------------------------------------
\* The reset revokes the sessions there are and overtakes the sign-ins under way;
\* nobody else has seen the password it replaces.
LEMMA ResetPasswordIInv ==
  ASSUME AccountInv, NEW r \in AccountCalls, ResetPassword(r)
  PROVE  AccountInv'
  <1> DEFINE f == accountTask[r].with
  <1>1. /\ accountAt[r] = "write" /\ accountTask[r].kind = "reset"
        /\ password' = [password EXCEPT ![seen[r].user] = r]
        /\ resetLinks' = [resetLinks EXCEPT ![f] = "used"]
        /\ sessions' = [s \in AccountCalls |-> IF Revoked(r, s) THEN "revoked" ELSE sessions[s]]
        /\ accountAt' = [accountAt EXCEPT ![r] = "done"]
        /\ timesUsed' = [timesUsed EXCEPT ![f] = @ + 1]
        /\ UNCHANGED <<users, provider, accountTask, seen, goneBefore>>
    BY DEF ResetPassword, AccountGoes
  <1>2. overtaken' = overtaken \cup
          {q \in AccountCalls \ {r} : accountAt[q] \in {"issue", "provision", "write"} /\ accountTask[q].kind # "delete"}
    BY DEF ResetPassword
  <1>3. f \in AccountCalls /\ sessions[r] = "none"
    BY <1>1 DEF AccountInv, AccountStepsFit, NothingBefore
  <1>4. timesUsed \in [AccountCalls -> Nat]
    BY DEF AccountInv, AccountsTypeOK
  <1>5. AccountsTypeOK' /\ OneLive'
    <2>1. password' \in [AccountCalls -> SomeoneOrNobody]
      BY <1>1 DEF AccountInv, AccountsTypeOK, SomeoneOrNobody
    <2>2. sessions' \in [AccountCalls -> {"none", "open", "revoked"}]
      BY <1>1 DEF AccountInv, AccountsTypeOK
    <2>3. overtaken' \subseteq AccountCalls /\ timesUsed' \in [AccountCalls -> Nat]
      BY <1>1, <1>2, <1>3, <1>4 DEF AccountInv, AccountsTypeOK
    <2> QED BY <1>1, <2>1, <2>2, <2>3 DEF AccountInv, AccountsTypeOK, AccountSteps, OneLive
  <1>6. \A s \in AccountCalls : (sessions'[s] = "none") = (sessions[s] = "none")
    BY <1>1 DEF Revoked
  <1>7. accountAt[f] = "done"
    BY <1>1 DEF AccountInv, AccountStepsFit, NothingBefore
  <1>8. NothingBefore'
    BY <1>1, <1>2, <1>6, <1>7 DEF AccountInv, NothingBefore, AccountsTypeOK
  <1>9. AccountStepsFit'
    BY <1>1, <1>6 DEF AccountInv, AccountStepsFit, AccountsTypeOK
  <1>10. RowsExist' /\ DeletedBefore'
    <2>1. \A u \in AccountCalls : users[u] = "none" => u # seen[r].user
      BY AccountsAssumption DEF AccountInv, RowsExist
    <2>2. \A u \in AccountCalls : u # seen[r].user => password'[u] = password[u]
      BY <1>1 DEF AccountInv, AccountsTypeOK
    <2> QED BY <1>1, <2>1, <2>2 DEF AccountInv, RowsExist, DeletedBefore
  <1>11. LinksAreMarked'
    BY <1>1, <1>2, <1>3, <1>4 DEF AccountInv, LinksAreMarked, AccountsTypeOK
  <1>12. ResetLinkWorksOnce'
    <2>1. CASE r \in overtaken
      BY <1>1, <1>2, <1>3, <1>4, <2>1 DEF AccountInv, ResetLinkWorksOnce
    <2>2. CASE r \notin overtaken
      <3>1. timesUsed[f] = 0
        BY <1>1, <2>2 DEF AccountInv, LinksAreMarked
      <3> QED BY <1>1, <1>2, <1>3, <1>4, <3>1 DEF AccountInv, ResetLinkWorksOnce
    <2> QED BY <2>1, <2>2
  <1>13. PasswordsSeen'
    <2> SUFFICES ASSUME NEW s \in AccountCalls, s \notin overtaken',
                        accountAt'[s] \in {"provision", "issue"} \/ sessions'[s] = "open",
                        seen[s].user # Nobody, users[seen[s].user] = "live"
                 PROVE  password'[seen[s].user] = seen[s].password
      BY <1>1 DEF PasswordsSeen
    <2>1. s \notin overtaken /\ s # r
      BY <1>1, <1>2, <1>3, <1>6 DEF AccountInv, AccountsTypeOK
    <2>2. accountAt[s] \notin {"provision", "issue"}
      BY <1>2, <2>1 DEF AccountInv, AccountStepsFit
    <2>3. sessions[s] = "open" /\ seen[s].user # seen[r].user
      BY <1>1, <2>1, <2>2 DEF Revoked, AccountInv, AccountsTypeOK
    <2>4. password'[seen[s].user] = password[seen[s].user]
      BY <1>1, <2>3 DEF AccountInv, AccountsTypeOK, SomeoneOrNobody
    <2> QED BY <2>1, <2>3, <2>4 DEF AccountInv, PasswordsSeen
  <1> QED BY <1>5, <1>8, <1>9, <1>10, <1>11, <1>12, <1>13 DEF AccountInv

LEMMA DeleteAccountIInv ==
  ASSUME AccountInv, NEW r \in AccountCalls, DeleteAccount(r)
  PROVE  AccountInv'
  <1> DEFINE u == seen[accountTask[r].with].user
  <1>1. /\ accountAt[r] = "write" /\ accountTask[r].kind = "delete"
        /\ users' = [users EXCEPT ![u] = "deleted"] /\ password' = [password EXCEPT ![u] = Nobody]
        /\ accountAt' = [accountAt EXCEPT ![r] = "done"]
        /\ UNCHANGED <<provider, resetLinks, sessions, accountTask, seen, overtaken, timesUsed, goneBefore>>
    BY DEF DeleteAccount, AccountGoes, accountGhosts
  <1>2. u # Nobody
    BY <1>1 DEF AccountInv, AccountStepsFit
  <1>3. u \in AccountCalls /\ users[u] # "none"
    BY <1>1, <1>2 DEF AccountInv, AccountStepsFit, RowsExist, AccountsTypeOK, SomeoneOrNobody
  <1> HIDE DEF u
  <1>4. OneLive'
    BY <1>1, <1>3 DEF AccountInv, OneLive, AccountsTypeOK
  <1>5. Cardinality({v \in AccountCalls : users'[v] = "live"}) <= 1
    BY <1>4, LiveIsOne DEF OneLive
  <1>6. AccountsTypeOK'
    BY <1>1, <1>3, <1>5 DEF AccountInv, AccountsTypeOK, AccountSteps, SomeoneOrNobody
  <1>7. NothingBefore' /\ AccountStepsFit'
    BY <1>1, <1>3 DEF AccountInv, NothingBefore, AccountStepsFit, AccountsTypeOK
  <1>8. RowsExist'
    BY <1>1, <1>3 DEF AccountInv, RowsExist, AccountsTypeOK, SomeoneOrNobody
  <1>9. DeletedBefore'
    BY <1>1, <1>3 DEF AccountInv, DeletedBefore, AccountsTypeOK
  <1>10. LinksAreMarked' /\ ResetLinkWorksOnce'
    BY <1>1 DEF AccountInv, LinksAreMarked, ResetLinkWorksOnce, AccountsTypeOK
  <1>11. PasswordsSeen'
    BY <1>1, <1>3 DEF AccountInv, PasswordsSeen, AccountsTypeOK, SomeoneOrNobody
  <1> QED BY <1>4, <1>6, <1>7, <1>8, <1>9, <1>10, <1>11 DEF AccountInv

-----------------------------------------------------------------------------
LEMMA NextAccountInv ==
  ASSUME AccountInv, [AccountsNext]_accountVars
  PROVE  AccountInv'
  <1>1. CASE AccountsNext
    BY <1>1, AccountBeginsIInv, RegisterIInv, CreateUserIInv, FindLinkIInv, ProvisionIInv,
       ValidateCredentialsIInv, IssuePairIInv, ForgotPasswordIInv, CreateResetLinkIInv, LinkExpiresIInv,
       FindResetLinkIInv, ResetPasswordIInv, DeleteAccountIInv DEF AccountsNext
  <1>2. CASE UNCHANGED accountVars
    <2>1. UNCHANGED <<users, password, provider, resetLinks, sessions, accountTask, accountAt, seen,
                      overtaken, timesUsed, goneBefore>>
      BY <1>2 DEF accountVars
    <2>2. AccountsTypeOK' /\ OneLive' /\ NothingBefore' /\ AccountStepsFit' /\ RowsExist'
      BY <2>1 DEF AccountInv, AccountsTypeOK, OneLive, NothingBefore, AccountStepsFit, RowsExist
    <2>3. DeletedBefore' /\ LinksAreMarked' /\ PasswordsSeen' /\ ResetLinkWorksOnce'
      BY <2>1 DEF AccountInv, DeletedBefore, LinksAreMarked, PasswordsSeen, ResetLinkWorksOnce
    <2> QED BY <2>2, <2>3 DEF AccountInv
  <1> QED BY <1>1, <1>2

LEMMA AccountInvariant == AccountsSpec => []AccountInv
  BY InitAccountInv, NextAccountInv, PTL DEF AccountsSpec

\* The rows, the links and the sessions keep their types, and one row is live at most.
THEOREM AccountsTypeCorrect == AccountsSpec => []AccountsTypeOK
  <1>1. AccountInv => AccountsTypeOK
    BY DEF AccountInv
  <1> QED BY <1>1, AccountInvariant, PTL

\* However many registrations, sign-ins, resets and deletions interleave (auth/auth.service.ts,
\* users/users.service.ts): sign-ins meet in one account, a reset ends the sessions opened
\* before it, its link works once, and a deleted account is found only through its provider,
\* but for the overlaps named.
THEOREM TheAccountsHold == AccountsSpec => []AccountsHold
  <1>1. AccountInv => AccountsHold
    <2> SUFFICES ASSUME AccountInv PROVE AccountsHold
      OBVIOUS
    <2>1. SignInsMeet
      <3> SUFFICES ASSUME \A u \in AccountCalls : users[u] # "deleted",
                          NEW r \in AccountCalls, NEW s \in AccountCalls,
                          sessions[r] # "none", sessions[s] # "none"
                   PROVE  seen[r].user = seen[s].user
        BY DEF SignInsMeet
      <3>1. ASSUME NEW q \in {r, s}
            PROVE  seen[q].user \in AccountCalls /\ users[seen[q].user] = "live"
        <4>1. seen[q].user \in AccountCalls
          BY DEF AccountInv, AccountStepsFit, AccountsTypeOK, SomeoneOrNobody
        <4> QED BY <4>1 DEF AccountInv, AccountStepsFit, RowsExist, AccountsTypeOK
      <3> QED BY <3>1 DEF AccountInv, OneLive
    <2>2. ResetEndsSessions
      BY DEF AccountInv, PasswordsSeen, AccountStepsFit, AccountsTypeOK, ResetEndsSessions
    <2>3. DeletedStaysDeleted
      BY DEF AccountInv, DeletedBefore, AccountStepsFit, DeletedStaysDeleted
    <2> QED BY <2>1, <2>2, <2>3 DEF AccountInv, AccountsHold
  <1> QED BY <1>1, AccountInvariant, PTL

-----------------------------------------------------------------------------
(* The services together: a behaviour of theirs is a behaviour of each, as    *)
(* every step is one service's and leaves the others alone.                  *)

\* Each service's behaviour, in the behaviours of all.
LEMMA CartsWithin == MCSpec => CartsSpec
  <1>1. MCInit => CartsInit
    BY DEF MCInit
  <1>2. [MCNext]_allVars => [CartsNext]_cartVars
    BY DEF MCNext, Others, allVars
  <1> QED BY <1>1, <1>2, PTL DEF MCSpec, CartsSpec

LEMMA CacheWithin == MCSpec => CacheSpec
  <1>1. MCInit => CacheInit
    BY DEF MCInit
  <1>2. [MCNext]_allVars => [CacheNext]_cacheVars
    BY DEF MCNext, Others, allVars
  <1> QED BY <1>1, <1>2, PTL DEF MCSpec, CacheSpec

LEMMA SearchWithin == MCSpec => SearchSpec
  <1>1. MCInit => SearchInit
    BY DEF MCInit
  <1>2. [MCNext]_allVars => [SearchNext]_searchVars
    BY DEF MCNext, Others, allVars
  <1> QED BY <1>1, <1>2, PTL DEF MCSpec, SearchSpec

LEMMA BulkWithin == MCSpec => BulkSpec
  <1>1. MCInit => BulkInit
    BY DEF MCInit
  <1>2. [MCNext]_allVars => [BulkNext]_bulkVars
    BY DEF MCNext, Others, allVars
  <1> QED BY <1>1, <1>2, PTL DEF MCSpec, BulkSpec

LEMMA CategoriesWithin == MCSpec => CategoriesSpec
  <1>1. MCInit => CategoriesInit
    BY DEF MCInit
  <1>2. [MCNext]_allVars => [CategoriesNext]_categoryVars
    BY DEF MCNext, Others, allVars
  <1> QED BY <1>1, <1>2, PTL DEF MCSpec, CategoriesSpec

LEMMA ImagesWithin == MCSpec => ImagesSpec
  <1>1. MCInit => ImagesInit
    BY DEF MCInit
  <1>2. [MCNext]_allVars => [ImagesNext]_imageVars
    BY DEF MCNext, Others, allVars
  <1> QED BY <1>1, <1>2, PTL DEF MCSpec, ImagesSpec

LEMMA TwoFactorWithin == MCSpec => TwoFactorSpec
  <1>1. MCInit => TwoFactorInit
    BY DEF MCInit
  <1>2. [MCNext]_allVars => [SecretNext]_secretVars
    BY DEF MCNext, Others, allVars
  <1> QED BY <1>1, <1>2, PTL DEF MCSpec, TwoFactorSpec

LEMMA AccountsWithin == MCSpec => AccountsSpec
  <1>1. MCInit => AccountsInit
    BY DEF MCInit
  <1>2. [MCNext]_allVars => [AccountsNext]_accountVars
    BY DEF MCNext, Others, allVars
  <1> QED BY <1>1, <1>2, PTL DEF MCSpec, AccountsSpec

LEMMA ThrottleWithin == MCSpec => ThrottleSpec
  <1>1. MCInit => ThrottleInit
    BY DEF MCInit
  <1>2. [MCNext]_allVars => [ThrottleNext]_throttleVars
    BY DEF MCNext, Others, allVars
  <1> QED BY <1>1, <1>2, PTL DEF MCSpec, ThrottleSpec

\* No cart row, link, code, bucket or picture is ever in a state that its service does not
\* know, whatever the menus of calls are.
THEOREM ServicesTypeCorrect == MCSpec => []ServicesTypeOK
  <1>1. CartsSpec => []CartsTypeOK
    BY CartsInvariant, PTL DEF CartsInv
  <1>2. BulkSpec => []BulkTypeOK
    BY UploadsInvariant, PTL DEF UploadsInv
  <1>3. CategoriesSpec => []CategoriesTypeOK
    BY CategoriesInvariant, PTL DEF CategoriesInv
  <1>4. ImagesSpec => []ImagesTypeOK
    BY ImagesInvariant, PTL DEF ImagesInv
  <1> QED BY <1>1, <1>2, <1>3, <1>4, CacheTypeCorrect, TwoFactorTypeCorrect, AccountsTypeCorrect,
             ThrottleTypeCorrect, CartsWithin, CacheWithin, BulkWithin, CategoriesWithin, ImagesWithin,
             TwoFactorWithin, AccountsWithin, ThrottleWithin, PTL DEF ServicesTypeOK

\* The catalogue can be walked to its end: every product on one page of a query, the facets
\* counting what is on them, and the tree without the categories of a loop only.
THEOREM TheCatalogueIsWhole == MCSpec => []CatalogueIsWhole
  BY SearchIsWhole, TheTreeIsWhole, SearchWithin, CategoriesWithin, PTL DEF CatalogueIsWhole

\* What an upload leaves behind: the rows that were right, if it met no error and no other; of
\* the skipped ones nothing but what was written unheard; the files of each uploaded picture;
\* one primary picture unless uploads overlapped, and never none unless one failed.
THEOREM TheUploadsAreWhole == MCSpec => []UploadsAreWhole
  BY UploadsKeepTheirReport, ImagesAreWhole, BulkWithin, ImagesWithin, PTL DEF UploadsAreWhole

\* What was proved of each service by itself holds of it among the others.
THEOREM EachServiceHolds ==
  MCSpec => /\ [](SavedWritesShow /\ SecondFactorHolds /\ AccountsHold)
            /\ CartsKeepTheirGoods /\ BucketKeepsItsWord
  BY SavedWritesAreShown, TheSecondFactorHolds, TheAccountsHold, CartsAreKept, TheBucketHolds,
     CacheWithin, TwoFactorWithin, AccountsWithin, CartsWithin, ThrottleWithin, PTL
=============================================================================
