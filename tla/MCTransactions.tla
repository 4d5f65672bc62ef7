--------------------------- MODULE MCTransactions ---------------------------
(* The two components whose transactions wait for each other's rows, for TLC. *)
(* Both update product rows, but other columns of them, and the review's is    *)
(* the last row that its transaction locks: they cannot wait in a circle, and  *)
(* a behaviour has the calls of one of them, as all of the other were refused. *)
EXTENDS Checkout, MCReviews

CONSTANTS account, guest, AccountCheckouts, GuestCheckouts

MCCheckouts == AccountCheckouts \cup GuestCheckouts
MCBuyer == [k \in MCCheckouts |-> IF k \in GuestCheckouts THEN guest ELSE account]
OneLeft == [p \in Products |-> 1]

CheckoutsRefused ==
  /\ stock = InitialStock /\ lock = [p \in Products |-> Free]
  /\ carts = [b \in Buyers |-> Nothing]
  /\ placed = [k \in Checkouts |-> Nothing] /\ items = [k \in Checkouts |-> Nothing]
  /\ pending = [k \in Checkouts |-> {}] /\ want = [k \in Checkouts |-> NoProduct]
  /\ pc = [k \in Checkouts |-> "refused"] /\ edits = MaxEdits
ReviewsRefused ==
  /\ rating = Empty /\ helpful = Empty /\ votes = {} /\ shown = Empty
  /\ task = [r \in Requests |-> NoTask] /\ seen = [r \in Requests |-> Empty]
  /\ stage = [r \in Requests |-> "failed"]

MCInit == (Init /\ ReviewsRefused) \/ (ReviewsInit /\ CheckoutsRefused)
MCNext == (Next /\ UNCHANGED reviewVars) \/ (ReviewsNext /\ UNCHANGED vars)
MCSpec == MCInit /\ [][MCNext]_<<vars, reviewVars>> /\ Fairness /\ ReviewsFairness
=============================================================================
