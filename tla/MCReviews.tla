----------------------------- MODULE MCReviews -----------------------------
(* Instances of Reviews for TLC, and a claim of a comment that its code does *)
(* not keep.                                                                 *)
EXTENDS Reviews, FiniteSetsExt

CONSTANTS alice, bob, carol, AliceCalls, BobCalls, CarolCalls

MCRequests == AliceCalls \cup BobCalls \cup CarolCalls
MCUser == [r \in MCRequests |-> CASE r \in AliceCalls -> alice
                                 [] r \in BobCalls -> bob
                                 [] r \in CarolCalls -> carol]

\* What the product row shows of some reviews.
Aggregates(reviews) ==
  LET rows == {id \in Requests : reviews[id] # 0}
  IN [count |-> Cardinality(rows), sum |-> MapThenSumSet(LAMBDA id : reviews[id], rows)]

\* reviews.service.ts:26-30: the aggregates are computed inside the transaction
\* "so the Product row and the Review rows can never drift apart".
NeverDriftApart == Aggregates(shown) = Aggregates(rating)
=============================================================================
