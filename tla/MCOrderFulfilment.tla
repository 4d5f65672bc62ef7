------------------------- MODULE MCOrderFulfilment -------------------------
(* Instances of OrderFulfilment for TLC, and the claims of the repository's  *)
(* comments and documents that its code does not keep.                       *)
EXTENDS OrderFulfilment, TLC

CONSTANTS customer, staff, CustomerCalls, StaffCalls

MCCalls == CustomerCalls \cup StaffCalls
MCSender == [c \in MCCalls |-> IF c \in StaffCalls THEN staff ELSE customer]
MCOwner == [o \in Orders |-> customer]
GuestOwner == [o \in Orders |-> Guest]
OneUnit == [o \in Orders |-> [p \in Products |-> 1]]
StockForAll == [p \in Products |-> Cardinality(Orders)]
Symmetry == Permutations(Slots) \cup Permutations(CustomerCalls) \cup Permutations(StaffCalls)

-----------------------------------------------------------------------------
\* orders.service.ts:168-170: the refund goes out "BEFORE we touch our own DB
\* state, so a cancellation is never recorded while the customer's money is
\* still held".
CancelledAfterMoneyReturned ==
  [][\A o \in Orders, i \in Intents :
       orders[o] # "CANCELLED" /\ orders'[o] = "CANCELLED" /\ calls' # calls
         => ~(intents[i].order = o /\ intents[i].state = "charged")]_vars

\* review-guide-part-2.md:393-395: stock is restored in the transaction that
\* cancels, "so stock can never end up out of sync with the order's actual
\* state"; and order-status-consumer.service.ts:94-95: "a retried/duplicate
\* webhook must not double-apply".
StockMatchesOrders == \A p \in Products : stock[p] + Held(p) = InitialStock[p]

=============================================================================
