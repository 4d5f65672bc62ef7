----------------------------- MODULE OrderPages -----------------------------
(***************************************************************************)
(* The pages that show orders: the confirmation, which polls until the     *)
(* order is no longer pending, the list with its status filter, and the    *)
(* details, where an order is cancelled.  The order moves on meanwhile.    *)
(***************************************************************************)
EXTENDS Integers

CONSTANTS MaxPolls,   \* the attempts of the confirmation page (8 in the code)
          Lists       \* bound: the requests of the list under way

ASSUME OrderPagesAssumption == MaxPolls \in Nat /\ Lists # {}

VARIABLES
  ordersPage,   \* which of the pages is open
  status,       \* of the order, on the server
  seen,         \* the status the page shows, or "none"
  firstLoad,    \* the spinner of the first fetch; `lost' once it failed
  load,         \* the first fetch: what it read
  timer, poll, polls,     \* the confirmation's timer, its request, and its attempts
  cancel,       \* the request to cancel
  filter, listed, listing, \* the list: its filter, the one its rows are for, the spinner
  listCall, crossed        \* its requests; ghost: two were under way, or one failed

orderPageVars == <<ordersPage, status, seen, firstLoad, load, timer, poll, polls, cancel,
                   filter, listed, listing, listCall, crossed>>
oneVars == <<seen, firstLoad, load, timer, poll, polls, cancel>>
listVars == <<filter, listed, listing, listCall, crossed>>

Statuses == {"PENDING", "PAID", "SHIPPED", "CANCELLED"}
StatusFilters == {"", "PENDING", "CANCELLED"}
Read == Statuses \cup {"none", "sent", "error"}

OrderPagesTypeOK ==
  /\ ordersPage \in {"confirmation", "list", "details"}
  /\ status \in Statuses /\ seen \in Statuses \cup {"none"}
  /\ {firstLoad, timer, listing, crossed} \subseteq BOOLEAN
  /\ {load, poll, cancel} \subseteq Read
  /\ polls \in 0..MaxPolls
  /\ filter \in StatusFilters /\ listed \in StatusFilters \cup {"nothing"}
  /\ listCall \in [Lists -> [at : {"idle", "sent", "error"}, for : StatusFilters]]

OrderPagesInit ==
  /\ ordersPage \in {"confirmation", "list", "details"}
  /\ status \in Statuses
  /\ seen = "none" /\ firstLoad = (ordersPage # "list") /\ load = IF ordersPage = "list" THEN "none" ELSE "sent"
  /\ timer = FALSE /\ poll = "none" /\ polls = 0 /\ cancel = "none"
  /\ filter = "" /\ listed = "nothing" /\ crossed = FALSE
  /\ listing = (ordersPage = "list")
  /\ \E l \in Lists : listCall = [m \in Lists |-> [at |-> IF m = l /\ listing THEN "sent" ELSE "idle", for |-> ""]]

\* The payment takes the order forward, and staff take one that is not cancelled to any status.
OrderMoves ==
  /\ status # "CANCELLED" /\ status' \in Statuses \ {status}
  /\ UNCHANGED <<ordersPage, oneVars, listVars>>

-----------------------------------------------------------------------------
\* A request reads the order when it is served, is answered later, and may be lost.
Serve1 ==
  /\ \/ load = "sent" /\ load' \in {status, "error"} /\ UNCHANGED poll
     \/ poll = "sent" /\ poll' \in {status, "error"} /\ UNCHANGED load
  /\ UNCHANGED <<ordersPage, status, seen, firstLoad, timer, polls, cancel, listVars>>

PendingAfterError(answer) == IF answer = "error" THEN "PENDING" ELSE answer
ShownAfter(answer) == IF answer = "error" THEN seen ELSE answer
\* The effect that polls, run again when the order or the attempts have changed.
Polls(s, n) == ordersPage = "confirmation" /\ s = "PENDING" /\ n < MaxPolls
FirstAnswered ==
  /\ load \in Statuses \cup {"error"}
  /\ seen' = ShownAfter(load)
  /\ load' = "none" /\ firstLoad' = FALSE
  /\ timer' = Polls(seen', polls)
  /\ UNCHANGED <<ordersPage, status, poll, polls, cancel, listVars>>

TimerFires ==
  /\ timer
  /\ timer' = FALSE /\ poll' = "sent"
  /\ UNCHANGED <<ordersPage, status, seen, firstLoad, load, polls, cancel, listVars>>

PollAnswered ==
  /\ poll \in Statuses \cup {"error"}
  /\ seen' = ShownAfter(poll)
  /\ polls' = polls + 1
  /\ timer' = Polls(seen', polls')
  /\ poll' = "none"
  /\ UNCHANGED <<ordersPage, status, firstLoad, load, cancel, listVars>>

-----------------------------------------------------------------------------
CanCancel(s) == s \in {"PENDING", "PAID"}
CancelOrder ==
  /\ ordersPage = "details" /\ CanCancel(seen) /\ cancel = "none"
  /\ cancel' = "sent"
  /\ UNCHANGED <<ordersPage, status, seen, firstLoad, load, timer, poll, polls, listVars>>

\* The server cancels what may still be, and refuses the rest.
ServeCancel ==
  /\ cancel = "sent"
  /\ \/ CanCancel(status) /\ status' = "CANCELLED" /\ cancel' \in {"CANCELLED", "error"}
     \/ cancel' = "error" /\ UNCHANGED status
  /\ UNCHANGED <<ordersPage, seen, firstLoad, load, timer, poll, polls, listVars>>

CancelAnswered ==
  /\ cancel \in {"CANCELLED", "error"}
  /\ seen' = ShownAfter(cancel)
  /\ cancel' = "none"
  /\ UNCHANGED <<ordersPage, status, firstLoad, load, timer, poll, polls, listVars>>

-----------------------------------------------------------------------------
\* The list is fetched for each change of the filter, and nothing orders the answers.
Listing == {l \in Lists : listCall[l].at # "idle"}
FilterOrders(l, f) ==
  /\ ordersPage = "list" /\ f # filter /\ listCall[l].at = "idle"
  /\ filter' = f /\ listing' = TRUE
  /\ listCall' = [listCall EXCEPT ![l] = [at |-> "sent", for |-> f]]
  /\ crossed' = (Listing # {})
  /\ UNCHANGED <<ordersPage, status, oneVars, listed>>

ListAnswered(l, ok) ==
  /\ listCall[l].at = "sent"
  /\ listed' = IF ok THEN listCall[l].for ELSE listed
  /\ crossed' = (crossed \/ ~ok)
  /\ listing' = FALSE
  /\ listCall' = [listCall EXCEPT ![l].at = "idle"]
  /\ UNCHANGED <<ordersPage, status, oneVars, filter>>

OrderPagesNext ==
  \/ OrderMoves \/ Serve1 \/ FirstAnswered \/ TimerFires \/ PollAnswered
  \/ CancelOrder \/ ServeCancel \/ CancelAnswered
  \/ \E l \in Lists :
       \/ \E f \in StatusFilters : FilterOrders(l, f)
       \/ \E ok \in BOOLEAN : ListAnswered(l, ok)

OrderPagesSpec == OrderPagesInit /\ [][OrderPagesNext]_orderPageVars

-----------------------------------------------------------------------------
\* "Confirming your payment...": the page says so only while it still asks, and asks
\* a bounded number of times.
ConfirmingMeansPolling ==
  ordersPage = "confirmation" /\ ~firstLoad /\ seen = "PENDING" /\ polls < MaxPolls
    => timer \/ poll # "none"

\* Whatever staff do to the order, a page shows no going back of it: only what it shows as
\* pending is read again, one answer at a time, and what it shows as cancelled stays so.
Behind(s, t) == s = t \/ s = "PENDING" \/ (CanCancel(s) /\ t = "CANCELLED")
ShownNeverGoesBack ==
  [][seen # "none" => Behind(seen, seen')]_orderPageVars

\* The rows of the list are those of its filter, unless requests crossed or one failed.
ListFollowsTheFilter ==
  ordersPage = "list" /\ Listing = {} /\ ~crossed => ~listing /\ listed = filter

\* An order's page waits for its payment, then follows its status forward; the list is the
\* filter's.
OrdersShowTheirStatus == [](ConfirmingMeansPolling /\ ListFollowsTheFilter) /\ ShownNeverGoesBack
==============================================================================
