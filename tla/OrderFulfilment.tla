-------------------------- MODULE OrderFulfilment --------------------------
(***************************************************************************)
(* The life of an order after checkout: the payment gateway (external),    *)
(* the webhook handler that records what the gateway says and publishes a  *)
(* message, the RabbitMQ queue (external), the consumer that applies the   *)
(* messages to orders and stock and mails the customer, and the staff and  *)
(* customer endpoints that cancel, refund or restatus an order.            *)
(*                                                                         *)
(* Every handler is cut at its awaits.  A Postgres transaction runs at     *)
(* READ COMMITTED without row locks on its reads, so a transaction whose   *)
(* read decides what it writes is two steps, and one that only writes is   *)
(* one.  A backend crash loses every handler and returns the unacked       *)
(* messages to the queue.                                                  *)
(***************************************************************************)
EXTENDS Naturals, FiniteSets, FiniteSetsExt

CONSTANTS
  Orders, Products,
  Intents,        \* Stripe PaymentIntents that may be created
  Calls,          \* bound: the customer and staff API calls of a behaviour
  Sender,         \* Sender[c]: the account that makes call c
  Admins,         \* the accounts with role ADMIN
  Owner,          \* Owner[o]: the account that placed o, or Guest
  Guest, NoIntent, NoOrder, NoMessage,
  Slots,          \* deliveries handled at once: the channel's prefetch (5)
  Qty,            \* Qty[o][p]: units of p in o
  InitialStock,
  StatusTargets,  \* statuses the staff ask for
  MaxRetries,     \* MAX_RETRIES of the consumer (3)
  MaxFaults       \* bound: crashes + webhook failures + gateway redeliveries

VARIABLES
  orders,    \* Order.status, "NONE" before checkout
  stock,     \* Product.stockQuantity
  payments,  \* the Payment row of each order, status "NONE" before it exists
  intents,   \* the gateway: what became of each PaymentIntent, for which order
  events,    \* the gateway: events not yet answered with a 2xx
  recorded,  \* events whose handler has written the payment row
  queue,     \* payment.status.updates: ready copies of each message
  slots,     \* the deliveries being handled, unacked
  dlq,       \* payment.status.updates.dlq
  calls,     \* the customer and staff calls: idle, in flight or done
  mails,     \* kinds of payment mail sent for each order
  faults

gateway  == <<intents, events>>
broker   == <<queue, dlq>>
database == <<orders, stock, payments>>
vars == <<orders, stock, payments, intents, events, recorded, queue, slots,
          dlq, calls, mails, faults>>

OrderStatus == {"PENDING", "PAID", "SHIPPED", "DELIVERED", "CANCELLED"}
Kinds == {"succeeded", "failed"}
Events == [intent : Intents, kind : Kinds]
Messages == [order : Orders, kind : Kinds, attempt : 0 .. MaxRetries]
SlotPcs == {"read", "write", "mail", "error", "ack"}
CallPcs == {"cancelGateway", "cancelCommit", "statusCommit", "refundGateway",
            "refundRecheck", "refundCommit", "createIntent"}

ASSUME OrdersAssumption ==
  /\ NoIntent \notin Intents
  /\ NoOrder \notin Orders
  /\ NoMessage \notin Messages
  /\ IsFiniteSet(Orders)
  /\ IsFiniteSet(Slots)
  /\ Qty \in [Orders -> [Products -> Nat]]
  /\ InitialStock \in [Products -> Nat]
  /\ StatusTargets \subseteq OrderStatus
  /\ MaxRetries \in Nat
  /\ MaxFaults \in Nat

IdleSlot == [pc |-> "idle", msg |-> NoMessage]
Outside(pc) == [pc |-> pc, order |-> NoOrder, txn |-> NoIntent, status |-> "NONE"]
IdleCall == Outside("idle")
DoneCall == Outside("done")
Handling == [pc : SlotPcs, msg : Messages]
InFlight == [pc : CallPcs, order : Orders, txn : Intents \cup {NoIntent},
             status : OrderStatus \cup {"NONE"}]
PaymentRow == [status : {"NONE", "COMPLETED", "FAILED", "REFUNDED"},
               txn : Intents \cup {NoIntent}]
IntentState == [state : {"none", "open", "declined", "charged", "refunded"},
                order : Orders \cup {NoOrder}]

TypeOK ==
  /\ orders \in [Orders -> OrderStatus \cup {"NONE"}]
  /\ stock \in [Products -> Nat]
  /\ payments \in [Orders -> PaymentRow]
  /\ intents \in [Intents -> IntentState]
  /\ events \subseteq Events
  /\ recorded \subseteq events
  /\ queue \in [Messages -> Nat]
  /\ slots \in [Slots -> {IdleSlot} \cup Handling]
  /\ dlq \subseteq Messages
  /\ calls \in [Calls -> {IdleCall, DoneCall} \cup InFlight]
  /\ mails \in [Orders -> SUBSET Kinds]
  /\ faults \in 0 .. MaxFaults

Init ==
  /\ orders = [o \in Orders |-> "NONE"]
  /\ stock = InitialStock
  /\ payments = [o \in Orders |-> [status |-> "NONE", txn |-> NoIntent]]
  /\ intents = [i \in Intents |-> [state |-> "none", order |-> NoOrder]]
  /\ events = {}
  /\ recorded = {}
  /\ queue = [m \in Messages |-> 0]
  /\ slots = [s \in Slots |-> IdleSlot]
  /\ dlq = {}
  /\ calls = [c \in Calls |-> IdleCall]
  /\ mails = [o \in Orders |-> {}]
  /\ faults = 0

Fault == faults < MaxFaults /\ faults' = faults + 1

RestockedNothing(o) == stock
Restocked(o) == [p \in Products |-> stock[p] + Qty[o][p]]

-----------------------------------------------------------------------------
\* Checkout, as the one atomic reservation that module Checkout shows its
\* transaction to be: the order is created PENDING and its units leave stock.
ProcessCheckout(o) ==
  /\ orders[o] = "NONE"
  /\ \A p \in Products : Qty[o][p] <= stock[p]
  /\ orders' = [orders EXCEPT ![o] = "PENDING"]
  /\ stock' = [p \in Products |-> stock[p] - Qty[o][p]]
  /\ UNCHANGED <<payments, gateway, recorded, broker, slots, calls, mails, faults>>

\* create-intent: access and PENDING are checked, then Stripe is called.
RequestIntent(c, o) ==
  /\ calls[c] = IdleCall
  /\ Owner[o] \in {Sender[c], Guest}
  /\ orders[o] = "PENDING"
  /\ calls' = [calls EXCEPT ![c] = [pc |-> "createIntent", order |-> o,
                                    txn |-> NoIntent, status |-> "PENDING"]]
  /\ UNCHANGED <<database, gateway, recorded, broker, slots, mails, faults>>

CreateIntent(c, i) ==
  /\ calls[c].pc = "createIntent"
  /\ intents[i].state = "none"
  /\ intents' = [intents EXCEPT ![i] = [state |-> "open", order |-> calls[c].order]]
  /\ calls' = [calls EXCEPT ![c] = DoneCall]
  /\ UNCHANGED <<database, events, recorded, broker, slots, mails, faults>>

\* The customer confirms the intent: the gateway charges the card or declines
\* it, and owes the shop an event.  A declined intent may be confirmed again.
Charge(i) ==
  /\ intents[i].state \in {"open", "declined"}
  /\ intents' = [intents EXCEPT ![i].state = "charged"]
  /\ events' = events \cup {[intent |-> i, kind |-> "succeeded"]}
  /\ UNCHANGED <<database, recorded, broker, slots, calls, mails, faults>>

Decline(i) ==
  /\ intents[i].state = "open"
  /\ intents' = [intents EXCEPT ![i].state = "declined"]
  /\ events' = events \cup {[intent |-> i, kind |-> "failed"]}
  /\ UNCHANGED <<database, recorded, broker, slots, calls, mails, faults>>

-----------------------------------------------------------------------------
\* handleStripeWebhook: the payment row is upserted, whatever it held.
RecordPayment(e) ==
  /\ e \in events \ recorded
  /\ payments' = [payments EXCEPT ![intents[e.intent].order] =
                    [status |-> IF e.kind = "succeeded" THEN "COMPLETED" ELSE "FAILED",
                     txn |-> e.intent]]
  /\ recorded' = recorded \cup {e}
  /\ UNCHANGED <<orders, stock, gateway, broker, slots, calls, mails, faults>>

MessageOfFailure(e) == [order |-> intents[e.intent].order, kind |-> "failed", attempt |-> 0]
MessageOf(e) == [order |-> intents[e.intent].order, kind |-> e.kind, attempt |-> 0]

\* ... then the message is published and the gateway answered; if the answer
\* is lost the gateway keeps the event and delivers it again.
PublishStatus(e) ==
  /\ e \in recorded
  /\ queue' = [queue EXCEPT ![MessageOf(e)] = @ + 1]
  /\ recorded' = recorded \ {e}
  /\ \/ events' = events \ {e} /\ UNCHANGED faults
     \/ Fault /\ UNCHANGED events
  /\ UNCHANGED <<database, intents, slots, dlq, calls, mails>>

\* ... or the publish throws: no 2xx, and the gateway delivers the event again.
WebhookFails(e) ==
  /\ e \in recorded
  /\ Fault
  /\ recorded' = recorded \ {e}
  /\ UNCHANGED <<database, gateway, broker, slots, calls, mails>>

-----------------------------------------------------------------------------
\* The consumer.  Up to prefetch deliveries run concurrently: the callback does
\* not await handle().
Deliver(s, m) ==
  /\ slots[s] = IdleSlot
  /\ queue[m] > 0
  /\ queue' = [queue EXCEPT ![m] = @ - 1]
  /\ slots' = [slots EXCEPT ![s] = [pc |-> "read", msg |-> m]]
  /\ UNCHANGED <<database, gateway, recorded, dlq, calls, mails, faults>>

\* Where a delivery goes that finds its order already handled: only a retried
\* one, whose earlier attempt may have thrown in the mail call, mails again.
AfterSkipNoMail(m) == "ack"
AfterSkip(m) == IF m.attempt > 0 THEN "mail" ELSE "ack"

\* applyStatus reads the order; one that left PENDING is not touched.
ApplyRead(s) ==
  /\ slots[s].pc = "read"
  /\ slots' = [slots EXCEPT ![s].pc =
                 IF orders[slots[s].msg.order] = "PENDING" THEN "write"
                 ELSE AfterSkip(slots[s].msg)]
  /\ UNCHANGED <<database, gateway, recorded, broker, calls, mails, faults>>

OutcomeOfPayment(kind) == IF kind = "succeeded" THEN "COMPLETED" ELSE "FAILED"
OutcomePaid(kind) == "PAID"
Outcome(kind) == IF kind = "succeeded" THEN "PAID" ELSE "CANCELLED"

ApplyCommit(s) ==
  LET m == slots[s].msg IN
  /\ slots[s].pc = "write"
  /\ orders' = [orders EXCEPT ![m.order] = Outcome(m.kind)]
  /\ stock' = IF m.kind = "failed" THEN Restocked(m.order) ELSE stock
  /\ slots' = [slots EXCEPT ![s].pc = "mail"]
  /\ UNCHANGED <<payments, gateway, recorded, broker, calls, mails, faults>>

ErrorIsAcked(s) ==
  /\ slots[s].pc \in {"read", "write"}
  /\ slots' = [slots EXCEPT ![s].pc = "ack"]
  /\ UNCHANGED <<database, gateway, recorded, broker, calls, mails, faults>>
\* A database error rolls the transaction back and throws out of applyStatus.
ApplyFails(s) ==
  /\ slots[s].pc \in {"read", "write"}
  /\ slots' = [slots EXCEPT ![s].pc = "error"]
  /\ UNCHANGED <<database, gateway, recorded, broker, calls, mails, faults>>

SendMail(s) ==
  /\ slots[s].pc = "mail"
  /\ mails' = [mails EXCEPT ![slots[s].msg.order] = @ \cup {slots[s].msg.kind}]
  /\ slots' = [slots EXCEPT ![s].pc = "ack"]
  /\ UNCHANGED <<database, gateway, recorded, broker, calls, faults>>

MailFails(s) ==
  /\ slots[s].pc = "mail"
  /\ slots' = [slots EXCEPT ![s].pc = "error"]
  /\ UNCHANGED <<database, gateway, recorded, broker, calls, mails, faults>>

\* A failed delivery is published again with its retry count raised, then acked.
Republish(s) ==
  LET m == slots[s].msg IN
  /\ slots[s].pc = "error"
  /\ m.attempt + 1 <= MaxRetries
  /\ queue' = [queue EXCEPT ![[m EXCEPT !.attempt = @ + 1]] = @ + 1]
  /\ slots' = [slots EXCEPT ![s].pc = "ack"]
  /\ UNCHANGED <<database, gateway, recorded, dlq, calls, mails, faults>>

DeadLetter(s) ==
  /\ slots[s].pc = "error"
  /\ slots[s].msg.attempt + 1 > MaxRetries
  /\ dlq' = dlq \cup {slots[s].msg}
  /\ slots' = [slots EXCEPT ![s] = IdleSlot]
  /\ UNCHANGED <<database, gateway, recorded, queue, calls, mails, faults>>

Ack(s) ==
  /\ slots[s].pc = "ack"
  /\ slots' = [slots EXCEPT ![s] = IdleSlot]
  /\ UNCHANGED <<database, gateway, recorded, broker, calls, mails, faults>>

-----------------------------------------------------------------------------
\* The intent a call must refund: the payment row's, if it is COMPLETED.
ChargedTxn(o) == IF payments[o].status = "COMPLETED" THEN payments[o].txn ELSE NoIntent

\* The first await of a call that will end in pc `last`, through the gateway
\* when there is something to refund.
StartWithoutRefund(c, o, viaGateway, last) ==
  calls' = [calls EXCEPT ![c] = [pc |-> last, order |-> o, txn |-> ChargedTxn(o),
                                 status |-> "CANCELLED"]]
StartRefunding(c, o, viaGateway, last) ==
  calls' = [calls EXCEPT ![c] =
              [pc |-> IF ChargedTxn(o) = NoIntent THEN last ELSE viaGateway,
               order |-> o, txn |-> ChargedTxn(o), status |-> "CANCELLED"]]

CancellableAgain == {"PENDING", "PAID", "CANCELLED"}
Cancellable == {"PENDING", "PAID"}

CancelOrder(c, o) ==
  /\ calls[c] = IdleCall
  /\ Owner[o] = Sender[c] \/ Sender[c] \in Admins
  /\ orders[o] \in Cancellable
  /\ StartRefunding(c, o, "cancelGateway", "cancelCommit")
  /\ UNCHANGED <<database, gateway, recorded, broker, slots, mails, faults>>

UpdateOrderStatus(c, o, target) ==
  /\ calls[c] = IdleCall
  /\ Sender[c] \in Admins
  /\ orders[o] # "NONE"
  /\ \/ /\ target = "CANCELLED" /\ orders[o] # "CANCELLED"
        /\ StartRefunding(c, o, "cancelGateway", "cancelCommit")
     \/ /\ (target = "CANCELLED") <=> (orders[o] = "CANCELLED")
        /\ calls' = [calls EXCEPT ![c] = [pc |-> "statusCommit", order |-> o,
                                          txn |-> NoIntent, status |-> target]]
  /\ UNCHANGED <<database, gateway, recorded, broker, slots, mails, faults>>

ProcessRefund(c, o) ==
  /\ calls[c] = IdleCall
  /\ Sender[c] \in Admins
  /\ payments[o].status \in {"COMPLETED", "FAILED"}
  /\ StartRefunding(c, o, "refundGateway", "refundRecheck")
  /\ UNCHANGED <<database, gateway, recorded, broker, slots, mails, faults>>

\* refunds.create: a charged intent is refunded; one already refunded or never
\* charged is reported as nothing to do.  Either way the call goes on, unless
\* the ten-second timeout strikes first.
GatewayRefund(c) ==
  LET call == calls[c] IN
  /\ call.pc \in {"cancelGateway", "refundGateway"}
  /\ intents' = [intents EXCEPT ![call.txn].state = IF @ = "charged" THEN "refunded" ELSE @]
  /\ \/ calls' = [calls EXCEPT ![c].pc = IF @ = "cancelGateway" THEN "cancelCommit"
                                         ELSE "refundRecheck"]
     \/ calls' = [calls EXCEPT ![c] = DoneCall]
  /\ UNCHANGED <<database, events, recorded, broker, slots, mails, faults>>

\* The cancellation transaction writes without looking at the status again.
CancelCommit(c) ==
  LET call == calls[c] IN
  /\ call.pc = "cancelCommit"
  /\ orders' = [orders EXCEPT ![call.order] = "CANCELLED"]
  /\ stock' = Restocked(call.order)
  /\ payments' = IF call.txn = NoIntent THEN payments
                 ELSE [payments EXCEPT ![call.order].status = "REFUNDED"]
  /\ calls' = [calls EXCEPT ![c] = DoneCall]
  /\ UNCHANGED <<gateway, recorded, broker, slots, mails, faults>>

StatusCommit(c) ==
  /\ calls[c].pc = "statusCommit"
  /\ orders' = [orders EXCEPT ![calls[c].order] = calls[c].status]
  /\ calls' = [calls EXCEPT ![c] = DoneCall]
  /\ UNCHANGED <<stock, payments, gateway, recorded, broker, slots, mails, faults>>

\* processRefund's transaction reads order and payment again; a payment already
\* REFUNDED ends the call.
RefundRecheck(c) ==
  LET o == calls[c].order IN
  /\ calls[c].pc = "refundRecheck"
  /\ calls' = [calls EXCEPT ![c] =
                 IF payments[o].status = "REFUNDED" THEN DoneCall
                 ELSE [@ EXCEPT !.pc = "refundCommit", !.status = orders[o]]]
  /\ UNCHANGED <<database, gateway, recorded, broker, slots, mails, faults>>

RefundCommit(c) ==
  LET o == calls[c].order IN
  /\ calls[c].pc = "refundCommit"
  /\ IF calls[c].status = "CANCELLED" THEN UNCHANGED <<orders, stock>>
     ELSE /\ orders' = [orders EXCEPT ![o] = "CANCELLED"]
          /\ stock' = Restocked(o)
  /\ payments' = [payments EXCEPT ![o].status = "REFUNDED"]
  /\ calls' = [calls EXCEPT ![c] = DoneCall]
  /\ UNCHANGED <<gateway, recorded, broker, slots, mails, faults>>

\* A database or gateway error ends a call with nothing more written.
CallFails(c) ==
  /\ calls[c].pc \in CallPcs
  /\ calls' = [calls EXCEPT ![c] = DoneCall]
  /\ UNCHANGED <<database, gateway, recorded, broker, slots, mails, faults>>

-----------------------------------------------------------------------------
Holders(m) == {s \in Slots : slots[s].msg = m}

\* The backend restarts: handlers are gone, the broker requeues what it never
\* saw acked, the gateway never got its 2xx.
Crash ==
  /\ Fault
  /\ queue' = [m \in Messages |-> queue[m] + Cardinality(Holders(m))]
  /\ slots' = [s \in Slots |-> IdleSlot]
  /\ calls' = [c \in Calls |-> IF calls[c] = IdleCall THEN IdleCall ELSE DoneCall]
  /\ recorded' = {}
  /\ UNCHANGED <<database, gateway, dlq, mails>>

Gateway == \E i \in Intents : Charge(i) \/ Decline(i)
Webhook == \E e \in events : RecordPayment(e) \/ PublishStatus(e) \/ WebhookFails(e)
Consumer == \E s \in Slots :
  \/ \E m \in Messages : Deliver(s, m)
  \/ ApplyRead(s) \/ ApplyCommit(s) \/ ApplyFails(s) \/ SendMail(s)
  \/ MailFails(s) \/ Republish(s) \/ DeadLetter(s) \/ Ack(s)
Caller == \E c \in Calls :
  \/ \E o \in Orders : RequestIntent(c, o) \/ CancelOrder(c, o) \/ ProcessRefund(c, o)
  \/ \E o \in Orders, target \in StatusTargets : UpdateOrderStatus(c, o, target)
  \/ \E i \in Intents : CreateIntent(c, i)
  \/ GatewayRefund(c) \/ CancelCommit(c) \/ StatusCommit(c)
  \/ RefundRecheck(c) \/ RefundCommit(c) \/ CallFails(c)

Next == (\E o \in Orders : ProcessCheckout(o)) \/ Gateway \/ Webhook \/ Consumer
        \/ Caller \/ Crash

Spec == Init /\ [][Next]_vars

\* The event loop runs every handler it has started, the gateway delivers what
\* was never answered, the broker hands over what is ready.
Fairness ==
  /\ \A e \in Events : WF_vars(RecordPayment(e)) /\ WF_vars(PublishStatus(e))
  /\ \A m \in Messages : WF_vars(\E s \in Slots : Deliver(s, m))
  /\ \A s \in Slots : WF_vars(ApplyRead(s) \/ ApplyCommit(s) \/ SendMail(s) \/
                              Republish(s) \/ DeadLetter(s) \/ Ack(s))
FairSpec == Spec /\ Fairness

-----------------------------------------------------------------------------
Charged(i) == intents[i].state \in {"charged", "refunded"}
OrderCharged(o) == \E i \in Intents : intents[i].order = o /\ Charged(i)

Held(p) == MapThenSumSet(LAMBDA o : Qty[o][p],
                         {o \in Orders : orders[o] \notin {"NONE", "CANCELLED"}})

\* Inventory never loses units: what left the shelf is held by an order that is
\* not cancelled, whichever handlers raced to cancel, refund, pay or restatus it.
NoStockLeak == \A p \in Products : stock[p] + Held(p) >= InitialStock[p]

\* A call past its own status check that will write what it decided then.
StaleWriter(c, o) ==
  /\ calls[c].order = o
  /\ \/ calls[c].pc \in {"cancelGateway", "cancelCommit"}
     \/ calls[c].pc \in {"statusCommit", "refundCommit"} /\ calls[c].status # "CANCELLED"

Settled(o) ==
  /\ orders[o] = "CANCELLED"
  /\ \A c \in Calls : ~StaleWriter(c, o)
  /\ \A s \in Slots : ~(slots[s].pc = "write" /\ slots[s].msg.order = o)

\* Once an order is cancelled and no handler that checked it earlier is still in
\* flight, it stays cancelled and no later cancel, refund, status update or
\* gateway message gets far enough to restock it again or to revive it.
CancelledIsFinal == [][\A o \in Orders : Settled(o) => Settled(o)']_vars

\* A message or event that still carries the news of a successful charge of o:
\* one whose handler is past its work, and only has to mail or ack, does not.
Carrier(o) ==
  \/ \E i \in Intents : /\ intents[i].order = o
                        /\ [intent |-> i, kind |-> "succeeded"] \in events
  \/ \E m \in Messages :
       /\ m.order = o /\ m.kind = "succeeded"
       /\ \/ queue[m] > 0 \/ m \in dlq
          \/ \E s \in Slots : slots[s].msg = m /\ slots[s].pc \in {"read", "write", "error"}

\* The news of a charge is never lost on the way to the order: while a charged
\* order is still PENDING, the gateway still owes the event, or a message with
\* it is queued, being handled or dead-lettered -- across webhook failures,
\* retries and crashes.  (Staff who reset an order to PENDING are excluded.)
ChargedPendingHasCarrier ==
  "PENDING" \notin StatusTargets =>
    \A o \in Orders : orders[o] = "PENDING" /\ OrderCharged(o) => Carrier(o)

\* The consumer marks an order PAID only if the gateway charged an intent of
\* that order; only a staff status update (a step of calls) may do otherwise.
PaidOnlyIfCharged ==
  [][\A o \in Orders : orders[o] # "PAID" /\ orders'[o] = "PAID" /\ calls' = calls
       => OrderCharged(o)]_vars

\* A call about to record a refund of an intent has had the money returned at
\* the gateway first (orders.service.ts:168-170, 276-279).
RefundBeforeRecord ==
  \A c \in Calls :
    /\ calls[c].pc \in {"cancelCommit", "refundRecheck", "refundCommit"}
    /\ calls[c].txn # NoIntent
    => intents[calls[c].txn].state = "refunded"

\* Whatever the gateway reports of an order is applied to it in the end, or
\* waits in the dead-letter queue.
EventIsSettled ==
  \A e \in Events, o \in Orders : e \in events /\ intents[e.intent].order = o
    ~> orders[o] # "PENDING" \/ \E m \in dlq : m.order = o

\* An order the consumer paid is confirmed by mail in the end, mail failures and
\* retries included, unless the retries run out, in a behaviour without a fault: a
\* restart between the commit and the mail loses it.
PaidIsConfirmed ==
  \A o \in Orders : orders[o] = "PAID" ~>
    "succeeded" \in mails[o] \/ dlq # {} \/ faults > 0
=============================================================================
