----------------------- MODULE OrderFulfilmentProofs -----------------------
(***************************************************************************)
(* What OrderFulfilment guarantees for any number of orders, intents,      *)
(* concurrent calls and deliveries, any retry limit and any number of      *)
(* crashes.                                                                *)
(***************************************************************************)
EXTENDS OrderFulfilment, FiniteSetTheorems, TLAPS

\* A slot past its delivery holds a message.
LEMMA BusySlot ==
  ASSUME TypeOK, NEW s \in Slots, slots[s].pc \in SlotPcs
  PROVE  slots[s] \in Handling
BY DEF TypeOK, SlotPcs, IdleSlot, Handling

\* A call in flight names an order.
LEMMA BusyCall ==
  ASSUME TypeOK, NEW c \in Calls, calls[c].pc \in CallPcs
  PROVE  calls[c] \in InFlight
BY DEF TypeOK, CallPcs, IdleCall, DoneCall, Outside, InFlight

\* Returning an order's units to stock leaves every stock a number.
LEMMA RestockedType ==
  ASSUME TypeOK, NEW o \in Orders
  PROVE  Restocked(o) \in [Products -> Nat]
BY OrdersAssumption DEF TypeOK, Restocked

\* The payment row's intent, if it is to be refunded, is an intent.
LEMMA ChargedTxnType ==
  ASSUME TypeOK, NEW o \in Orders
  PROVE  ChargedTxn(o) \in Intents \cup {NoIntent}
BY DEF TypeOK, PaymentRow, ChargedTxn

\* Every event is about an intent that was created for an order; an event that
\* reports success is about a charged one.
EventsFounded ==
  /\ \A i \in Intents : intents[i].state # "none" => intents[i].order \in Orders
  /\ \A e \in events : /\ intents[e.intent].state # "none"
                       /\ e.kind = "succeeded" => Charged(e.intent)

\* A call at the gateway refunds an intent that was charged; one past it holds a
\* refunded intent or none.  A status update writes a status the staff asked for,
\* and an intent is only asked for an order that was placed.
CallsFounded ==
  /\ RefundBeforeRecord
  /\ \A c \in Calls :
      /\ calls[c].pc \in {"cancelGateway", "refundGateway"} =>
           calls[c].txn \in Intents /\ Charged(calls[c].txn)
      /\ calls[c].pc = "statusCommit" => calls[c].status \in StatusTargets
      /\ calls[c].pc = "createIntent" => orders[calls[c].order] # "NONE"

\* A COMPLETED payment row names a charged intent.
PaymentsFounded ==
  \A o \in Orders : payments[o].status = "COMPLETED" =>
    payments[o].txn \in Intents /\ Charged(payments[o].txn)

\* Intents belong to placed orders.
IntentsFounded ==
  \A i \in Intents : intents[i].state # "none" => orders[intents[i].order] # "NONE"

\* A message of success, ready, handled or dead-lettered, is about a charged order.
Somewhere(m) == queue[m] > 0 \/ m \in dlq \/ \E s \in Slots : slots[s].msg = m
MessagesFounded ==
  \A m \in Messages : m.kind = "succeeded" /\ Somewhere(m) => OrderCharged(m.order)

IInv ==
  /\ TypeOK /\ EventsFounded /\ CallsFounded /\ PaymentsFounded /\ IntentsFounded
  /\ MessagesFounded /\ ChargedPendingHasCarrier

\* What the webhook publishes is a message.
LEMMA MessageOfType ==
  ASSUME TypeOK, EventsFounded, NEW e \in events
  PROVE  MessageOf(e) \in Messages
BY OrdersAssumption DEF TypeOK, EventsFounded, Events, Messages, MessageOf

\* The type of calls, as TypeOK has it.
TypedCalls == [Calls -> {IdleCall, DoneCall} \cup InFlight]

\* Types are preserved by every step.
LEMMA TypeStep ==
  ASSUME TypeOK, EventsFounded, CallsFounded, [Next]_vars
  PROVE  TypeOK'
<1> USE DEF database, gateway, broker
<1>1. ASSUME NEW o \in Orders, ProcessCheckout(o) PROVE TypeOK'
  <2>1. ASSUME NEW p \in Products PROVE stock[p] - Qty[o][p] \in Nat
    <3>1. stock[p] \in Nat
      BY DEF TypeOK
    <3>2. Qty[o][p] \in Nat
      BY OrdersAssumption
    <3>3. Qty[o][p] <= stock[p]
      BY <1>1 DEF ProcessCheckout
    <3>4. QED
      BY <3>1, <3>2, <3>3
  <2>2. QED
    BY <1>1, <2>1 DEF ProcessCheckout, TypeOK, OrderStatus
<1>2. ASSUME NEW i \in Intents, Charge(i) \/ Decline(i) PROVE TypeOK'
  BY <1>2 DEF Charge, Decline, Events, Kinds, TypeOK, IntentState
<1>3. ASSUME NEW e \in events, RecordPayment(e) PROVE TypeOK'
  BY <1>3 DEF RecordPayment, Events, TypeOK, PaymentRow
<1>4. ASSUME NEW e \in events, PublishStatus(e) PROVE TypeOK'
  <2>1. queue' \in [Messages -> Nat]
    BY <1>4, MessageOfType DEF PublishStatus, TypeOK
  <2>2. recorded' \subseteq events' /\ events' \subseteq Events
    BY <1>4 DEF PublishStatus, TypeOK
  <2>3. faults' \in 0 .. MaxFaults
    BY <1>4, OrdersAssumption DEF PublishStatus, Fault, TypeOK
  <2>4. QED
    BY <1>4, <2>1, <2>2, <2>3 DEF PublishStatus, TypeOK
<1>5. ASSUME NEW e \in events, WebhookFails(e) PROVE TypeOK'
  BY <1>5, OrdersAssumption DEF WebhookFails, Fault, TypeOK
<1>6. ASSUME NEW s \in Slots, NEW m \in Messages, Deliver(s, m) PROVE TypeOK'
  BY <1>6 DEF Deliver, SlotPcs, TypeOK, Handling
<1>7. ASSUME NEW s \in Slots, ApplyRead(s) PROVE TypeOK'
  BY <1>7, BusySlot DEF ApplyRead, AfterSkip, SlotPcs, Handling, TypeOK
<1>8. ASSUME NEW s \in Slots, ApplyCommit(s) PROVE TypeOK'
  <2>1. slots[s] \in Handling /\ slots[s].msg.order \in Orders
    BY <1>8, BusySlot DEF ApplyCommit, SlotPcs, Handling, Messages
  <2>2. stock' \in [Products -> Nat]
    BY <1>8, <2>1, RestockedType DEF ApplyCommit, TypeOK
  <2>3. orders' \in [Orders -> OrderStatus \cup {"NONE"}]
    BY <1>8 DEF ApplyCommit, Outcome, OrderStatus, TypeOK
  <2>4. slots' \in [Slots -> {IdleSlot} \cup Handling]
    BY <1>8, <2>1 DEF ApplyCommit, SlotPcs, Handling, TypeOK
  <2>5. QED
    BY <1>8, <2>2, <2>3, <2>4 DEF ApplyCommit, TypeOK
<1>9. ASSUME NEW s \in Slots, ApplyFails(s) \/ MailFails(s) PROVE TypeOK'
  BY <1>9, BusySlot DEF ApplyFails, MailFails, SlotPcs, Handling, TypeOK
<1>10. ASSUME NEW s \in Slots, SendMail(s) PROVE TypeOK'
  BY <1>10, BusySlot DEF SendMail, SlotPcs, Handling, Messages, TypeOK
<1>11. ASSUME NEW s \in Slots, Republish(s) PROVE TypeOK'
  <2>1. slots[s] \in Handling
    BY <1>11, BusySlot DEF Republish, SlotPcs
  <2>2. [slots[s].msg EXCEPT !.attempt = @ + 1] \in Messages
    BY <1>11, <2>1, OrdersAssumption DEF Republish, Handling, Messages
  <2>3. queue' \in [Messages -> Nat]
    BY <1>11, <2>2 DEF Republish, TypeOK
  <2>4. QED
    BY <1>11, <2>1, <2>3 DEF Republish, SlotPcs, Handling, TypeOK
<1>12. ASSUME NEW s \in Slots, DeadLetter(s) \/ Ack(s) PROVE TypeOK'
  <2>1. slots[s].msg \in Messages
    BY <1>12, BusySlot DEF DeadLetter, Ack, SlotPcs, Handling
  <2>2. QED
    BY <1>12, <2>1 DEF DeadLetter, Ack, TypeOK
<1>13. ASSUME NEW c \in Calls, NEW o \in Orders,
              RequestIntent(c, o) \/ CancelOrder(c, o) \/ ProcessRefund(c, o)
       PROVE TypeOK'
  <2>1. calls' \in TypedCalls
    BY <1>13, ChargedTxnType
       DEF RequestIntent, CancelOrder, ProcessRefund, StartRefunding, CallPcs,
           OrderStatus, InFlight, TypedCalls, TypeOK
  <2>2. QED
    BY <1>13, <2>1 DEF RequestIntent, CancelOrder, ProcessRefund, TypedCalls, TypeOK
<1>14. ASSUME NEW c \in Calls, NEW o \in Orders, NEW t \in StatusTargets,
              UpdateOrderStatus(c, o, t)
       PROVE TypeOK'
  <2>1. calls' \in TypedCalls
    BY <1>14, OrdersAssumption, ChargedTxnType
       DEF UpdateOrderStatus, StartRefunding, CallPcs, OrderStatus, InFlight, TypedCalls, TypeOK
  <2>2. QED
    BY <1>14, <2>1 DEF UpdateOrderStatus, TypedCalls, TypeOK
<1>15. ASSUME NEW c \in Calls, NEW i \in Intents, CreateIntent(c, i) PROVE TypeOK'
  <2>1. calls[c].order \in Orders
    BY <1>15, BusyCall DEF CreateIntent, CallPcs, InFlight
  <2>2. QED
    BY <1>15, <2>1 DEF CreateIntent, IntentState, TypeOK
<1>16. ASSUME NEW c \in Calls, GatewayRefund(c) PROVE TypeOK'
  <2>1. calls' \in TypedCalls
    BY <1>16, BusyCall DEF GatewayRefund, CallPcs, InFlight, TypedCalls, TypeOK
  <2>2. intents' \in [Intents -> IntentState]
    BY <1>16 DEF CallsFounded, GatewayRefund, IntentState, TypeOK
  <2>3. QED
    BY <1>16, <2>1, <2>2 DEF GatewayRefund, TypedCalls, TypeOK
<1>17. ASSUME NEW c \in Calls, CancelCommit(c) PROVE TypeOK'
  <2>1. calls[c].order \in Orders
    BY <1>17, BusyCall DEF CancelCommit, CallPcs, InFlight
  <2>2. stock' \in [Products -> Nat]
    BY <1>17, <2>1, RestockedType DEF CancelCommit
  <2>3. payments' \in [Orders -> PaymentRow]
    BY <1>17 DEF CancelCommit, PaymentRow, TypeOK
  <2>4. QED
    BY <1>17, <2>2, <2>3 DEF CancelCommit, OrderStatus, TypeOK
<1>18. ASSUME NEW c \in Calls, StatusCommit(c) PROVE TypeOK'
  BY <1>18, BusyCall DEF StatusCommit, CallPcs, InFlight, TypeOK
<1>19. ASSUME NEW c \in Calls, RefundRecheck(c) PROVE TypeOK'
  <2>1. calls[c] \in InFlight
    BY <1>19, BusyCall DEF RefundRecheck, CallPcs
  <2>2. orders[calls[c].order] \in OrderStatus \cup {"NONE"}
    BY <2>1 DEF InFlight, TypeOK
  <2>3. calls' \in TypedCalls
    BY <1>19, <2>1, <2>2 DEF RefundRecheck, InFlight, CallPcs, TypedCalls, TypeOK
  <2>4. QED
    BY <1>19, <2>3 DEF RefundRecheck, TypedCalls, TypeOK
<1>20. ASSUME NEW c \in Calls, RefundCommit(c) PROVE TypeOK'
  <2>1. calls[c].order \in Orders
    BY <1>20, BusyCall DEF RefundCommit, CallPcs, InFlight
  <2>2. stock' \in [Products -> Nat]
    BY <1>20, <2>1, RestockedType DEF RefundCommit, TypeOK
  <2>3. payments' \in [Orders -> PaymentRow]
    BY <1>20, <2>1 DEF RefundCommit, PaymentRow, TypeOK
  <2>4. QED
    BY <1>20, <2>2, <2>3 DEF RefundCommit, OrderStatus, TypeOK
<1>21. ASSUME NEW c \in Calls, CallFails(c) PROVE TypeOK'
  BY <1>21 DEF CallFails, TypeOK
<1>22. ASSUME Crash PROVE TypeOK'
  <2>1. ASSUME NEW m \in Messages PROVE Cardinality(Holders(m)) \in Nat
    BY OrdersAssumption, FS_Subset, FS_CardinalityType DEF Holders
  <2>2. queue' \in [Messages -> Nat]
    BY <1>22, <2>1 DEF Crash, TypeOK
  <2>3. faults' \in 0 .. MaxFaults
    BY <1>22, OrdersAssumption DEF Crash, Fault, TypeOK
  <2>4. QED
    BY <1>22, <2>2, <2>3 DEF Crash, TypeOK
<1>23. CASE UNCHANGED vars
  BY <1>23 DEF vars, TypeOK
<1>24. QED
  BY <1>1, <1>2, <1>3, <1>4, <1>5, <1>6, <1>7, <1>8, <1>9, <1>10, <1>11, <1>12, <1>13,
     <1>14, <1>15, <1>16, <1>17, <1>18, <1>19, <1>20, <1>21, <1>22, <1>23
     DEF Next, Gateway, Webhook, Consumer, Caller

-----------------------------------------------------------------------------
\* Which steps touch the gateway.
LEMMA GatewaySteps ==
  ASSUME [Next]_vars
  PROVE  \/ UNCHANGED gateway
         \/ \E i \in Intents : Charge(i) \/ Decline(i)
         \/ \E e \in events : PublishStatus(e)
         \/ \E c \in Calls : GatewayRefund(c) \/ \E i \in Intents : CreateIntent(c, i)
BY DEF Next, Gateway, Webhook, Consumer, Caller, vars, gateway, ProcessCheckout, RequestIntent,
       RecordPayment, WebhookFails, Deliver, ApplyRead, ApplyCommit, ApplyFails, SendMail,
       MailFails, Republish, DeadLetter, Ack, CancelOrder, UpdateOrderStatus, ProcessRefund,
       CancelCommit, StatusCommit, RefundRecheck, RefundCommit, CallFails, Crash

\* Intents keep their orders and events their intents (EventsFounded) at every step.
LEMMA EventsFoundedStep ==
  ASSUME IInv, [Next]_vars
  PROVE  EventsFounded'
<1> USE DEF IInv, EventsFounded, Charged
<1>1. ASSUME NEW i \in Intents, Charge(i) PROVE EventsFounded'
  BY <1>1 DEF Charge, TypeOK, IntentState
<1>2. ASSUME NEW i \in Intents, Decline(i) PROVE EventsFounded'
  BY <1>2 DEF Decline, TypeOK, IntentState
<1>3. ASSUME NEW e \in events, PublishStatus(e) PROVE EventsFounded'
  BY <1>3 DEF PublishStatus
<1>4. ASSUME NEW c \in Calls, GatewayRefund(c) PROVE EventsFounded'
  BY <1>4 DEF GatewayRefund, TypeOK, IntentState, Events
<1>5. ASSUME NEW c \in Calls, NEW i \in Intents, CreateIntent(c, i) PROVE EventsFounded'
  <2>1. calls[c].order \in Orders
    BY <1>5, BusyCall DEF CreateIntent, CallPcs, InFlight
  <2>2. QED
    BY <1>5, <2>1 DEF CreateIntent, TypeOK, IntentState, Events
<1>6. CASE UNCHANGED gateway
  BY <1>6 DEF gateway
<1>7. QED
  BY <1>1, <1>2, <1>3, <1>4, <1>5, <1>6, GatewaySteps

\* The gateway forgets nothing: an intent keeps its order, a charge stays a charge
\* or becomes a refund, a refund stays.
GatewayRemembers ==
  \A i \in Intents :
    /\ intents[i].state # "none" =>
         intents'[i].state # "none" /\ intents'[i].order = intents[i].order
    /\ Charged(i) => Charged(i)'
    /\ intents[i].state = "none" => ~Charged(i)'
    /\ intents[i].state = "refunded" => intents'[i].state = "refunded"

\* Every step keeps what the gateway knows: refunds only follow charges.
LEMMA GatewayStep ==
  ASSUME IInv, [Next]_vars
  PROVE  GatewayRemembers
<1> USE DEF IInv, GatewayRemembers, Charged, TypeOK, IntentState
<1>1. ASSUME NEW i \in Intents, Charge(i) \/ Decline(i) PROVE GatewayRemembers
  BY <1>1 DEF Charge, Decline
<1>2. ASSUME NEW e \in events, PublishStatus(e) PROVE GatewayRemembers
  BY <1>2 DEF PublishStatus
<1>3. ASSUME NEW c \in Calls, GatewayRefund(c) PROVE GatewayRemembers
  BY <1>3 DEF GatewayRefund
<1>4. ASSUME NEW c \in Calls, NEW i \in Intents, CreateIntent(c, i) PROVE GatewayRemembers
  BY <1>4 DEF CreateIntent
<1>5. CASE UNCHANGED gateway
  BY <1>5 DEF gateway
<1>6. QED
  BY <1>1, <1>2, <1>3, <1>4, <1>5, GatewaySteps

\* Which steps touch an order's status.
LEMMA OrderSteps ==
  ASSUME [Next]_vars
  PROVE  \/ UNCHANGED orders
         \/ \E o \in Orders : ProcessCheckout(o)
         \/ \E s \in Slots : ApplyCommit(s)
         \/ \E c \in Calls : CancelCommit(c) \/ StatusCommit(c) \/ RefundCommit(c)
BY DEF Next, Gateway, Webhook, Consumer, Caller, vars, database, Charge, Decline,
       RecordPayment, PublishStatus, WebhookFails, Deliver, ApplyRead, ApplyFails, SendMail,
       MailFails, Republish, DeadLetter, Ack, RequestIntent, CreateIntent, CancelOrder,
       UpdateOrderStatus, ProcessRefund, GatewayRefund, RefundRecheck, CallFails, Crash

\* An order that was placed stays placed, and only checkout makes one PENDING.
OrdersRemember ==
  \A o \in Orders :
    /\ orders[o] # "NONE" => orders'[o] # "NONE"
    /\ orders'[o] = "PENDING" /\ "PENDING" \notin StatusTargets =>
         orders[o] \in {"NONE", "PENDING"}

\* Every step keeps placed orders placed.
LEMMA OrderStep ==
  ASSUME IInv, [Next]_vars
  PROVE  OrdersRemember
<1> USE DEF IInv, OrdersRemember, TypeOK
<1>1. ASSUME NEW o \in Orders, ProcessCheckout(o) PROVE OrdersRemember
  BY <1>1 DEF ProcessCheckout
<1>2. ASSUME NEW s \in Slots, ApplyCommit(s) PROVE OrdersRemember
  BY <1>2 DEF ApplyCommit, Outcome
<1>3. ASSUME NEW c \in Calls, CancelCommit(c) \/ RefundCommit(c) PROVE OrdersRemember
  BY <1>3 DEF CancelCommit, RefundCommit
<1>4. ASSUME NEW c \in Calls, StatusCommit(c) PROVE OrdersRemember
  <2>1. orders' = [orders EXCEPT ![calls[c].order] = calls[c].status]
    BY <1>4 DEF StatusCommit
  <2>2. calls[c].status \in StatusTargets /\ calls[c].status # "NONE"
    BY <1>4, OrdersAssumption DEF StatusCommit, CallsFounded, OrderStatus
  <2>3. QED
    BY <2>1, <2>2
<1>5. CASE UNCHANGED orders
  BY <1>5
<1>6. QED
  BY <1>1, <1>2, <1>3, <1>4, <1>5, OrderSteps

\* Which steps touch the calls.
LEMMA CallSteps ==
  ASSUME [Next]_vars
  PROVE  \/ UNCHANGED calls
         \/ \E c \in Calls, o \in Orders :
              RequestIntent(c, o) \/ CancelOrder(c, o) \/ ProcessRefund(c, o)
         \/ \E c \in Calls, o \in Orders, t \in StatusTargets : UpdateOrderStatus(c, o, t)
         \/ \E c \in Calls : GatewayRefund(c) \/ RefundRecheck(c)
         \/ \E c \in Calls : calls' = [calls EXCEPT ![c] = DoneCall]
         \/ Crash
BY DEF Next, Gateway, Webhook, Consumer, Caller, vars, database, gateway, broker,
       ProcessCheckout, Charge, Decline, RecordPayment, PublishStatus, WebhookFails, Deliver,
       ApplyRead, ApplyCommit, ApplyFails, SendMail, MailFails, Republish, DeadLetter, Ack,
       CreateIntent, CancelCommit, StatusCommit, RefundCommit, CallFails

\* What a call must be, as a condition on the call and the state.
CallFounded(c) ==
  /\ calls[c].pc \in {"cancelCommit", "refundRecheck", "refundCommit"}
       /\ calls[c].txn # NoIntent => intents[calls[c].txn].state = "refunded"
  /\ calls[c].pc \in {"cancelGateway", "refundGateway"} =>
       calls[c].txn \in Intents /\ Charged(calls[c].txn)
  /\ calls[c].pc = "statusCommit" => calls[c].status \in StatusTargets
  /\ calls[c].pc = "createIntent" => orders[calls[c].order] # "NONE"

\* Every step keeps CallsFounded: a call moves past the gateway only with the refund made.
LEMMA CallsFoundedStep ==
  ASSUME IInv, [Next]_vars
  PROVE  CallsFounded'
<1> SUFFICES ASSUME NEW d \in Calls PROVE CallFounded(d)'
  BY DEF CallsFounded, CallFounded, RefundBeforeRecord
<1>1. CallFounded(d) /\ GatewayRemembers /\ OrdersRemember
  BY GatewayStep, OrderStep DEF IInv, CallsFounded, CallFounded, RefundBeforeRecord
<1>2. calls[d].pc \in CallPcs => calls[d] \in InFlight
  BY BusyCall DEF IInv
<1>3. ASSUME calls'[d] = calls[d] PROVE CallFounded(d)'
  BY <1>1, <1>2, <1>3 DEF CallFounded, GatewayRemembers, OrdersRemember, CallPcs, InFlight
<1>4. ASSUME calls'[d] \in {IdleCall, DoneCall} PROVE CallFounded(d)'
  BY <1>4 DEF CallFounded, IdleCall, DoneCall, Outside
<1>5. ASSUME NEW o \in Orders,
             RequestIntent(d, o) \/ CancelOrder(d, o) \/ ProcessRefund(d, o)
                \/ \E t \in StatusTargets : UpdateOrderStatus(d, o, t)
      PROVE CallFounded(d)'
  <2>1. ChargedTxn(o) # NoIntent => ChargedTxn(o) \in Intents /\ Charged(ChargedTxn(o))
    BY DEF ChargedTxn, IInv, PaymentsFounded
  <2>2. QED
    BY <1>5, <2>1 DEF RequestIntent, CancelOrder, ProcessRefund, UpdateOrderStatus,
       StartRefunding, CallFounded, IInv, TypeOK, Charged, gateway, database
<1>6. ASSUME GatewayRefund(d) PROVE CallFounded(d)'
  <2>1. calls[d].txn \in Intents /\ Charged(calls[d].txn)
    BY <1>1, <1>6 DEF GatewayRefund, CallFounded
  <2>2. intents'[calls[d].txn].state = "refunded"
    BY <1>6, <2>1 DEF GatewayRefund, Charged, IInv, TypeOK, IntentState
  <2>3. QED
    BY <1>2, <1>4, <1>6, <2>2 DEF GatewayRefund, CallFounded, IInv, TypeOK, CallPcs, InFlight
<1>7. ASSUME RefundRecheck(d) PROVE CallFounded(d)'
  BY <1>1, <1>2, <1>4, <1>7 DEF RefundRecheck, CallFounded, IInv, TypeOK, CallPcs, InFlight, gateway
<1>8. ASSUME Crash PROVE CallFounded(d)'
  BY <1>4, <1>8 DEF Crash
<1>9. ASSUME NEW c \in Calls, c # d,
             \/ \E o \in Orders : RequestIntent(c, o) \/ CancelOrder(c, o) \/ ProcessRefund(c, o)
             \/ \E o \in Orders, t \in StatusTargets : UpdateOrderStatus(c, o, t)
             \/ GatewayRefund(c) \/ RefundRecheck(c)
             \/ calls' = [calls EXCEPT ![c] = DoneCall]
      PROVE  CallFounded(d)'
  <2>1. calls'[d] = calls[d]
    BY <1>9 DEF RequestIntent, CancelOrder, ProcessRefund, UpdateOrderStatus, StartRefunding,
                GatewayRefund, RefundRecheck, IInv, TypeOK
  <2>2. QED
    BY <1>3, <2>1
<1>10. ASSUME calls' = [calls EXCEPT ![d] = DoneCall] PROVE CallFounded(d)'
  BY <1>4, <1>10 DEF IInv, TypeOK
<1>11. QED
  BY <1>3, <1>5, <1>6, <1>7, <1>8, <1>9, <1>10, CallSteps

\* Every step keeps PaymentsFounded: only the news of a charge makes a row COMPLETED.
LEMMA PaymentsFoundedStep ==
  ASSUME IInv, [Next]_vars
  PROVE  PaymentsFounded'
<1> USE DEF IInv, TypeOK, PaymentRow, PaymentsFounded
<1>1. GatewayRemembers
  BY GatewayStep
<1>2. ASSUME NEW e \in events, RecordPayment(e) PROVE PaymentsFounded'
  BY <1>1, <1>2 DEF RecordPayment, EventsFounded, Events, GatewayRemembers
<1>3. ASSUME NEW c \in Calls, CancelCommit(c) \/ RefundCommit(c) PROVE PaymentsFounded'
  <2>1. calls[c].order \in Orders
    BY <1>3, BusyCall DEF CancelCommit, RefundCommit, CallPcs, InFlight
  <2>2. QED
    BY <1>1, <1>3, <2>1 DEF CancelCommit, RefundCommit, GatewayRemembers
<1>4. CASE UNCHANGED payments
  BY <1>1, <1>4 DEF GatewayRemembers
<1>5. \/ UNCHANGED payments
      \/ \E e \in events : RecordPayment(e)
      \/ \E c \in Calls : CancelCommit(c) \/ RefundCommit(c)
  BY DEF Next, Gateway, Webhook, Consumer, Caller, vars, database, ProcessCheckout, Charge,
         Decline, PublishStatus, WebhookFails, Deliver, ApplyRead, ApplyCommit, ApplyFails,
         SendMail, MailFails, Republish, DeadLetter, Ack, RequestIntent, CreateIntent,
         CancelOrder, UpdateOrderStatus, ProcessRefund, GatewayRefund, StatusCommit,
         RefundRecheck, CallFails, Crash
<1>6. QED
  BY <1>2, <1>3, <1>4, <1>5

\* Every step keeps IntentsFounded: an intent is created for an order checked before.
LEMMA IntentsFoundedStep ==
  ASSUME IInv, [Next]_vars
  PROVE  IntentsFounded'
<1>1. GatewayRemembers /\ OrdersRemember
  BY GatewayStep, OrderStep
<1>2. ASSUME NEW c \in Calls, NEW i \in Intents, CreateIntent(c, i) PROVE IntentsFounded'
  <2>1. calls[c].order \in Orders /\ orders[calls[c].order] # "NONE"
    BY <1>2, BusyCall DEF CreateIntent, CallPcs, InFlight, IInv, CallsFounded
  <2>2. QED
    BY <1>2, <2>1 DEF CreateIntent, IntentsFounded, IInv, TypeOK, IntentState, database
<1>3. ASSUME \A i \in Intents : intents'[i].state # "none" => intents[i].state # "none"
      PROVE  IntentsFounded'
  BY <1>1, <1>3 DEF IntentsFounded, GatewayRemembers, OrdersRemember, IInv, EventsFounded
<1>4. ASSUME ~\E c \in Calls, i \in Intents : CreateIntent(c, i)
      PROVE  \A i \in Intents : intents'[i].state # "none" => intents[i].state # "none"
  <2>1. ASSUME NEW i \in Intents, Charge(i) \/ Decline(i), NEW j \in Intents,
               intents'[j].state # "none"
        PROVE  intents[j].state # "none"
    BY <2>1 DEF Charge, Decline, IInv, TypeOK, IntentState
  <2>2. ASSUME NEW c \in Calls, GatewayRefund(c), NEW j \in Intents, intents'[j].state # "none"
        PROVE  intents[j].state # "none"
    BY <2>2 DEF GatewayRefund, IInv, TypeOK, IntentState
  <2>3. QED
    BY <1>4, <2>1, <2>2, GatewaySteps DEF PublishStatus, gateway
<1>5. QED
  BY <1>2, <1>3, <1>4

\* A charged order stays charged.
LEMMA ChargedForever ==
  ASSUME IInv, [Next]_vars, NEW o, OrderCharged(o)
  PROVE  OrderCharged(o)'
BY GatewayStep DEF OrderCharged, GatewayRemembers, Charged

\* Which steps touch messages.
LEMMA MessageSteps ==
  ASSUME [Next]_vars
  PROVE  \/ UNCHANGED <<queue, slots, dlq>>
         \/ \E e \in events : PublishStatus(e)
         \/ \E s \in Slots, m \in Messages : Deliver(s, m)
         \/ \E s \in Slots : \/ ApplyRead(s) \/ ApplyCommit(s) \/ ApplyFails(s) \/ SendMail(s)
                             \/ MailFails(s) \/ Republish(s) \/ DeadLetter(s) \/ Ack(s)
         \/ Crash
BY DEF Next, Gateway, Webhook, Consumer, Caller, vars, broker, ProcessCheckout, Charge, Decline,
       RecordPayment, WebhookFails, RequestIntent, CreateIntent, CancelOrder, UpdateOrderStatus,
       ProcessRefund, GatewayRefund, CancelCommit, StatusCommit, RefundRecheck, RefundCommit,
       CallFails

\* A set of deliveries is counted as none only if it is empty.
LEMMA HoldersCounted ==
  ASSUME NEW m
  PROVE  /\ Cardinality(Holders(m)) \in Nat
         /\ Cardinality(Holders(m)) = 0 <=> Holders(m) = {}
BY OrdersAssumption, FS_Subset, FS_CardinalityType, FS_EmptySet DEF Holders

\* Every step keeps MessagesFounded: retries and requeues copy, they never invent.
LEMMA MessagesFoundedStep ==
  ASSUME IInv, [Next]_vars
  PROVE  MessagesFounded'
<1> SUFFICES ASSUME NEW m \in Messages, m.kind = "succeeded", Somewhere(m)'
             PROVE  OrderCharged(m.order)'
  BY DEF MessagesFounded
<1>1. ASSUME Somewhere(m) PROVE OrderCharged(m.order)'
  BY <1>1, ChargedForever DEF IInv, MessagesFounded
<1>2. ASSUME NEW e \in events, PublishStatus(e) PROVE OrderCharged(m.order)'
  <2>1. CASE m = MessageOf(e)
    <3>1. OrderCharged(m.order)
      BY <2>1 DEF MessageOf, IInv, EventsFounded, OrderCharged, TypeOK, Events
    <3>2. QED
      BY <3>1, ChargedForever
  <2>2. CASE m # MessageOf(e)
    <3>1. Somewhere(m)
      BY <1>2, <2>2 DEF PublishStatus, Somewhere, IInv, TypeOK
    <3>2. QED
      BY <1>1, <3>1
  <2>3. QED
    BY <2>1, <2>2
<1>3. ASSUME NEW s \in Slots, NEW n \in Messages, Deliver(s, n) PROVE OrderCharged(m.order)'
  <2>1. Somewhere(m)
    BY <1>3 DEF Deliver, Somewhere, IInv, TypeOK
  <2>2. QED
    BY <1>1, <2>1
<1>4. ASSUME NEW s \in Slots, ApplyRead(s) \/ ApplyCommit(s) \/ ApplyFails(s) \/ SendMail(s)
                                \/ MailFails(s) \/ DeadLetter(s) \/ Ack(s)
      PROVE  OrderCharged(m.order)'
  <2>1. slots[s].pc \in SlotPcs
    BY <1>4 DEF ApplyRead, ApplyCommit, ApplyFails, SendMail, MailFails, DeadLetter, Ack, SlotPcs
  <2>2. \A t \in Slots : slots'[t].msg \in {slots[t].msg, NoMessage}
    BY <1>4, <2>1, BusySlot
       DEF ApplyRead, ApplyCommit, ApplyFails, SendMail, MailFails, DeadLetter, Ack, IInv,
           TypeOK, IdleSlot, Handling
  <2>3. queue' = queue /\ dlq' \subseteq dlq \cup {slots[s].msg}
    BY <1>4 DEF ApplyRead, ApplyCommit, ApplyFails, SendMail, MailFails, DeadLetter, Ack, broker
  <2>4. Somewhere(m)
    BY <2>2, <2>3, OrdersAssumption DEF Somewhere
  <2>5. QED
    BY <1>1, <2>4
<1>5. ASSUME NEW s \in Slots, Republish(s) PROVE OrderCharged(m.order)'
  <2> DEFINE n == [slots[s].msg EXCEPT !.attempt = @ + 1]
  <2>1. slots[s].msg \in Messages
    BY <1>5, BusySlot DEF Republish, SlotPcs, Handling, IInv
  <2>2. CASE m = n
    <3>1. m.order = slots[s].msg.order /\ slots[s].msg.kind = "succeeded"
      BY <2>1, <2>2 DEF Messages
    <3>2. OrderCharged(m.order)
      BY <2>1, <3>1 DEF IInv, MessagesFounded, Somewhere
    <3>3. QED
      BY <3>2, ChargedForever
  <2>3. CASE m # n
    <3>1. Somewhere(m)
      BY <1>5, <2>3 DEF Republish, Somewhere, IInv, TypeOK
    <3>2. QED
      BY <1>1, <3>1
  <2>4. QED
    BY <2>2, <2>3
<1>6. ASSUME Crash PROVE OrderCharged(m.order)'
  <2>1. queue[m] > 0 \/ m \in dlq \/ Holders(m) # {}
    BY <1>6, HoldersCounted, OrdersAssumption
       DEF Crash, Somewhere, IInv, TypeOK, IdleSlot
  <2>2. Somewhere(m)
    BY <2>1 DEF Somewhere, Holders
  <2>3. QED
    BY <1>1, <2>2
<1>7. CASE UNCHANGED <<queue, slots, dlq>>
  BY <1>1, <1>7 DEF Somewhere
<1>8. QED
  BY <1>2, <1>3, <1>4, <1>5, <1>6, <1>7, MessageSteps

\* Whatever carries the news of o's charge is, after a step that leaves o PENDING,
\* still there or has handed it on.
LEMMA CarrierStep ==
  ASSUME IInv, [Next]_vars, NEW o \in Orders, Carrier(o), orders[o] = "PENDING",
         orders'[o] = "PENDING"
  PROVE  Carrier(o)'
<1> DEFINE Live(m) == \/ queue[m] > 0 \/ m \in dlq
                      \/ \E s \in Slots : slots[s].msg = m /\ slots[s].pc \in {"read", "write", "error"}
           News(m) == m.order = o /\ m.kind = "succeeded"
<1>1. ASSUME NEW m \in Messages, News(m), Live(m)' PROVE Carrier(o)'
  BY <1>1 DEF Carrier
<1>2. CASE \E i \in Intents : /\ intents[i].order = o
                              /\ [intent |-> i, kind |-> "succeeded"] \in events
  <2>1. PICK i \in Intents : /\ intents[i].order = o
                             /\ [intent |-> i, kind |-> "succeeded"] \in events
    BY <1>2
  <2> DEFINE e == [intent |-> i, kind |-> "succeeded"]
  <2>2. intents'[i].order = o
    BY <2>1, GatewayStep DEF GatewayRemembers, IInv, EventsFounded
  <2>3. CASE PublishStatus(e)
    <3>1. PICK m \in Messages : m = MessageOf(e)
      BY <2>1, MessageOfType DEF IInv
    <3>2. News(m)
      BY <2>1, <3>1 DEF MessageOf
    <3>3. queue[m] \in Nat /\ queue' = [queue EXCEPT ![m] = @ + 1]
      BY <2>3, <3>1 DEF PublishStatus, IInv, TypeOK
    <3>4. queue'[m] > 0
      BY <3>3 DEF IInv, TypeOK
    <3>5. QED
      BY <1>1, <3>2, <3>4
  <2>4. CASE ~PublishStatus(e)
    <3>1. e \in events'
      BY <2>1, <2>4, GatewaySteps
         DEF Charge, Decline, PublishStatus, GatewayRefund, CreateIntent, gateway
    <3>2. QED
      BY <2>2, <3>1 DEF Carrier
  <2>5. QED
    BY <2>3, <2>4
<1>3. CASE \E m \in Messages : News(m) /\ Live(m)
  <2>1. PICK m \in Messages : News(m) /\ Live(m)
    BY <1>3
  <2>2. ASSUME NEW e \in events, PublishStatus(e) PROVE Live(m)'
    BY <2>1, <2>2, MessageOfType DEF PublishStatus, IInv, TypeOK
  <2>3. ASSUME NEW s \in Slots, NEW n \in Messages, Deliver(s, n) PROVE Live(m)'
    <3>1. CASE m = n
      BY <2>3, <3>1 DEF Deliver, IInv, TypeOK
    <3>2. CASE m # n
      BY <2>1, <2>3, <3>2 DEF Deliver, IInv, TypeOK, IdleSlot
    <3>3. QED
      BY <3>1, <3>2
  <2>4. ASSUME NEW s \in Slots, ApplyRead(s) PROVE Live(m)'
    BY <2>1, <2>4 DEF ApplyRead, IInv, TypeOK, broker
  <2>5. ASSUME NEW s \in Slots, ApplyCommit(s) PROVE Live(m)'
    <3>1. slots[s].msg # m
      BY <2>1, <2>5 DEF ApplyCommit, Outcome, IInv, TypeOK
    <3>2. QED
      BY <2>1, <2>5, <3>1 DEF ApplyCommit, IInv, TypeOK, broker
  <2>6. ASSUME NEW s \in Slots, ApplyFails(s) \/ SendMail(s) \/ MailFails(s) \/ Ack(s)
        PROVE  Live(m)'
    <3>1. queue' = queue /\ dlq' = dlq
      BY <2>6 DEF ApplyFails, SendMail, MailFails, Ack, broker
    <3>2. ASSUME NEW t \in Slots, slots[t].msg = m, slots[t].pc \in {"read", "write", "error"}
          PROVE  slots'[t].msg = m /\ slots'[t].pc \in {"read", "write", "error"}
      BY <2>6, <3>2, BusySlot
         DEF ApplyFails, SendMail, MailFails, Ack, SlotPcs, Handling, IInv, TypeOK
    <3>3. QED
      BY <2>1, <3>1, <3>2
  <2>7. ASSUME NEW s \in Slots, DeadLetter(s) PROVE Live(m)'
    BY <2>1, <2>7 DEF DeadLetter, IInv, TypeOK
  <2>8. ASSUME NEW s \in Slots, Republish(s) PROVE Carrier(o)'
    <3>1. slots[s].msg \in Messages
      BY <2>8, BusySlot DEF Republish, SlotPcs, Handling, IInv
    <3>2. PICK n \in Messages : n = [slots[s].msg EXCEPT !.attempt = @ + 1]
      BY <2>8, <3>1, OrdersAssumption DEF Republish, Messages
    <3>3. CASE slots[s].msg = m
      <4>1. News(n)
        BY <2>1, <3>1, <3>2, <3>3 DEF Messages
      <4>2. queue[n] \in Nat /\ queue'[n] = queue[n] + 1
        BY <2>8, <3>2 DEF Republish, IInv, TypeOK
      <4>3. QED
        BY <1>1, <4>1, <4>2
    <3>4. CASE slots[s].msg # m
      <4>1. Live(m)'
        BY <2>1, <2>8, <3>2, <3>4 DEF Republish, IInv, TypeOK
      <4>2. QED
        BY <1>1, <2>1, <4>1
    <3>5. QED
      BY <3>3, <3>4
  <2>9. ASSUME Crash PROVE Live(m)'
    <3>1. queue[m] > 0 \/ m \in dlq \/ Holders(m) # {}
      BY <2>1 DEF Holders
    <3>2. QED
      BY <2>9, <3>1, HoldersCounted DEF Crash, IInv, TypeOK
  <2>10. CASE UNCHANGED <<queue, slots, dlq>>
    <3>1. queue' = queue /\ slots' = slots /\ dlq' = dlq
      BY <2>10
    <3>2. QED
      BY <1>1, <2>1, <3>1
  <2>11. Live(m)' \/ Carrier(o)'
    BY <2>2, <2>3, <2>4, <2>5, <2>6, <2>7, <2>8, <2>9, <2>10, MessageSteps
  <2>12. QED
    BY <1>1, <2>1, <2>11
<1>4. QED
  BY <1>2, <1>3 DEF Carrier

\* An order becomes charged by a charge, whose event is then outstanding.
LEMMA NewlyCharged ==
  ASSUME IInv, [Next]_vars, NEW o \in Orders, OrderCharged(o)', ~OrderCharged(o)
  PROVE  Carrier(o)'
<1>1. PICK i \in Intents : intents'[i].order = o /\ Charged(i)'
  BY DEF OrderCharged
<1>2. intents[i].state # "none" /\ intents[i].order = o /\ ~Charged(i)
  BY <1>1, GatewayStep DEF GatewayRemembers, OrderCharged
<1>3. Charge(i)
  <2>1. intents'[i].state # intents[i].state
    BY <1>1, <1>2 DEF Charged
  <2>2. ASSUME NEW c \in Calls, GatewayRefund(c) PROVE FALSE
    BY <1>1, <1>2, <2>2 DEF GatewayRefund, Charged, IInv, TypeOK, IntentState
  <2>3. ASSUME NEW c \in Calls, NEW j \in Intents, CreateIntent(c, j) PROVE FALSE
    BY <1>2, <2>1, <2>3 DEF CreateIntent, IInv, TypeOK
  <2>4. ASSUME NEW j \in Intents, Charge(j) \/ Decline(j) PROVE Charge(i)
    <3>1. j = i
      BY <2>1, <2>4 DEF Charge, Decline, IInv, TypeOK
    <3>2. ~Decline(i)
      BY <1>1 DEF Decline, Charged, IInv, TypeOK, IntentState
    <3>3. QED
      BY <2>4, <3>1, <3>2
  <2>5. ~\E e \in events : PublishStatus(e)
    BY <2>1 DEF PublishStatus
  <2>6. intents' # intents
    BY <2>1
  <2>7. QED
    BY <2>2, <2>3, <2>4, <2>5, <2>6, GatewaySteps DEF gateway
<1>4. QED
  BY <1>1, <1>3 DEF Charge, Carrier

\* Every step keeps ChargedPendingHasCarrier.
LEMMA CarriedStep ==
  ASSUME IInv, [Next]_vars
  PROVE  ChargedPendingHasCarrier'
<1> SUFFICES ASSUME "PENDING" \notin StatusTargets, NEW o \in Orders,
                    orders'[o] = "PENDING", OrderCharged(o)'
             PROVE  Carrier(o)'
  BY DEF ChargedPendingHasCarrier
<1>1. CASE ~OrderCharged(o)
  BY <1>1, NewlyCharged
<1>2. CASE OrderCharged(o)
  <2>1. orders[o] = "PENDING"
    BY <1>2, OrderStep
       DEF OrdersRemember, OrderCharged, Charged, IInv, IntentsFounded
  <2>2. Carrier(o)
    BY <1>2, <2>1 DEF IInv, ChargedPendingHasCarrier
  <2>3. QED
    BY <2>1, <2>2, CarrierStep
<1>3. QED
  BY <1>1, <1>2

-----------------------------------------------------------------------------
\* IInv holds initially and is inductive.
LEMMA Invariance == Spec => []IInv
<1>1. Init => IInv
  BY OrdersAssumption
     DEF Init, IInv, TypeOK, EventsFounded, CallsFounded, RefundBeforeRecord, PaymentsFounded,
         IntentsFounded, MessagesFounded, Somewhere, ChargedPendingHasCarrier, OrderCharged,
         Charged, IdleCall, IdleSlot, Outside, PaymentRow, IntentState, CallPcs
<1>2. IInv /\ [Next]_vars => IInv'
  BY TypeStep, EventsFoundedStep, CallsFoundedStep, PaymentsFoundedStep, IntentsFoundedStep,
     MessagesFoundedStep, CarriedStep DEF IInv
<1>3. QED
  BY <1>1, <1>2, PTL DEF Spec

\* The variables hold rows, messages and handlers of the declared shapes; in
\* particular stock, the number of ready copies and the retry count stay in range.
THEOREM TypeCorrect == Spec => []TypeOK
BY Invariance, PTL DEF IInv

\* The news of a charge is never lost on its way to a PENDING order, whatever
\* retries, duplicates, webhook failures and crashes occur on the way.
THEOREM NewsOfChargeKept == Spec => []ChargedPendingHasCarrier
BY Invariance, PTL DEF IInv

\* The gateway has returned the money before any call records the refund.
THEOREM RefundsAreReal == Spec => []RefundBeforeRecord
BY Invariance, PTL DEF IInv, CallsFounded

\* The consumer marks an order PAID only when the gateway has charged it.
THEOREM PaidMeansCharged == Spec => PaidOnlyIfCharged
<1>1. ASSUME IInv, [Next]_vars, NEW o \in Orders, orders[o] # "PAID", orders'[o] = "PAID",
             calls' = calls
      PROVE  OrderCharged(o)
  <2>1. ~\E c \in Calls : CancelCommit(c) \/ StatusCommit(c) \/ RefundCommit(c)
    <3> SUFFICES ASSUME NEW c \in Calls, CancelCommit(c) \/ StatusCommit(c) \/ RefundCommit(c)
                 PROVE  FALSE
      OBVIOUS
    <3>1. calls[c].pc \in {"cancelCommit", "statusCommit", "refundCommit"}
      BY DEF CancelCommit, StatusCommit, RefundCommit
    <3>2. calls' = [calls EXCEPT ![c] = DoneCall]
      BY DEF CancelCommit, StatusCommit, RefundCommit
    <3>3. calls'[c].pc = "done"
      BY <1>1, <3>2 DEF IInv, TypeOK, DoneCall, Outside
    <3>4. QED
      BY <1>1, <3>1, <3>3
  <2>2. ~\E p \in Orders : ProcessCheckout(p)
    BY <1>1 DEF ProcessCheckout, IInv, TypeOK
  <2>3. PICK s \in Slots : ApplyCommit(s)
    BY <1>1, <2>1, <2>2, OrderSteps
  <2>4. slots[s].msg \in Messages
    BY <1>1, <2>3, BusySlot DEF ApplyCommit, SlotPcs, Handling, IInv
  <2>5. slots[s].msg.order = o /\ slots[s].msg.kind = "succeeded"
    BY <1>1, <2>3, <2>4 DEF ApplyCommit, Outcome, Messages, Kinds, IInv, TypeOK
  <2>6. QED
    BY <1>1, <2>4, <2>5 DEF IInv, MessagesFounded, Somewhere
<1>2. IInv /\ [Next]_vars =>
        [\A o \in Orders : orders[o] # "PAID" /\ orders'[o] = "PAID" /\ calls' = calls
           => OrderCharged(o)]_vars
  BY <1>1
<1>3. QED
  BY <1>2, Invariance, PTL DEF Spec, PaidOnlyIfCharged

-----------------------------------------------------------------------------
\* No write still to come can move a settled order off CANCELLED.
LEMMA SettledOrder ==
  ASSUME IInv, [Next]_vars, NEW o \in Orders, Settled(o)
  PROVE  orders'[o] = "CANCELLED"
<1>1. ASSUME NEW p \in Orders, ProcessCheckout(p) PROVE orders'[o] = "CANCELLED"
  BY <1>1 DEF ProcessCheckout, Settled, IInv, TypeOK
<1>2. ASSUME NEW s \in Slots, ApplyCommit(s) PROVE orders'[o] = "CANCELLED"
  BY <1>2 DEF ApplyCommit, Settled, IInv, TypeOK
<1>3. ASSUME NEW c \in Calls, CancelCommit(c) \/ RefundCommit(c) PROVE orders'[o] = "CANCELLED"
  BY <1>3 DEF CancelCommit, RefundCommit, Settled, IInv, TypeOK
<1>4. ASSUME NEW c \in Calls, StatusCommit(c) PROVE orders'[o] = "CANCELLED"
  BY <1>4 DEF StatusCommit, Settled, StaleWriter, IInv, TypeOK
<1>5. QED
  BY <1>1, <1>2, <1>3, <1>4, OrderSteps DEF Settled

\* No call that reads a settled order goes on to write anything but CANCELLED.
LEMMA SettledCalls ==
  ASSUME IInv, [Next]_vars, NEW o \in Orders, Settled(o), NEW d \in Calls
  PROVE  ~StaleWriter(d, o)'
<1>1. ASSUME calls'[d] = calls[d] PROVE ~StaleWriter(d, o)'
  BY <1>1 DEF Settled, StaleWriter
<1>2. ASSUME calls'[d] \in {IdleCall, DoneCall} PROVE ~StaleWriter(d, o)'
  BY <1>2 DEF StaleWriter, IdleCall, DoneCall, Outside
<1>3. ASSUME NEW p \in Orders, RequestIntent(d, p) \/ CancelOrder(d, p) \/ ProcessRefund(d, p)
      PROVE  ~StaleWriter(d, o)'
  BY <1>3 DEF RequestIntent, CancelOrder, ProcessRefund, StartRefunding, Cancellable, Settled,
              StaleWriter, IInv, TypeOK
<1>4. ASSUME NEW p \in Orders, NEW t \in StatusTargets, UpdateOrderStatus(d, p, t)
      PROVE  ~StaleWriter(d, o)'
  BY <1>4 DEF UpdateOrderStatus, StartRefunding, Settled, StaleWriter, IInv, TypeOK
<1>5. ASSUME GatewayRefund(d) PROVE ~StaleWriter(d, o)'
  <2>1. calls[d] \in InFlight
    BY <1>5, BusyCall DEF GatewayRefund, CallPcs, IInv
  <2>2. CASE calls' = [calls EXCEPT ![d] = DoneCall]
    BY <1>2, <2>2 DEF IInv, TypeOK
  <2>3. CASE calls' # [calls EXCEPT ![d] = DoneCall]
    BY <1>5, <2>1, <2>3 DEF GatewayRefund, InFlight, Settled, StaleWriter, IInv, TypeOK
  <2>4. QED
    BY <2>2, <2>3
<1>6. ASSUME RefundRecheck(d) PROVE ~StaleWriter(d, o)'
  <2>1. calls[d] \in InFlight
    BY <1>6, BusyCall DEF RefundRecheck, CallPcs, IInv
  <2>2. QED
    BY <1>2, <1>6, <2>1 DEF RefundRecheck, InFlight, Settled, StaleWriter, IInv, TypeOK
<1>7. ASSUME Crash PROVE ~StaleWriter(d, o)'
  BY <1>2, <1>7 DEF Crash
<1>8. ASSUME NEW c \in Calls, c # d,
             \/ \E p \in Orders : RequestIntent(c, p) \/ CancelOrder(c, p) \/ ProcessRefund(c, p)
             \/ \E p \in Orders, t \in StatusTargets : UpdateOrderStatus(c, p, t)
             \/ GatewayRefund(c) \/ RefundRecheck(c)
      PROVE  ~StaleWriter(d, o)'
  <2>1. calls'[d] = calls[d]
    BY <1>8 DEF RequestIntent, CancelOrder, ProcessRefund, UpdateOrderStatus, StartRefunding,
                GatewayRefund, RefundRecheck, IInv, TypeOK
  <2>2. QED
    BY <1>1, <2>1
<1>9. ASSUME NEW c \in Calls, calls' = [calls EXCEPT ![c] = DoneCall]
      PROVE  ~StaleWriter(d, o)'
  BY <1>1, <1>2, <1>9 DEF IInv, TypeOK
<1>10. QED
  BY <1>1, <1>3, <1>4, <1>5, <1>6, <1>7, <1>8, <1>9, CallSteps

\* No delivery that reads a settled order gets as far as writing it.
LEMMA SettledSlots ==
  ASSUME IInv, [Next]_vars, NEW o \in Orders, Settled(o), NEW t \in Slots
  PROVE  ~(slots[t].pc = "write" /\ slots[t].msg.order = o)'
<1>1. ~(slots[t].pc = "write" /\ slots[t].msg.order = o) /\ orders[o] = "CANCELLED"
  BY DEF Settled
<1>2. ASSUME NEW s \in Slots, NEW m \in Messages, Deliver(s, m)
      PROVE  ~(slots[t].pc = "write" /\ slots[t].msg.order = o)'
  BY <1>1, <1>2 DEF Deliver, IInv, TypeOK
<1>3. ASSUME NEW s \in Slots, ApplyRead(s)
      PROVE  ~(slots[t].pc = "write" /\ slots[t].msg.order = o)'
  <2>1. CASE s = t
    <3>1. slots[t] \in Handling
      BY <1>3, <2>1, BusySlot DEF ApplyRead, SlotPcs, IInv
    <3>2. QED
      BY <1>1, <1>3, <2>1, <3>1 DEF ApplyRead, AfterSkip, Handling, IInv, TypeOK
  <2>2. CASE s # t
    BY <1>1, <1>3, <2>2 DEF ApplyRead, IInv, TypeOK
  <2>3. QED
    BY <2>1, <2>2
<1>4. ASSUME NEW s \in Slots, ApplyCommit(s) \/ ApplyFails(s) \/ SendMail(s) \/ MailFails(s)
                                \/ Republish(s) \/ DeadLetter(s) \/ Ack(s)
      PROVE  ~(slots[t].pc = "write" /\ slots[t].msg.order = o)'
  <2>1. slots[s].pc \in SlotPcs
    BY <1>4 DEF ApplyCommit, ApplyFails, SendMail, MailFails, Republish, DeadLetter, Ack, SlotPcs
  <2>2. slots[s] \in Handling
    BY <2>1, BusySlot DEF IInv
  <2>3. slots'[t] = slots[t] \/ slots'[t].pc \in {"idle", "mail", "error", "ack"}
    BY <1>4, <2>2 DEF ApplyCommit, ApplyFails, SendMail, MailFails, Republish, DeadLetter, Ack,
                      Handling, IdleSlot, IInv, TypeOK
  <2>4. QED
    BY <1>1, <2>3
<1>5. ASSUME Crash PROVE ~(slots[t].pc = "write" /\ slots[t].msg.order = o)'
  BY <1>5 DEF Crash, IdleSlot
<1>6. ASSUME NEW e \in events, PublishStatus(e)
      PROVE  ~(slots[t].pc = "write" /\ slots[t].msg.order = o)'
  BY <1>1, <1>6 DEF PublishStatus
<1>7. CASE UNCHANGED <<queue, slots, dlq>>
  BY <1>1, <1>7
<1>8. QED
  BY <1>2, <1>3, <1>4, <1>5, <1>6, <1>7, MessageSteps

\* Once an order is cancelled and the handlers that checked it earlier are gone, no
\* sequence of calls, messages and crashes revives it or restocks it again.
THEOREM SettledStaysSettled == Spec => CancelledIsFinal
<1>1. IInv /\ [Next]_vars =>
        [\A o \in Orders : Settled(o) => Settled(o)']_vars
  <2> SUFFICES ASSUME IInv, [Next]_vars, NEW o \in Orders, Settled(o) PROVE Settled(o)'
    OBVIOUS
  <2>1. orders'[o] = "CANCELLED"
    BY SettledOrder
  <2>2. \A c \in Calls : ~StaleWriter(c, o)'
    BY SettledCalls
  <2>3. \A t \in Slots : ~(slots[t].pc = "write" /\ slots[t].msg.order = o)'
    BY SettledSlots
  <2>4. QED
    BY <2>1, <2>2, <2>3 DEF Settled
<1>2. QED
  BY <1>1, Invariance, PTL DEF Spec, CancelledIsFinal

-----------------------------------------------------------------------------
\* The units of a product in a set of orders, by the recursion that MapThenSumSet
\* stands for: the summands are taken in the order CHOOSE picks them.
Chosen(s) == CHOOSE x \in s : TRUE
Summand(p, sum, s) == IF s = {} THEN 0 ELSE Qty[Chosen(s)][p] + sum[s \ {Chosen(s)}]
Sums(p, S) == CHOOSE sum : sum = [s \in SUBSET S |-> Summand(p, sum, s)]
Units(p, S) == Sums(p, S)[S]
Placed == {o \in Orders : orders[o] # "NONE"}
Active == {o \in Orders : orders[o] \notin {"NONE", "CANCELLED"}}

LEMMA HeldIsUnits == \A p : Held(p) = Units(p, Active)
BY Zenon DEF Held, Units, Active, Sums, Summand, Chosen, MapThenSumSet, MapThenFoldSet

LEMMA ChosenIsThere == \A s : s # {} => Chosen(s) \in s
BY DEF Chosen

\* A set of naturals that has a member has a least one.
NatLess == {ss \in Nat \X Nat : ss[1] < ss[2]}
LEMMA HasLeast ==
  ASSUME NEW S \in SUBSET Nat, S # {}
  PROVE  \E x \in S : \A y \in S : x <= y
<1>1. IsWellFoundedOn(NatLess, Nat)
  BY NatLessThanWellFounded, Zenon DEF NatLess, OpToRel
<1>2. PICK x \in S : \A y \in S : <<y, x>> \notin NatLess
  BY <1>1, WFMin
<1>3. \A n, m \in Nat : m < n => <<m, n>> \in NatLess
  BY DEF NatLess
<1>4. \A y \in S : ~(y < x) /\ x \in Nat /\ y \in Nat
  BY <1>2, <1>3
<1>5. \A y \in S : x <= y
  BY <1>4
<1>6. QED
  BY <1>5

\* A set of naturals that has, with each of its members, the one before is empty.
LEMMA Descent ==
  ASSUME NEW S \in SUBSET Nat, \A n \in S : n # 0 /\ n - 1 \in S
  PROVE  S = {}
<1> SUFFICES ASSUME S # {} PROVE FALSE
  OBVIOUS
<1>1. PICK n \in S : \A m \in S : n <= m
  BY HasLeast
<1>2. n \in Nat /\ n - 1 \in S
  OBVIOUS
<1>3. QED
  BY <1>1, <1>2

\* The subsets of a set of orders are finite, and smaller without a member.
LEMMA OrdersAreCounted ==
  ASSUME NEW s \in SUBSET Orders
  PROVE  /\ Cardinality(s) \in Nat
         /\ Cardinality(s) = 0 => s = {}
         /\ \A x \in s : Cardinality(s \ {x}) = Cardinality(s) - 1
         /\ \A t \in SUBSET s : Cardinality(t) <= Cardinality(s)
<1>1. IsFiniteSet(s)
  BY OrdersAssumption, FS_Subset
<1>2. QED
  BY <1>1, FS_CardinalityType, FS_EmptySet, FS_RemoveElement, FS_Subset

\* The recursion has a solution.
LEMMA SumsExist ==
  ASSUME NEW S \in SUBSET Orders, NEW p \in Products
  PROVE  \E sum \in [SUBSET S -> Nat] : \A s \in SUBSET S : sum[s] = Summand(p, sum, s)
<1> DEFINE Upto(n) == \E sum \in [SUBSET S -> Nat] : \A s \in SUBSET S :
                        Cardinality(s) <= n => sum[s] = Summand(p, sum, s)
           Bad == {n \in Nat : ~Upto(n)}
<1>1. Bad = {}
  <2> SUFFICES ASSUME NEW n \in Bad, n = 0 \/ n - 1 \notin Bad PROVE FALSE
    <3>1. Bad \in SUBSET Nat
      OBVIOUS
    <3> HIDE DEF Bad
    <3>2. QED
      BY <3>1, Descent
  <2>1. n \in Nat /\ (n = 0 \/ n - 1 \notin Bad)
    OBVIOUS
  <2>2. CASE n = 0
    <3> DEFINE none == [s \in SUBSET S |-> 0]
    <3>1. \A s \in SUBSET S : Cardinality(s) <= 0 => none[s] = Summand(p, none, s)
      BY OrdersAreCounted DEF Summand
    <3>2. none \in [SUBSET S -> Nat]
      OBVIOUS
    <3>3. QED
      BY <2>1, <2>2, <3>1, <3>2
  <2>3. CASE n # 0
    <3>1. n - 1 \in Nat /\ n - 1 \notin Bad
      <4> HIDE DEF Bad
      <4>1. QED
        BY <2>1, <2>3
    <3>2. PICK sum \in [SUBSET S -> Nat] : \A s \in SUBSET S :
                 Cardinality(s) <= n - 1 => sum[s] = Summand(p, sum, s)
      BY <3>1
    <3> DEFINE more == [s \in SUBSET S |-> IF Cardinality(s) = n THEN Summand(p, sum, s) ELSE sum[s]]
    <3>3. \A s \in SUBSET S : Summand(p, sum, s) \in Nat
      BY ChosenIsThere, OrdersAssumption DEF Summand
    <3>4. more \in [SUBSET S -> Nat]
      BY <3>3
    <3>5. ASSUME NEW s \in SUBSET S, Cardinality(s) <= n
          PROVE  more[s] = Summand(p, more, s)
      <4>1. Summand(p, more, s) = Summand(p, sum, s)
        <5>1. CASE s = {}
          BY <5>1 DEF Summand
        <5>2. CASE s # {}
          <6>1. Chosen(s) \in s /\ s \ {Chosen(s)} \in SUBSET S
            BY <5>2, ChosenIsThere
          <6>2. Cardinality(s \ {Chosen(s)}) = Cardinality(s) - 1 /\ Cardinality(s) \in Nat
            BY <6>1, OrdersAreCounted
          <6>3. Cardinality(s \ {Chosen(s)}) # n
            BY <3>1, <3>5, <6>2
          <6>4. more[s \ {Chosen(s)}] = sum[s \ {Chosen(s)}]
            BY <6>1, <6>3
          <6>5. QED
            BY <5>2, <6>4 DEF Summand
        <5>3. QED
          BY <5>1, <5>2
      <4>2. Cardinality(s) \in Nat
        BY OrdersAreCounted
      <4>3. CASE Cardinality(s) = n
        BY <4>1, <4>3
      <4>4. CASE Cardinality(s) # n
        <5>1. Cardinality(s) <= n - 1
          BY <3>1, <3>5, <4>2, <4>4
        <5>2. QED
          BY <3>2, <4>1, <4>4, <5>1
      <4>5. QED
        BY <4>3, <4>4
    <3> HIDE DEF more
    <3>6. Upto(n)
      BY <3>4, <3>5
    <3>7. QED
      BY <2>1, <3>6
  <2>4. QED
    BY <2>2, <2>3
<1>2. Upto(Cardinality(S))
  BY <1>1, OrdersAreCounted
<1>3. \A s \in SUBSET S : Cardinality(s) <= Cardinality(S)
  BY OrdersAreCounted
<1>4. QED
  BY <1>2, <1>3

\* So the sums solve it.
LEMMA SumsUnfold ==
  ASSUME NEW S \in SUBSET Orders, NEW p \in Products
  PROVE  /\ Sums(p, S) \in [SUBSET S -> Nat]
         /\ \A s \in SUBSET S : Sums(p, S)[s] = Summand(p, Sums(p, S), s)
<1>1. PICK sum \in [SUBSET S -> Nat] : \A s \in SUBSET S : sum[s] = Summand(p, sum, s)
  BY SumsExist
<1>2. sum = [s \in SUBSET S |-> Summand(p, sum, s)]
  BY <1>1
<1> DEFINE Solves(f) == f = [s \in SUBSET S |-> Summand(p, f, s)]
<1>3. Solves(sum) /\ Sums(p, S) = CHOOSE f : Solves(f)
  BY <1>2 DEF Sums
<1>4. Solves(Sums(p, S))
  <2> HIDE DEF Solves
  <2> QED BY <1>3
<1>5. \A s \in SUBSET S : Sums(p, S)[s] = Summand(p, Sums(p, S), s)
  BY <1>4
<1> DEFINE Bad == {n \in Nat : \E s \in SUBSET S : Cardinality(s) = n /\ Sums(p, S)[s] \notin Nat}
<1>6. Bad = {}
  <2> SUFFICES ASSUME NEW n \in Bad, n = 0 \/ n - 1 \notin Bad PROVE FALSE
    <3>1. Bad \in SUBSET Nat
      OBVIOUS
    <3> HIDE DEF Bad
    <3>2. QED
      BY <3>1, Descent
  <2>1. n \in Nat /\ (n = 0 \/ n - 1 \notin Bad)
    OBVIOUS
  <2>2. PICK s \in SUBSET S : Cardinality(s) = n /\ Sums(p, S)[s] \notin Nat
    OBVIOUS
  <2> DEFINE F == Sums(p, S)
  <2>3. F[s] = IF s = {} THEN 0 ELSE Qty[Chosen(s)][p] + F[s \ {Chosen(s)}]
    BY <1>5 DEF Summand
  <2>4. F[s] \notin Nat
    BY <2>2
  <2> HIDE DEF F
  <2>5. s # {}
    BY <2>3, <2>4
  <2>6. Chosen(s) \in s /\ s \ {Chosen(s)} \in SUBSET S
    BY <2>5, ChosenIsThere
  <2>7. Cardinality(s \ {Chosen(s)}) = n - 1 /\ n - 1 \in Nat
    BY <2>2, <2>6, OrdersAreCounted
  <2>8. F[s \ {Chosen(s)}] \in Nat
    <3>1. n - 1 \notin Bad
      <4> HIDE DEF Bad
      <4>1. QED
        BY <2>1, <2>7
    <3>2. QED
      BY <2>6, <2>7, <3>1 DEF F
  <2>9. Qty[Chosen(s)][p] \in Nat
    BY <2>6, OrdersAssumption
  <2>10. QED
    BY <2>5, <2>8, <2>9, <2>3, <2>4
<1>7. \A s \in SUBSET S : Sums(p, S)[s] \in Nat
  BY <1>6, OrdersAreCounted
<1>8. QED
  BY <1>4, <1>5, <1>7

\* The units of some orders are their sum within all orders.
LEMMA SumsAgree ==
  ASSUME NEW S \in SUBSET Orders, NEW p \in Products
  PROVE  Units(p, S) = Sums(p, Orders)[S]
<1> DEFINE Here == Sums(p, S)
           There == Sums(p, Orders)
           Bad == {n \in Nat : \E s \in SUBSET S : Cardinality(s) = n /\ Here[s] # There[s]}
<1>1. /\ \A s \in SUBSET S : Here[s] = Summand(p, Here, s)
      /\ \A s \in SUBSET S : There[s] = Summand(p, There, s)
  BY SumsUnfold
<1> HIDE DEF Here, There
<1>2. Bad = {}
  <2> SUFFICES ASSUME NEW n \in Bad, n = 0 \/ n - 1 \notin Bad PROVE FALSE
    <3>1. Bad \in SUBSET Nat
      OBVIOUS
    <3> HIDE DEF Bad
    <3>2. QED
      BY <3>1, Descent
  <2>1. n \in Nat /\ (n = 0 \/ n - 1 \notin Bad)
    OBVIOUS
  <2>2. PICK s \in SUBSET S : Cardinality(s) = n /\ Here[s] # There[s]
    OBVIOUS
  <2>3. s # {}
    BY <1>1, <2>2 DEF Summand
  <2>4. Chosen(s) \in s /\ s \ {Chosen(s)} \in SUBSET S
    BY <2>3, ChosenIsThere
  <2>5. Cardinality(s \ {Chosen(s)}) = n - 1 /\ n - 1 \in Nat
    BY <2>2, <2>4, OrdersAreCounted
  <2>6. Here[s \ {Chosen(s)}] = There[s \ {Chosen(s)}]
    BY <2>1, <2>4, <2>5
  <2>7. QED
    BY <1>1, <2>2, <2>3, <2>6 DEF Summand
<1>3. Here[S] = There[S]
  BY <1>2, OrdersAreCounted
<1>4. QED
  BY <1>3 DEF Units, Here, There

\* The order in which the summands are taken does not matter: one more order adds
\* its units.
LEMMA OneMoreOrder ==
  ASSUME NEW S \in SUBSET Orders, NEW o \in Orders \ S, NEW p \in Products
  PROVE  Units(p, S \cup {o}) = Units(p, S) + Qty[o][p]
<1> DEFINE F == Sums(p, Orders)
           Bad == {n \in Nat : \E s \in SUBSET Orders : \E x \in Orders \ s :
                     Cardinality(s) = n /\ F[s \cup {x}] # F[s] + Qty[x][p]}
<1>1. F \in [SUBSET Orders -> Nat] /\ \A s \in SUBSET Orders : F[s] = Summand(p, F, s)
  BY SumsUnfold
<1> HIDE DEF F
<1>2. Bad = {}
  <2> SUFFICES ASSUME NEW n \in Bad, n = 0 \/ n - 1 \notin Bad PROVE FALSE
    <3>1. Bad \in SUBSET Nat
      OBVIOUS
    <3> HIDE DEF Bad
    <3>2. QED
      BY <3>1, Descent
  <2>1. n \in Nat /\ (n = 0 \/ n - 1 \notin Bad)
    OBVIOUS
  <2>2. PICK s \in SUBSET Orders : \E x \in Orders \ s :
          Cardinality(s) = n /\ F[s \cup {x}] # F[s] + Qty[x][p]
    OBVIOUS
  <2>3. PICK x \in Orders \ s : Cardinality(s) = n /\ F[s \cup {x}] # F[s] + Qty[x][p]
    BY <2>2
  <2> DEFINE t == s \cup {x}
             y == Chosen(t)
  <2>4. y \in t /\ t \in SUBSET Orders /\ t # {}
    BY ChosenIsThere
  <2>5. F[t] = Qty[y][p] + F[t \ {y}]
    BY <1>1, <2>4 DEF Summand
  <2> HIDE DEF y
  <2>6. Qty[x][p] \in Nat /\ Qty[y][p] \in Nat
    BY <2>4, OrdersAssumption
  <2>7. CASE y = x
    <3>1. t \ {y} = s /\ F[s] \in Nat
      BY <1>1, <2>7
    <3> HIDE DEF t, Bad
    <3>2. F[t] = Qty[x][p] + F[s]
      BY <2>5, <2>7, <3>1, Zenon
    <3>3. F[t] = F[s] + Qty[x][p]
      BY <2>6, <3>1, <3>2
    <3>4. QED
      BY <2>3, <3>3 DEF t
  <2>8. CASE y # x
    <3> DEFINE r == s \ {y}
    <3>1. y \in s /\ r \in SUBSET Orders /\ x \in Orders \ r /\ y \in Orders \ r
      BY <2>4, <2>8
    <3>2. t \ {y} = r \cup {x} /\ s = r \cup {y}
      BY <2>4, <2>8, <3>1
    <3>3. Cardinality(r) = n - 1 /\ n - 1 \in Nat
      BY <2>3, <3>1, OrdersAreCounted
    <3> HIDE DEF r, t
    <3>4. n - 1 \notin Bad
      <4> HIDE DEF Bad
      <4>1. QED
        BY <2>1, <3>3
    <3>5. F[r \cup {x}] = F[r] + Qty[x][p] /\ F[r \cup {y}] = F[r] + Qty[y][p]
      BY <3>1, <3>3, <3>4
    <3>6. F[r] \in Nat
      BY <1>1, <3>1
    <3>7. F[t] = F[s] + Qty[x][p]
      <4>1. F[t] = Qty[y][p] + (F[r] + Qty[x][p])
        BY <2>5, <3>2, <3>5
      <4>2. F[s] = F[r] + Qty[y][p]
        BY <3>2, <3>5
      <4>3. QED
        BY <2>6, <3>6, <4>1, <4>2
    <3>8. QED
      BY <2>3, <3>7 DEF t
  <2>9. QED
    BY <2>7, <2>8
<1>3. F[S \cup {o}] = F[S] + Qty[o][p]
  BY <1>2, OrdersAreCounted
<1>4. S \cup {o} \in SUBSET Orders
  OBVIOUS
<1>5. QED
  BY <1>3, <1>4, SumsAgree DEF F

\* More orders hold no fewer units.
LEMMA MoreOrders ==
  ASSUME NEW T \in SUBSET Orders, NEW S \in SUBSET T, NEW p \in Products
  PROVE  Units(p, S) <= Units(p, T) /\ Units(p, S) \in Nat /\ Units(p, T) \in Nat
<1>1. ASSUME NEW s \in SUBSET Orders PROVE Units(p, s) \in Nat
  <2>1. Sums(p, s) \in [SUBSET s -> Nat]
    BY SumsUnfold
  <2>2. QED
    BY <2>1 DEF Units
<1> DEFINE Bad == {n \in Nat : \E t \in SUBSET Orders : \E s \in SUBSET t :
                     Cardinality(t) = n /\ ~(Units(p, s) <= Units(p, t))}
<1>2. Bad = {}
  <2> SUFFICES ASSUME NEW n \in Bad, n = 0 \/ n - 1 \notin Bad PROVE FALSE
    <3>1. Bad \in SUBSET Nat
      OBVIOUS
    <3> HIDE DEF Bad
    <3>2. QED
      BY <3>1, Descent
  <2>1. n \in Nat /\ (n = 0 \/ n - 1 \notin Bad)
    OBVIOUS
  <2>2. PICK t \in SUBSET Orders : \E s \in SUBSET t :
          Cardinality(t) = n /\ ~(Units(p, s) <= Units(p, t))
    OBVIOUS
  <2>3. PICK s \in SUBSET t : Cardinality(t) = n /\ ~(Units(p, s) <= Units(p, t))
    BY <2>2
  <2>4. PICK x \in t : x \notin s
    BY <1>1, <2>3
  <2> DEFINE r == t \ {x}
  <2>5. r \in SUBSET Orders /\ s \in SUBSET r /\ x \in Orders \ r /\ t = r \cup {x}
    BY <2>4
  <2>6. Cardinality(r) = n - 1 /\ n - 1 \in Nat
    BY <2>3, <2>4, OrdersAreCounted
  <2> HIDE DEF r
  <2>7. n - 1 \notin Bad
    BY <2>1, <2>6
  <2>8. Units(p, s) <= Units(p, r)
    BY <2>5, <2>6, <2>7
  <2>9. Units(p, t) = Units(p, r) + Qty[x][p]
    BY <2>5, OneMoreOrder
  <2>10. Qty[x][p] \in Nat /\ Units(p, r) \in Nat /\ Units(p, s) \in Nat
    BY <1>1, <2>5, OrdersAssumption
  <2>11. QED
    BY <2>3, <2>8, <2>9, <2>10
<1>3. QED
  BY <1>1, <1>2, OrdersAreCounted

-----------------------------------------------------------------------------
\* A status update in flight that will write "CANCELLED" and restock nothing.
ToCancelled(c) == calls[c].pc = "statusCommit" /\ calls[c].status = "CANCELLED"

\* Each order of D has been put back on the shelf once at least, which accounts for
\* all that is missing from the units of the others.
BackOnShelf(D) ==
  /\ \A o \in D : orders[o] # "NONE"
  /\ \A o \in Orders : orders[o] = "CANCELLED" => o \in D
  /\ \A c \in Calls : ToCancelled(c) => calls[c].order \in D
  /\ \A p \in Products : stock[p] + Units(p, Placed \ D) >= InitialStock[p]

\* Every cancelled order, and every order that a status update will yet write
\* "CANCELLED" to, has been put back at least once.
ShelfIsKept == \E D \in SUBSET Orders : BackOnShelf(D)

\* A status update that will write "CANCELLED" was asked for a cancelled order.
LEMMA ToCancelledStep ==
  ASSUME IInv, [Next]_vars, NEW c \in Calls, ToCancelled(c)'
  PROVE  \/ ToCancelled(c) /\ calls'[c].order = calls[c].order
         \/ calls'[c].order \in Orders /\ orders[calls'[c].order] = "CANCELLED" /\ UNCHANGED orders
<1> USE DEF IInv, TypeOK, ToCancelled
<1>1. CASE UNCHANGED calls
  BY <1>1
<1>2. ASSUME NEW d \in Calls, NEW o \in Orders,
             RequestIntent(d, o) \/ CancelOrder(d, o) \/ ProcessRefund(d, o)
      PROVE  calls'[c] = calls[c]
  BY <1>2 DEF RequestIntent, CancelOrder, ProcessRefund, StartRefunding
<1>3. ASSUME NEW d \in Calls, NEW o \in Orders, NEW t \in StatusTargets, UpdateOrderStatus(d, o, t)
      PROVE  calls'[c] = calls[c] \/ (calls'[c].order = o /\ orders[o] = "CANCELLED" /\ UNCHANGED orders)
  BY <1>3 DEF UpdateOrderStatus, StartRefunding, database
<1>4. ASSUME NEW d \in Calls, GatewayRefund(d) \/ RefundRecheck(d)
      PROVE  calls'[c] = calls[c]
  <2>1. calls[d] \in InFlight
    BY <1>4, BusyCall DEF GatewayRefund, RefundRecheck, CallPcs
  <2>2. CASE c # d
    BY <1>4, <2>2 DEF GatewayRefund, RefundRecheck
  <2>3. CASE c = d
    <3>1. calls'[d].pc # "statusCommit"
      <4>1. CASE GatewayRefund(d)
        <5>1. \/ calls' = [calls EXCEPT ![d].pc = IF @ = "cancelGateway" THEN "cancelCommit"
                                                 ELSE "refundRecheck"]
              \/ calls' = [calls EXCEPT ![d] = DoneCall]
          BY <4>1 DEF GatewayRefund
        <5>2. calls'[d] = DoneCall \/ calls'[d].pc \in {"cancelCommit", "refundRecheck"}
          BY <2>1, <5>1 DEF InFlight
        <5>3. QED
          BY <5>2 DEF DoneCall, Outside
      <4>2. CASE RefundRecheck(d)
        <5>1. \/ calls' = [calls EXCEPT ![d] = DoneCall]
              \/ calls' = [calls EXCEPT ![d] = [@ EXCEPT !.pc = "refundCommit",
                                               !.status = orders[calls[d].order]]]
          BY <4>2 DEF RefundRecheck
        <5> DEFINE rechecked == [calls[d] EXCEPT !.pc = "refundCommit",
                                                 !.status = orders[calls[d].order]]
        <5>2. rechecked.pc = "refundCommit"
          BY <2>1 DEF InFlight
        <5>3. calls'[d] = DoneCall \/ calls'[d] = rechecked
          BY <5>1
        <5> HIDE DEF rechecked
        <5>4. QED
          BY <5>2, <5>3 DEF DoneCall, Outside
      <4>3. QED
        BY <1>4, <4>1, <4>2
    <3>2. QED
      BY <2>3, <3>1
  <2>4. QED
    BY <2>2, <2>3
<1>5. ASSUME NEW d \in Calls, calls' = [calls EXCEPT ![d] = DoneCall]
      PROVE  calls'[c] = calls[c]
  BY <1>5 DEF DoneCall, Outside
<1>6. CASE Crash
  BY <1>6 DEF Crash, IdleCall, DoneCall, Outside
<1>7. QED
  BY <1>1, <1>2, <1>3, <1>4, <1>5, <1>6, CallSteps

\* Units and stocks are numbers.
LEMMA AreNumbers ==
  ASSUME TypeOK, NEW o \in Orders, NEW p \in Products
  PROVE  stock[p] \in Nat /\ InitialStock[p] \in Nat /\ Qty[o][p] \in Nat
BY OrdersAssumption DEF TypeOK

\* A step that leaves the stock alone, and cancels only what was put back, keeps it.
LEMMA NothingTaken ==
  ASSUME IInv, [Next]_vars, NEW D \in SUBSET Orders, BackOnShelf(D), UNCHANGED stock,
         \A o \in Orders : orders'[o] = "CANCELLED" => o \in D
  PROVE  BackOnShelf(D)'
<1>1. \A o \in Orders : orders[o] # "NONE" => orders'[o] # "NONE"
  BY OrderStep DEF OrdersRemember
<1>2. \A c \in Calls : ToCancelled(c)' => calls'[c].order \in D
  BY ToCancelledStep DEF BackOnShelf
<1>3. ASSUME NEW p \in Products PROVE stock'[p] + Units(p, Placed' \ D) >= InitialStock[p]
  <2>1. Placed' \ D \in SUBSET Orders /\ Placed \ D \in SUBSET (Placed' \ D)
    BY <1>1 DEF Placed
  <2>2. /\ Units(p, Placed \ D) <= Units(p, Placed' \ D)
        /\ Units(p, Placed \ D) \in Nat /\ Units(p, Placed' \ D) \in Nat
    BY <2>1, MoreOrders
  <2>3. stock'[p] = stock[p] /\ stock[p] \in Nat /\ InitialStock[p] \in Nat
    BY OrdersAssumption DEF IInv, TypeOK
  <2>4. stock[p] + Units(p, Placed \ D) >= InitialStock[p]
    BY DEF BackOnShelf
  <2>5. QED
    BY <2>2, <2>3, <2>4
<1>4. (Placed \ D)' = Placed' \ D
  OBVIOUS
<1>5. QED
  BY <1>1, <1>2, <1>3 DEF BackOnShelf

\* Putting an order back takes it out of what must be held.
LEMMA PutBack ==
  ASSUME IInv, [Next]_vars, NEW D \in SUBSET Orders, BackOnShelf(D), NEW o \in Orders,
         stock' = Restocked(o), orders' = [orders EXCEPT ![o] = "CANCELLED"]
  PROVE  BackOnShelf(D \cup {o})'
<1> DEFINE E == D \cup {o}
<1>1. \A x \in E : orders'[x] # "NONE"
  BY DEF BackOnShelf, IInv, TypeOK
<1>2. \A x \in Orders : orders'[x] = "CANCELLED" => x \in E
  BY DEF BackOnShelf, IInv, TypeOK
<1>3. \A c \in Calls : ToCancelled(c)' => calls'[c].order \in E
  BY ToCancelledStep DEF BackOnShelf
<1>4. ASSUME NEW p \in Products PROVE stock'[p] + Units(p, Placed' \ E) >= InitialStock[p]
  <2>1. /\ stock'[p] = stock[p] + Qty[o][p] /\ stock[p] \in Nat /\ InitialStock[p] \in Nat
        /\ Qty[o][p] \in Nat
    <3>1. stock'[p] = stock[p] + Qty[o][p]
      BY DEF Restocked
    <3>2. QED
      BY <3>1, AreNumbers DEF IInv
  <2>2. stock[p] + Units(p, Placed \ D) >= InitialStock[p]
    BY DEF BackOnShelf
  <2>3. Placed' \ E = (Placed \ D) \ {o} /\ Placed \ D \in SUBSET Orders
    BY DEF Placed, IInv, TypeOK
  <2> DEFINE S == (Placed \ D) \ {o}
  <2>4. S \in SUBSET Orders /\ o \in Orders \ S
    BY DEF Placed
  <2>5. Units(p, S) \in Nat /\ Units(p, Placed \ D) \in Nat
    BY <2>3, <2>4, MoreOrders
  <2>6. Units(p, Placed \ D) <= Units(p, S) + Qty[o][p]
    <3>1. CASE o \in Placed \ D
      <4>1. Placed \ D = S \cup {o}
        BY <3>1
      <4>2. Units(p, S \cup {o}) = Units(p, S) + Qty[o][p]
        BY <2>4, OneMoreOrder
      <4>3. Units(p, Placed \ D) = Units(p, S) + Qty[o][p]
        <5> HIDE DEF S
        <5> QED BY <4>1, <4>2, Zenon
      <4>4. QED
        BY <2>1, <2>5, <4>3
    <3>2. CASE o \notin Placed \ D
      <4>1. Placed \ D = S
        BY <3>2
      <4>2. Units(p, Placed \ D) = Units(p, S)
        BY <4>1, Zenon
      <4>3. QED
        BY <2>1, <2>5, <4>2
    <3>3. QED
      BY <3>1, <3>2
  <2>7. Units(p, Placed' \ E) = Units(p, S)
    BY <2>3, Zenon
  <2> HIDE DEF S
  <2>8. QED
    BY <2>1, <2>2, <2>5, <2>6, <2>7
<1>5. QED
  BY <1>1, <1>2, <1>3, <1>4 DEF BackOnShelf

\* A checkout moves units from the shelf to its order.
LEMMA TakenByOrder ==
  ASSUME IInv, [Next]_vars, NEW D \in SUBSET Orders, BackOnShelf(D), NEW o \in Orders,
         ProcessCheckout(o)
  PROVE  BackOnShelf(D)'
<1>1. /\ orders[o] = "NONE" /\ orders' = [orders EXCEPT ![o] = "PENDING"] /\ UNCHANGED calls
      /\ stock' = [p \in Products |-> stock[p] - Qty[o][p]]
  BY DEF ProcessCheckout
<1>2. /\ \A x \in D : orders'[x] # "NONE"
      /\ \A x \in Orders : orders'[x] = "CANCELLED" => x \in D
      /\ \A c \in Calls : ToCancelled(c)' => calls'[c].order \in D
  BY <1>1 DEF BackOnShelf, ToCancelled, IInv, TypeOK
<1>3. ASSUME NEW p \in Products PROVE stock'[p] + Units(p, Placed' \ D) >= InitialStock[p]
  <2>1. /\ stock'[p] = stock[p] - Qty[o][p] /\ stock[p] \in Nat /\ InitialStock[p] \in Nat
        /\ Qty[o][p] \in Nat
    BY <1>1, AreNumbers DEF IInv
  <2>2. stock[p] + Units(p, Placed \ D) >= InitialStock[p]
    BY DEF BackOnShelf
  <2> DEFINE S == Placed \ D
  <2>3. Placed' \ D = S \cup {o} /\ S \in SUBSET Orders /\ o \in Orders \ S
    BY <1>1 DEF Placed, BackOnShelf, IInv, TypeOK
  <2>4. Units(p, S \cup {o}) = Units(p, S) + Qty[o][p]
    BY <2>3, OneMoreOrder
  <2>5. Units(p, S) \in Nat
    BY <2>3, MoreOrders
  <2>6. Units(p, Placed' \ D) = Units(p, S \cup {o})
    BY <2>3, Zenon
  <2> HIDE DEF S
  <2>7. stock[p] + Units(p, S) >= InitialStock[p]
    BY <2>2 DEF S
  <2>8. QED
    BY <2>1, <2>4, <2>5, <2>6, <2>7
<1>4. QED
  BY <1>2, <1>3 DEF BackOnShelf

\* Every step keeps the shelf.
LEMMA ShelfStep == IInv /\ ShelfIsKept /\ [Next]_vars => ShelfIsKept'
<1> SUFFICES ASSUME IInv, [Next]_vars, NEW D \in SUBSET Orders, BackOnShelf(D)
             PROVE  \E E \in SUBSET Orders : BackOnShelf(E)'
  BY DEF ShelfIsKept
<1>1. ASSUME NEW o \in Orders, ProcessCheckout(o) PROVE BackOnShelf(D)'
  BY <1>1, TakenByOrder
<1>2. ASSUME NEW o \in Orders, stock' = Restocked(o), orders' = [orders EXCEPT ![o] = "CANCELLED"]
      PROVE  \E E \in SUBSET Orders : BackOnShelf(E)'
  <2>1. D \cup {o} \in SUBSET Orders
    OBVIOUS
  <2>2. QED
    BY <1>2, <2>1, PutBack
<1>3. ASSUME UNCHANGED <<orders, stock>> PROVE BackOnShelf(D)'
  BY <1>3, NothingTaken DEF BackOnShelf
<1>4. ASSUME NEW s \in Slots, ApplyCommit(s) PROVE \E E \in SUBSET Orders : BackOnShelf(E)'
  <2>1. slots[s].msg.order \in Orders /\ slots[s].msg.kind \in Kinds
    BY <1>4, BusySlot DEF ApplyCommit, SlotPcs, Handling, Messages, IInv
  <2>2. CASE slots[s].msg.kind = "failed"
    BY <1>2, <1>4, <2>1, <2>2 DEF ApplyCommit, Outcome
  <2>3. CASE slots[s].msg.kind # "failed"
    <3>1. stock' = stock /\ orders' = [orders EXCEPT ![slots[s].msg.order] = "PAID"]
      BY <1>4, <2>1, <2>3 DEF ApplyCommit, Outcome, Kinds
    <3>2. \A o \in Orders : orders'[o] = "CANCELLED" => o \in D
      BY <3>1 DEF BackOnShelf, IInv, TypeOK
    <3>3. QED
      BY <3>1, <3>2, NothingTaken
  <2>4. QED
    BY <2>2, <2>3
<1>5. ASSUME NEW c \in Calls, CancelCommit(c) PROVE \E E \in SUBSET Orders : BackOnShelf(E)'
  <2>1. calls[c].order \in Orders
    BY <1>5, BusyCall DEF CancelCommit, CallPcs, InFlight, IInv
  <2>2. QED
    BY <1>2, <1>5, <2>1 DEF CancelCommit
<1>6. ASSUME NEW c \in Calls, RefundCommit(c) PROVE \E E \in SUBSET Orders : BackOnShelf(E)'
  <2>1. calls[c].order \in Orders
    BY <1>6, BusyCall DEF RefundCommit, CallPcs, InFlight, IInv
  <2>2. QED
    BY <1>2, <1>3, <1>6, <2>1 DEF RefundCommit
<1>7. ASSUME NEW c \in Calls, StatusCommit(c) PROVE \E E \in SUBSET Orders : BackOnShelf(E)'
  <2>1. stock' = stock /\ orders' = [orders EXCEPT ![calls[c].order] = calls[c].status]
    BY <1>7 DEF StatusCommit
  <2>2. calls[c].status = "CANCELLED" => calls[c].order \in D
    BY <1>7 DEF StatusCommit, BackOnShelf, ToCancelled
  <2>3. \A o \in Orders : orders'[o] = "CANCELLED" => o \in D
    BY <2>1, <2>2 DEF BackOnShelf, IInv, TypeOK
  <2>4. QED
    BY <2>1, <2>3, NothingTaken
<1>8. CASE UNCHANGED orders
  <2>1. ASSUME UNCHANGED stock PROVE BackOnShelf(D)'
    BY <1>3, <1>8, <2>1
  <2>2. QED
    BY <1>1, <1>4, <1>5, <1>6, <1>7, <1>8, <2>1
       DEF Next, Gateway, Webhook, Consumer, Caller, vars, database, Charge, Decline,
           RecordPayment, PublishStatus, WebhookFails, Deliver, ApplyRead, ApplyFails, SendMail,
           MailFails, Republish, DeadLetter, Ack, RequestIntent, CreateIntent, CancelOrder,
           UpdateOrderStatus, ProcessRefund, GatewayRefund, RefundRecheck, CallFails, Crash
<1>9. QED
  BY <1>1, <1>4, <1>5, <1>6, <1>7, <1>8, OrderSteps

\* Inventory never loses units, whichever handlers race to cancel, refund, pay or
\* restatus an order.
THEOREM StockIsNeverLost == Spec => []NoStockLeak
<1>1. Init => ShelfIsKept
  <2> SUFFICES ASSUME Init PROVE BackOnShelf({})
    BY DEF ShelfIsKept
  <2>1. Placed = {}
    BY DEF Init, Placed
  <2>2. ASSUME NEW p \in Products PROVE Units(p, Placed \ {}) \in Nat
    BY <2>1, MoreOrders
  <2>3. \A p \in Products : stock[p] + Units(p, Placed \ {}) >= InitialStock[p]
    BY <2>2, OrdersAssumption DEF Init
  <2>4. QED
    BY <2>3 DEF Init, BackOnShelf, ToCancelled, IdleCall, Outside
<1>2. IInv /\ ShelfIsKept => NoStockLeak
  <2> SUFFICES ASSUME IInv, NEW D \in SUBSET Orders, BackOnShelf(D), NEW p \in Products
               PROVE  stock[p] + Held(p) >= InitialStock[p]
    BY DEF ShelfIsKept, NoStockLeak
  <2>1. Active \in SUBSET Orders /\ Placed \ D \in SUBSET Active
    BY DEF Active, Placed, BackOnShelf
  <2>2. /\ Units(p, Placed \ D) <= Units(p, Active)
        /\ Units(p, Placed \ D) \in Nat /\ Units(p, Active) \in Nat
    BY <2>1, MoreOrders
  <2>3. stock[p] \in Nat /\ InitialStock[p] \in Nat
    BY OrdersAssumption DEF IInv, TypeOK
  <2>4. stock[p] + Units(p, Placed \ D) >= InitialStock[p]
    BY DEF BackOnShelf
  <2>5. QED
    BY <2>2, <2>3, <2>4, HeldIsUnits
<1>3. QED
  BY <1>1, <1>2, ShelfStep, Invariance, PTL DEF Spec
=============================================================================
