CONSTANTS
  o1 = o1  i1 = i1  s1 = s1  s2 = s2  p1 = p1  c1 = c1  c2 = c2  c3 = c3
  customer = customer  staff = staff
  Guest = Guest  NoIntent = NoIntent  NoOrder = NoOrder  NoMessage = NoMessage
  Orders = {o1}
  Products = {p1}
  Intents = {i1}
  CustomerCalls = {c1, c2}
  StaffCalls = {c3}
  Calls <- MCCalls
  Sender <- MCSender
  Admins = {staff}
  Slots = {s1, s2}
  StatusTargets = {"PAID", "SHIPPED", "CANCELLED"}
  MaxRetries = 1
  MaxFaults = 0
  Owner <- MCOwner
  Qty <- OneUnit
  InitialStock <- StockForAll
SYMMETRY Symmetry
SPECIFICATION Spec
CHECK_DEADLOCK FALSE
INVARIANTS TypeOK NoStockLeak RefundBeforeRecord
PROPERTIES CancelledIsFinal PaidOnlyIfCharged
