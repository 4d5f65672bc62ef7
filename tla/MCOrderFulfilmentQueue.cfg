CONSTANTS
  o1 = o1  i1 = i1    s1 = s1  s2 = s2  p1 = p1  c1 = c1  
  customer = customer  staff = staff
  Guest = Guest  NoIntent = NoIntent  NoOrder = NoOrder  NoMessage = NoMessage
  Orders = {o1}
  Products = {p1}
  Intents = {i1}
  CustomerCalls = {c1}
  StaffCalls = {}
  Calls <- MCCalls
  Sender <- MCSender
  Admins = {staff}
  Slots = {s1, s2}
  StatusTargets = {}
  MaxRetries = 1
  MaxFaults = 1
  Owner <- GuestOwner
  Qty <- OneUnit
  InitialStock <- StockForAll
SPECIFICATION FairSpec
CHECK_DEADLOCK FALSE
INVARIANTS ChargedPendingHasCarrier
PROPERTIES EventIsSettled PaidIsConfirmed
