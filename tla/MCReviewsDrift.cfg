CONSTANTS
  a1 = a1  b1 = b1  alice = alice  bob = bob  carol = carol  NoRow = NoRow
  AliceCalls = {a1}
  BobCalls = {b1}
  CarolCalls = {}
  Requests <- MCRequests
  User <- MCUser
  Users = {alice, bob}
  Purchasers = {alice, bob}
  Admins = {}
  Ratings = {1, 5}
SPECIFICATION ReviewsSpec
CHECK_DEADLOCK FALSE
INVARIANT NeverDriftApart
