CONSTANTS
  k1 = k1  k2 = k2  k3 = k3  p1 = p1  p2 = p2
  account = account  guest = guest  NoProduct = NoProduct  Free = Free
  AccountCheckouts = {k1, k2}
  GuestCheckouts = {k3}
  Checkouts <- MCCheckouts
  Buyer <- MCBuyer
  Buyers = {account, guest}
  Guests = {guest}
  Products = {p1, p2}
  InitialStock <- OneLeft
  MaxQty = 1
  StockLevels = {0, 2}
  MaxEdits = 1
  a1 = a1  b1 = b1  b2 = b2  c1 = c1  alice = alice  bob = bob  carol = carol  NoRow = NoRow
  AliceCalls = {a1}
  BobCalls = {b1, b2}
  CarolCalls = {c1}
  Requests <- MCRequests
  User <- MCUser
  Users = {alice, bob, carol}
  Purchasers = {alice, bob}
  Admins = {carol}
  Ratings = {5}
SPECIFICATION MCSpec
CHECK_DEADLOCK FALSE
INVARIANTS TypeOK TakenIsCovered ReviewsTypeOK HelpfulCountsVotes OneVoteEach
PROPERTIES ReservesAtomically CartOutlivesRefusal EveryCheckoutEnds EveryCallEnds
