CONSTANTS
  t1 = t1  t2 = t2  t3 = t3  t4 = t4  t5 = t5  f1 = f1  f2 = f2  r1 = r1  r2 = r2  r3 = r3
  alice = alice  NoToken = NoToken  NoFamily = NoFamily  Free = Free
  Tokens = {t1, t2, t3, t4, t5}
  Families = {f1, f2}
  Users = {alice}
  UserOf <- MCUserOf
  Requests = {r1, r2, r3}
  MaxExpired = 1
SPECIFICATION FairSpec
CHECK_DEADLOCK FALSE
INVARIANTS TypeOK OneLiveToken RevocationsEndSessions
PROPERTIES SessionsAreChains EveryRequestAnswered
