CONSTANTS
  t1 = t1  t2 = t2  t3 = t3  f1 = f1  r1 = r1  r2 = r2  r3 = r3
  alice = alice  NoToken = NoToken  NoFamily = NoFamily  Free = Free
  Tokens = {t1, t2, t3}
  Families = {f1}
  Users = {alice}
  UserOf <- MCUserOf
  Requests = {r1, r2, r3}
  MaxExpired = 0
SPECIFICATION Spec
CHECK_DEADLOCK FALSE
INVARIANT ReuseEndsFamily
