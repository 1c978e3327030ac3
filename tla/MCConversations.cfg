SPECIFICATION Spec
CONSTANTS
  r1 = r1
  r2 = r2
  r3 = r3
  r4 = r4
  u1 = u1
  u2 = u2
  u3 = u3
  Users = {u1, u2, u3}
  Requests = {r1, r2, r3, r4}
  UserOf <- MCUserOf
  PartnerOf <- MCPartnerOf
  MaxConv = 3
INVARIANTS
  TypeOK
  BothTakePart
  TwoMembers
  CacheCoherent
CHECK_DEADLOCK FALSE
