SPECIFICATION Spec
CONSTANTS
  m1 = m1
  m2 = m2
  j1 = j1
  j2 = j2
  e1 = e1
  e2 = e2
  k1 = k1
  k2 = k2
  u1 = u1
  u2 = u2
  u3 = u3
  Users = {u1, u2, u3}
  Keys = {k1, k2}
  Creates = {m1, m2}
  Joins = {}
  Ends = {}
  UserOf <- MCUserOf
  InvitedBy <- MCInvitedBy
  None = None
INVARIANTS
  RetriesHelp
CHECK_DEADLOCK FALSE
