SPECIFICATION Spec
CONSTANTS
  u1 = u1
  u2 = u2
  Users = {u1, u2}
  Convs <- MCConvs
  Participants <- MCParticipants
  Events <- MCEvents
  None = None
  Conv = 2
  User = u2
  Limit = 1
  Recent = 2
  MaxSeq = 3
INVARIANTS
  TypeOK
  HistoryComplete
  QuietNotSkipped
  DetailConsistent
  UnreadAgrees
CHECK_DEADLOCK FALSE
