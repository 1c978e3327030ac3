SPECIFICATION FairSpec
CONSTANTS
  p1 = p1
  p2 = p2
  u1 = u1
  u2 = u2
  Users = {u1, u2}
  Convs <- MCConvs
  Participants <- MCParticipants
  Events <- MCMarksAndBad
  None = None
  Partitions = {p1, p2}
  MaxEvents = 2
  MaxResends = 1
  MaxRestarts = 1
PROPERTIES
  LaterMarkWins
  TopicDrains
CHECK_DEADLOCK FALSE
