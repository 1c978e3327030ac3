SPECIFICATION FairSpec
CONSTANTS
  c1 = c1
  c2 = c2
  c3 = c3
  u1 = u1
  u2 = u2
  v1 = v1
  Clients = {c1, c2}
  Users = {u1, u2}
  Convs = {v1}
  UserOf <- MCUserOf
  Participants <- MCParticipants
  Frames <- MCFrames
  Cap = 1
  MaxFrames = 2
  Malformed = Malformed
  None = None
PROPERTIES
  HubServes
  PumpsEndTogether
  QueueDrains
CHECK_DEADLOCK FALSE
