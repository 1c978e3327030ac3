SPECIFICATION FairSpec
CONSTANTS
  u1 = u1
  u2 = u2
  u3 = u3
  Users = {u1, u2, u3}
  Tokens <- MCTokens
  Conversations <- MCConversations
  PageSize = 2
  MaxRenames = 1
  Nobody = Nobody
  NoName = NoName
INVARIANTS
  TypeOK
  NoMapRace
  OnePersonOneName
  NamedWhenFetched
PROPERTIES
  Returns
CHECK_DEADLOCK FALSE
