SPECIFICATION FairSpec
CONSTANTS
  h1 = h1
  h2 = h2
  x = x
  y = y
  None = None
  Replay = Replay
  Callers <- CallersHere
  Handlers = {h1, h2}
  Channels = {x}
  SessionBound = 2
  RequestBound = 2
INVARIANTS
  TypeOK
  SubscriptionsAgree
  AnswersMatch
  SlotBelongsToOwner
PROPERTIES
  KickedStaysAway
  StopStays
  CommandsEnd
  StopEnds
  LossIsNoticed
  GivesUp
CHECK_DEADLOCK FALSE
