SPECIFICATION Spec
CONSTANTS
  h1 = h1
  h2 = h2
  x = x
  y = y
  None = None
  Replay = Replay
  Callers = {h1, Replay}
  Handlers = {h1}
  Channels = {x}
  SessionBound = 2
  RequestBound = 1
PROPERTIES
  KickIsTerminal
CHECK_DEADLOCK FALSE
