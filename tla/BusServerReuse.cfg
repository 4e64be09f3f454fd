SPECIFICATION Spec
CONSTANTS
  c1 = c1
  c2 = c2
  c3 = c3
  s1 = s1
  s2 = s2
  s3 = s3
  na = na
  nb = nb
  nc = nc
  x = x
  y = y
  None = None
  Main = Main
  BadName = BadName
  Conns = {c1, c2, c3}
  Sids = {s1, s2}
  Names <- NamesHere
  Channels = {x}
  Targets <- TargetsHere
  Prefixed <- PrefixedHere
  Hellos <- KickHellos
  Requests <- KickRequests
  connection_max = 2
  subscriptions_max = 1
  channels_max = 1
  IdleTimeout = FALSE
  Faults = {}
  StallBound = 0
  FrameBound = 1
SYMMETRY ConnSymmetry
INVARIANTS
  LiveSessionStaysRegistered
CHECK_DEADLOCK FALSE
