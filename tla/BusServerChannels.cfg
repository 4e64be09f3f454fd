SPECIFICATION Spec
CONSTANTS
  c1 = c1
  c2 = c2
  c3 = c3
  s1 = s1
  s2 = s2
  s3 = s3
  na = na
  nb = nb
  nc = nc
  x = x
  y = y
  None = None
  Main = Main
  BadName = BadName
  Conns = {c1, c2, c3}
  Sids = {s1, s2, s3}
  Names <- NamesHere
  Channels = {x, y}
  Targets <- TargetsHere
  Prefixed <- PrefixedHere
  Hellos <- ChannelHellos
  Requests <- ChannelRequests
  connection_max = 3
  subscriptions_max = 1
  channels_max = 1
  IdleTimeout = FALSE
  Faults = {"lost"}
  StallBound = 1
  FrameBound = 2
SYMMETRY ConnSymmetry
INVARIANTS
  TypeOK
  LockDiscipline
  ChannelsMirrorSubscriptions
  WithinLimits
  PublishSetStable
PROPERTIES
  PromiseKept
CHECK_DEADLOCK FALSE
