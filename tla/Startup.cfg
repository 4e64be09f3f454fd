SPECIFICATION Spec
CONSTANTS
  l1 = l1
  l2 = l2
  s1 = s1
  s2 = s2
  c1 = c1
  here = here
  there = there
  p1 = p1
  p2 = p2
  f = f
  g = g
  None = None
  Empty = Empty
  Invalid = Invalid
  Old = Old
  Configured = Configured
  Hosts = {here, there}
  Ports = {p1, p2}
  Paths = {f, g}
  Loopback = {here}
  DefaultHost = here
  DefaultPort = p1
  Listeners = {l1, l2}
  Servers = {s1, s2}
  ServerOf <- ServerOfHere
  Clients = {c1}
  Settings <- SettingsHere
  StopBound = 1
INVARIANTS
  TypeOK
  ChildAgrees
  SoleCreatorMatches
  NobodyDenied
  PairsMatch
CHECK_DEADLOCK FALSE
