SPECIFICATION Spec
CONSTANTS
  p1 = p1
  p2 = p2
  p3 = p3
  h1 = h1
  h2 = h2
  a = a
  b = b
  i1 = i1
  i2 = i2
  i3 = i3
  i4 = i4
  None = None
  Procs = {p1, p2}
  Helpers = {h1}
  Keys = {a, b}
  KeyOf <- KeysHere
  Inodes = {i1, i2, i3}
  SessionBound = 2
  CrashBound = 0
SYMMETRY InodeSymmetry
INVARIANTS
  ShutdownRemovesSocket
CHECK_DEADLOCK FALSE
