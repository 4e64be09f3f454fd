SPECIFICATION Spec
CONSTANTS
  i1 = i1
  i2 = i2
  m = m
  n = n
  None = None
  Invocations = {i1, i2}
  Kinds <- KindsHere
  Messages = {m, n}
  Window = 1
  TimeBound = 2
  CrashBound = 1
INVARIANTS
  TypeOK
  SuccessWasWelcomed
  FailureHadNoEffect
  LockIsLocal
PROPERTIES
  DecidedOnce
CHECK_DEADLOCK FALSE
