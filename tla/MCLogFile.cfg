CONSTANTS
  t1 = t1
  t2 = t2
  c1 = c1
  alice = alice
  bob = bob
  NULL = NULL
  ServiceThreads = {t1, t2}
  Clients = {c1}
  Names = {alice, bob}
  MaxSessions = 3
  MaxOffset = 2
SPECIFICATION Spec
SYMMETRY Alike
INVARIANTS
  TypeOK
  LogIsKept
PROPERTY EndedBySharingOnly
CHECK_DEADLOCK FALSE
