CONSTANTS
  t1 = t1
  t2 = t2
  alice = alice
  bob = bob
  Threads <- MCThreads
  Names = {alice, bob}
  NULL = NULL
  Leavers = {t1, t2}
  MaxReady = 2
  BOOM_NUMBER = 2
  Boom = boom
  Moves <- MCMoves
  Limit = 1
  UserName <- MCUserName
SPECIFICATION MCSpec
INVARIANTS WireTypeOK InStep NeverBothWaiting OneUserMoves SameGameShown
CHECK_DEADLOCK FALSE
