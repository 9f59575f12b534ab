\* Whether a thread leaves a game only when it has ended for both clients.
CONSTANTS
  Threads = {t1, t2}
  Names = {alice, bob}
  NULL = NULL
  Leavers = {}
  MaxReady = 2
  BOOM_NUMBER = 2
  Boom = boom
  Moves <- MCMoves
  Limit = 1
SPECIFICATION MCSpec
INVARIANT GameEndedForBoth
CHECK_DEADLOCK FALSE
