\* What the opponent of a thread that has ended can hope for.
CONSTANTS
  Threads = {t1, t2}
  Names = {alice, bob}
  NULL = NULL
  Leavers = {t1, t2}
  BOOM_NUMBER = 7
  Boom = boom
  Moves <- MCMoves
  Limit = 8
SPECIFICATION FairGameSpec
PROPERTY SurvivorLeavesGame
CHECK_DEADLOCK FALSE
