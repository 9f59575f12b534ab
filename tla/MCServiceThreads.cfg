\* Sessions, games and menus, with clients that leave at any time.
CONSTANTS
  Threads = {t1, t2}
  Names = {alice, bob}
  NULL = NULL
  Leavers = {t1, t2}
  MaxReady = 2
  BOOM_NUMBER = 2
  Boom = boom
  Moves <- MCMoves
  Limit = 1
SYMMETRY Symmetry
SPECIFICATION MCSpec
INVARIANTS
  OpponentNamed
  GameStartsClean
  EventStartsClear
PROPERTY ImplementsMatchmaking
CHECK_DEADLOCK FALSE
