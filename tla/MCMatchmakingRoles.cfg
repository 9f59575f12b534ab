\* Whether the two players of a game can have the same number.
CONSTANTS
  Threads = {t1, t2}
  Names = {alice, bob}
  NULL = NULL
  Leavers = {t1, t2}
  MaxReady = 4
SPECIFICATION MCSpec
INVARIANT RolesDistinct
CHECK_DEADLOCK FALSE
