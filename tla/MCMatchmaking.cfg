\* Every interleaving of arrivals, with clients that leave, return and are replaced.
CONSTANTS
  Threads = {t1, t2}
  Names = {alice, bob}
  NULL = NULL
  Leavers = {t1, t2}
  MaxReady = 4
SPECIFICATION MCFairSpec
INVARIANTS
  TypeOK
  BarrierNeverStranded
  SomeoneMovesFirst
  NamesPosted
  ReadyAreSeen
PROPERTY VersusAnswered
CHECK_DEADLOCK FALSE
