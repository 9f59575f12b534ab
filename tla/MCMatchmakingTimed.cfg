CONSTANTS
  t1 = t1
  t2 = t2
  alice = alice
  NULL = NULL
  Threads = {t1, t2}
  Names = {alice}
  Leavers = {t1, t2}
  MaxReady = 3
  WAIT_FOR_RESPONSE = 3
SPECIFICATION TimedSpec
INVARIANT AnsweredInTime
