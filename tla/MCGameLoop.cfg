\* Every interleaving of one game, either client may go away at any time.
CONSTANTS
  Threads = {t1, t2}
  Names = {alice, bob}
  NULL = NULL
  Leavers = {t1, t2}
  BOOM_NUMBER = 7
  Boom = boom
  Moves <- MCMoves
  Limit = 8
SPECIFICATION FairGameSpec
INVARIANTS
  GameTypeOK
  BoardExclusive
  NumberNotStale
  ViewTruthful
  WinnerAgreement
  HandsBackClean
  JudgeAgrees
PROPERTIES
  ImplementsBoomGame
  NumberFollowsMoves
  GameEndsForBoth
CHECK_DEADLOCK FALSE
