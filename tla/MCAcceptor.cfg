\* Connections come and go over two slots.
CONSTANTS
  NUM_OF_WORKER_THREADS = 2
  Connections = {c1, c2, c3}
  NULL = NULL
  UNINIT = UNINIT
SPECIFICATION FairSpec
INVARIANTS
  TypeOK
  SocketsAreOwned
  HandlesAreKept
  DeniedOnlyWhenFull
  MenuMeansApproved
PROPERTIES
  RequestAnswered
  ExitEndsServer
