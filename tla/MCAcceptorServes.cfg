\* Whether only exit stops the accept loop.
CONSTANTS
  NUM_OF_WORKER_THREADS = 2
  Connections = {c1, c2, c3, c4}
  NULL = NULL
  UNINIT = UNINIT
SPECIFICATION Spec
PROPERTY ServesUntilExit
