CONSTANTS
  Messages <- MCMessages
  MaxMessages = 3
SPECIFICATION FairSpec
INVARIANT TypeOK
PROPERTIES
  ImplementsChannel
  MessagesArrive
  CloseIsNoticed
CHECK_DEADLOCK FALSE
