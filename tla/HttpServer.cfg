CONSTANTS
  c1 = c1
  c2 = c2
  Conns <- MCConns
  KeepAliveMax = 2
  Messages <- MCMessages
  MaxMessages = 2
SPECIFICATION FairSpec
INVARIANTS TypeOK AnswersInOrder ListenerClosed
PROPERTIES ClosesAnnounced ConnectionsEnd ListenEnds ImplementsDialogue
CHECK_DEADLOCK FALSE
