SPECIFICATION FairSpec
CONSTANTS
  Threads = {"t1"}
  MaxConn = 4
  Faults = TRUE
  ann = ann
  pw = pw
  Passwds = {pw}
  bob = bob
  cid = cid
  isbn1 = isbn1
  isbn2 = isbn2
  Names = {ann, bob, cid}
  Isbns = {isbn1, isbn2}
  NoNumber = NoNumber
  Bids = {1, 2, 3}
  Uids = {1, 2, 3}
  Asked = {1, 2, 3}
  LendTimes = {30, 91, NoNumber}
  MaxWait = 1
  InitialBooks <- TwoBooks
  InitialConfig = {1, 2}
  InitialUsers <- TwoUsers
INVARIANTS
  MapAllOrNothing
  WaitnumBound
PROPERTIES
  ImplementsDesk
  Answered
