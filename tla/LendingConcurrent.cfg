SPECIFICATION Spec
CONSTANTS
  Threads = {"t1", "t2"}
  MaxConn = 3
  Faults = TRUE
  ann = ann
  pw = pw
  Passwds = {pw}
  bob = bob
  cid = cid
  isbn1 = isbn1
  isbn2 = isbn2
  Names = {ann, bob, cid}
  Isbns = {isbn1, isbn2}
  NoNumber = NoNumber
  Bids = {1, 2}
  Uids = {1, 2}
  Asked = {1}
  LendTimes = {30}
  MaxWait = 1
  InitialBooks <- TwoBooks
  InitialConfig = {1}
  InitialUsers <- TwoUsers
INVARIANTS
  TypeOK
  ConnsAccounted
  MapNamesBooks
