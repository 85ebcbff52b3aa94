SPECIFICATION Spec
CONSTANTS
  Threads = {"t1", "t2"}
  MaxConn = 9
  Faults = FALSE
  ann = ann
  pw = pw
  Passwds = {pw}
  bob = bob
  cid = cid
  isbn1 = isbn1
  isbn2 = isbn2
  Names = {ann, bob, cid}
  Isbns = {isbn1, isbn2}
  NoNumber = NoNumber
  Bids = {1}
  Uids = {1, 2, 3}
  Asked = {1}
  LendTimes = {30}
  MaxWait = 1
  InitialBooks <- OneBook
  InitialConfig = {1}
  InitialUsers <- ThreeUsers
INVARIANTS
  MapFresh
