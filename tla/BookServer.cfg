SPECIFICATION Spec
CONSTANTS
  Threads = {"t1"}
  MaxConn = 4
  Faults = FALSE
  ann = ann
  bob = bob
  cid = cid
  pw = pw
  isbn1 = isbn1
  isbn2 = isbn2
  Names = {ann, bob, cid, "NULL"}
  Passwds = {pw}
  Isbns = {isbn1, isbn2}
  NoNumber = NoNumber
  Bids = {1, 2}
  Uids = {1, 2, 3}
  LendTimes = {30, NoNumber}
  MaxWait = 1
  MaxBooks = 2
  MaxUsers = 3
  Newcomers <- CidOrNull
  MaxComments = 1
  InitialBooks <- OneBook
  InitialConfig = {1}
  InitialUsers <- TwoUsers
  InitialUserConfig = {1, 2}
INVARIANTS
  ServedUntilFull
  IsbnUnique
  TablesAgree
  PagesAgree
PROPERTIES
  AbortsOnlyWhenFull
  LentOnce
