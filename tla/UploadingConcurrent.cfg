SPECIFICATION Spec
SYMMETRY ThreadSymmetry
CONSTANTS
  Threads = {t1, t2}
  t1 = t1
  t2 = t2
  MaxConn = 5
  Faults = TRUE
  ann = ann
  pw = pw
  Passwds = {pw}
  isbn1 = isbn1
  isbn2 = isbn2
  isbn3 = isbn3
  Names = {ann}
  Isbns = {isbn1, isbn2, isbn3}
  NoNumber = NoNumber
  Bids = {1, 2, 3}
  Uids = {1}
  MaxBooks = 3
  InitialBooks <- OneBook
  InitialConfig = {1}
  InitialUsers <- OneUser
INVARIANTS
  TypeOK
  IdsContiguous
  DescribesRow
  ConfiguredHasRow
