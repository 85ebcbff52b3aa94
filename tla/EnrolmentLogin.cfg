SPECIFICATION Spec
CONSTANTS
  Threads = {t1}
  t1 = t1
  t2 = t2
  MaxConn = 7
  Faults = FALSE
  ann = ann
  bob = bob
  pw1 = pw1
  pw2 = pw2
  Names = {ann, bob}
  Passwds = {pw1, pw2}
  NoNumber = NoNumber
  Uids = {1, 2, 3}
  MaxUsers = 3
  Newcomers <- AnnAndBob
  InitialUsers <- OneUser
  InitialUserConfig = {1}
INVARIANTS
  UsersLogIn
