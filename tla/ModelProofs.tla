---------------------------- MODULE ModelProofs ----------------------------
(* What the handlers' proofs need of Process, BookModel and UserModel:     *)
(* connections are counted right, and the maps keep their types and their  *)
(* keys under Load().                                                      *)
EXTENDS BookModel, UserLoading, FiniteSetTheorems, TLAPS

-----------------------------------------------------------------------------
(* Maps and tables.                                                        *)

LEMMA BlankType == Blank \in Book /\ IsTable(EmptyMap) /\ IsBookMap(EmptyMap)
BY DEF Blank, Book, IsTable, IsBookMap, EmptyMap

LEMMA RowType == ASSUME NEW b \in Bids PROVE Row(b) \subseteq Book
BY DEF Row

(* map[b] = entry keeps a map a map ...                                    *)
LEMMA PutIsBookMap ==
  ASSUME NEW map, IsBookMap(map), NEW b \in Bids, NEW entry \in Book
  PROVE  /\ IsBookMap(Put(map, b, entry))
         /\ DOMAIN Put(map, b, entry) = DOMAIN map \cup {b}
BY DEF IsBookMap, Put

(* ... and one more row keeps a table a table.                             *)
LEMMA PutIsTable ==
  ASSUME NEW map, IsTable(map), NEW b \in Bids, NEW row \in Row(b)
  PROVE  IsTable(Put(map, b, row))
<1>1. IsBookMap(Put(map, b, row)) /\ DOMAIN Put(map, b, row) = DOMAIN map \cup {b}
  BY RowType, PutIsBookMap DEF IsTable
<1>2. \A c \in DOMAIN Put(map, b, row) : Put(map, b, row)[c] \in Row(c)
  BY DEF Put, IsTable
<1> QED BY <1>1, <1>2 DEF IsTable

LEMMA EntryType ==
  ASSUME NEW map, IsBookMap(map), NEW b
  PROVE  Entry(map, b) \in Book
BY BlankType DEF IsBookMap, Entry

(* Who has the book is all that the statements of /update and /updateback  *)
(* change.                                                                 *)
SameBook(r1, r2) == r1.isbn = r2.isbn /\ r1.owner = r2.owner
IsLent(row, w, l, n) == row.borrower = w /\ row.islend = l /\ row.num = n

(* A borrower, an islend and a waitnum, as the statements set them.        *)
Loanable(w, l, n) == w \in Names \cup {"", "NULL"} /\ l \in {"0", "1"} /\ n \in Int

Loan(row, w, l, n) == [row EXCEPT !.borrower = w, !.islend = l, !.num = n]
LoanTable(bid, w, l, n) ==
  [b \in DOMAIN BookBase |-> IF b = bid THEN Loan(BookBase[b], w, l, n) ELSE BookBase[b]]

LEMMA LoanType ==
  ASSUME NEW b \in Bids, NEW row \in Row(b),
         NEW w \in Names \cup {"", "NULL"}, NEW l \in {"0", "1"}, NEW n \in Int
  PROVE  /\ Loan(row, w, l, n) \in Row(b)
         /\ SameBook(Loan(row, w, l, n), row)
         /\ Loan(row, w, l, n).uid = row.uid
         /\ IsLent(Loan(row, w, l, n), w, l, n)
<1>1. row \in Book /\ row.id = b /\ row.isbn # "" /\ row.islend # "" /\ row.uid \in Uids
  BY DEF Row
<1>2. l \in {"0", "1", ""} /\ n \in Int \cup {NoNumber} /\ l # ""
  OBVIOUS
<1> DEFINE r1 == [row EXCEPT !.borrower = w]
           r2 == [r1 EXCEPT !.islend = l]
           r3 == [r2 EXCEPT !.num = n]
<1>3. /\ r1 \in Book /\ r1.id = row.id /\ r1.isbn = row.isbn /\ r1.owner = row.owner
      /\ r1.borrower = w /\ r1.uid = row.uid
  BY <1>1 DEF Book
<1> HIDE DEF r1
<1>4. /\ r2 \in Book /\ r2.id = r1.id /\ r2.isbn = r1.isbn /\ r2.owner = r1.owner
      /\ r2.borrower = r1.borrower /\ r2.islend = l /\ r2.uid = r1.uid
  BY <1>2, <1>3 DEF Book
<1> HIDE DEF r2
<1>5. /\ r3 \in Book /\ r3.id = r2.id /\ r3.isbn = r2.isbn /\ r3.owner = r2.owner
      /\ r3.borrower = r2.borrower /\ r3.islend = r2.islend /\ r3.num = n
      /\ r3.uid = r2.uid
  BY <1>2, <1>4 DEF Book
<1> HIDE DEF r3
<1>6. r3 \in Row(b)
  BY <1>1, <1>2, <1>3, <1>4, <1>5 DEF Row
<1>7. SameBook(r3, row) /\ IsLent(r3, w, l, n) /\ r3.uid = row.uid
  BY <1>3, <1>4, <1>5 DEF SameBook, IsLent
<1>8. Loan(row, w, l, n) = r3
  BY DEF Loan, r1, r2, r3
<1> QED BY <1>6, <1>7, <1>8

LoanChanges(rows, bid, w, l, n) ==
  /\ IsTable(rows) /\ DOMAIN rows = DOMAIN BookBase
  /\ \A b \in DOMAIN BookBase :
       SameBook(rows[b], BookBase[b]) /\ rows[b].uid = BookBase[b].uid
  /\ bid \in DOMAIN BookBase => IsLent(rows[bid], w, l, n)
  /\ \A b \in DOMAIN BookBase : b # bid => rows[b] = BookBase[b]

LEMMA LoanTableType ==
  ASSUME IsTable(BookBase), NEW bid, NEW w, NEW l, NEW n, Loanable(w, l, n)
  PROVE  LoanChanges(LoanTable(bid, w, l, n), bid, w, l, n)
<1> DEFINE rows == LoanTable(bid, w, l, n)
<1>1. DOMAIN BookBase \subseteq Bids /\ \A b \in DOMAIN BookBase : BookBase[b] \in Row(b)
  BY DEF IsTable, IsBookMap
<1>2. /\ rows = [b \in DOMAIN BookBase |-> rows[b]]
      /\ \A b \in DOMAIN BookBase :
           rows[b] = IF b = bid THEN Loan(BookBase[b], w, l, n) ELSE BookBase[b]
  BY DEF LoanTable
<1> SUFFICES LoanChanges(rows, bid, w, l, n)
  OBVIOUS
<1> HIDE DEF rows
<1>3. ASSUME NEW b \in DOMAIN BookBase
      PROVE  /\ rows[b] \in Row(b) /\ SameBook(rows[b], BookBase[b])
             /\ rows[b].uid = BookBase[b].uid
             /\ b = bid => IsLent(rows[b], w, l, n)
             /\ b # bid => rows[b] = BookBase[b]
  <2>1. CASE b = bid
    <3>1. b \in Bids /\ BookBase[b] \in Row(b)
      BY <1>1
    <3>2. rows[b] = Loan(BookBase[b], w, l, n)
      BY <1>2, <2>1
    <3> DEFINE row == BookBase[b]
    <3>3. row \in Row(b)
      BY <3>1
    <3> HIDE DEF row
    <3>4. /\ Loan(row, w, l, n) \in Row(b)
          /\ SameBook(Loan(row, w, l, n), row)
          /\ Loan(row, w, l, n).uid = row.uid
          /\ IsLent(Loan(row, w, l, n), w, l, n)
      BY <3>1, <3>3, LoanType DEF Loanable
    <3> QED BY <2>1, <3>2, <3>4 DEF row
  <2>2. CASE b # bid
    BY <1>1, <1>2, <2>2 DEF SameBook
  <2> QED BY <2>1, <2>2
<1>4. \A b \in DOMAIN BookBase : rows[b] \in Book
  BY <1>1, <1>3, RowType
<1>5. IsTable(rows) /\ DOMAIN rows = DOMAIN BookBase
  BY <1>1, <1>2, <1>3, <1>4 DEF IsTable, IsBookMap
<1> QED BY <1>3, <1>5 DEF LoanChanges

LEMMA SubmapIsBookMap ==
  ASSUME NEW map, IsBookMap(map), NEW D \in SUBSET DOMAIN map
  PROVE  IsBookMap([b \in D |-> map[b]])
BY DEF IsBookMap

LEMMA SubmapIsTable ==
  ASSUME NEW map, IsTable(map), NEW D \in SUBSET DOMAIN map
  PROVE  IsTable([b \in D |-> map[b]])
BY DEF IsTable, IsBookMap

(* Whatever a race leaves of a map after an insertion is a part of it.     *)
LEMMA InsertedIsBookMap ==
  ASSUME NEW t, NEW map, IsBookMap(map), NEW m \in Inserted(t, map)
  PROVE  IsBookMap(m) /\ DOMAIN m \subseteq DOMAIN map
<1>1. CASE m = map
  BY <1>1
<1>2. CASE m # map
  <2>1. PICK D \in SUBSET DOMAIN map : m = [b \in D |-> map[b]]
    BY <1>2 DEF Inserted
  <2> QED BY <2>1, SubmapIsBookMap
<1> QED BY <1>1, <1>2

LEMMA LoadedIsBookMap ==
  ASSUME NEW rows, IsBookMap(rows), NEW ids \in SUBSET Bids
  PROVE  /\ IsBookMap(Loaded(rows, ids))
         /\ DOMAIN Loaded(rows, ids) = DOMAIN rows \cup ids
<1>1. \A b : Entry(rows, b) \in Book
  BY EntryType
<1> QED BY <1>1 DEF IsBookMap, Loaded

LEMMA BootedType ==
  ASSUME BookModelTypeOK, NEW how
  PROVE  /\ IsBookMap(BootedModel(how))
         /\ DOMAIN BootedModel(how) \subseteq DOMAIN BookBase \cup book_config
<1>1. IsBookMap(BookBase) /\ book_config \in SUBSET Bids
  BY DEF BookModelTypeOK, IsTable
<1>2. IsBookMap(Loaded(BookBase, {})) /\ DOMAIN Loaded(BookBase, {}) = DOMAIN BookBase
  BY <1>1, LoadedIsBookMap
<1>3. /\ IsBookMap(Loaded(BookBase, book_config))
      /\ DOMAIN Loaded(BookBase, book_config) = DOMAIN BookBase \cup book_config
  BY <1>1, LoadedIsBookMap
<1>4. IsBookMap(EmptyMap) /\ DOMAIN EmptyMap = {}
  BY BlankType DEF EmptyMap
<1> QED BY <1>2, <1>3, <1>4 DEF BootedModel

-----------------------------------------------------------------------------
(* Connections.                                                            *)

LEMMA FetchingIsFinite ==
  IsFiniteSet(Fetching) /\ Cardinality(Fetching) \in Nat
<1>1. IsFiniteSet(Threads) /\ Fetching \in SUBSET Threads
  BY ProcessAssumption DEF Fetching
<1> QED BY <1>1, FS_Subset, FS_CardinalityType

(* A step that takes one thread to another label, and opens or closes the  *)
(* connections that this thread opens or closes there, counts them right.  *)
LEMMA ConnsCounted ==
  ASSUME NEW Labels, pc \in [Threads -> Labels],
         conns \in 0..MaxConn, ConnsAccounted,
         NEW t \in Threads, NEW label, Goto(t, label),
         \/ /\ pc[t] \notin Fetches /\ label \notin Fetches
            /\ conns' = conns \/ (CanConnect /\ conns' = conns + 1)
         \/ /\ pc[t] \notin Fetches /\ label \in Fetches
            /\ CanConnect /\ conns' = conns + 1
         \/ /\ pc[t] \in Fetches /\ label \notin Fetches
            /\ conns' = conns - 1
  PROVE  conns' \in 0..MaxConn /\ ConnsAccounted'
<1>1. MaxConn \in Nat /\ conns \in Int
  <2>1. MaxConn \in Nat
    BY ProcessAssumption
  <2> QED BY <2>1
<1>2. \A s \in Threads : pc'[s] = IF s = t THEN label ELSE pc[s]
  BY DEF Goto
<1>3. IsFiniteSet(Fetching) /\ Cardinality(Fetching) \in Nat
  BY FetchingIsFinite
<1>4. CASE pc[t] \notin Fetches /\ label \notin Fetches
  <2>1. Fetching' = Fetching
    BY <1>2, <1>4 DEF Fetching
  <2> QED BY <1>1, <1>3, <1>4, <2>1 DEF ConnsAccounted, CanConnect
<1>5. CASE pc[t] \notin Fetches /\ label \in Fetches
  <2>1. Fetching' = Fetching \cup {t} /\ t \notin Fetching
    BY <1>2, <1>5 DEF Fetching
  <2>2. Cardinality(Fetching \cup {t}) = Cardinality(Fetching) + 1
    BY <1>3, <2>1, FS_AddElement
  <2> QED BY <1>1, <1>3, <1>5, <2>1, <2>2 DEF ConnsAccounted, CanConnect
<1>6. CASE pc[t] \in Fetches /\ label \notin Fetches
  <2>1. Fetching' = Fetching \ {t} /\ t \in Fetching
    BY <1>2, <1>6 DEF Fetching
  <2>2. Cardinality(Fetching \ {t}) = Cardinality(Fetching) - 1
    BY <1>3, <2>1, FS_RemoveElement
  <2>3. Cardinality(Fetching \ {t}) \in Nat
    BY <1>3, FS_RemoveElement, FS_CardinalityType
  <2> QED BY <1>1, <1>3, <1>6, <2>1, <2>2, <2>3 DEF ConnsAccounted
<1> QED BY <1>4, <1>5, <1>6

(* No thread is left when the process ends, and none has begun when it     *)
(* starts, with at most one connection leaked by each Load() of main().    *)
LEMMA NoThreadsCounted ==
  ASSUME NoThreads, conns' \in 0..MaxConn
  PROVE  ConnsAccounted'
<1>1. Fetching' = {}
  BY DEF NoThreads, Fetching, Fetches
<1> QED BY <1>1, FS_EmptySet DEF ConnsAccounted

LEMMA BootCounted ==
  ASSUME NEW book, NEW usr, NEW comm, Boot(book, usr, comm)
  PROVE  conns' \in 0..MaxConn /\ ConnsAccounted'
<1> DEFINE leaking == {i \in 1..3 : <<book, usr, comm>>[i] = "noquery"}
<1>1. IsFiniteSet(1..3) /\ Cardinality(1..3) = 3
  <2>1. \A a, b \in Int : /\ IsFiniteSet(a..b)
                          /\ Cardinality(a..b) = IF a > b THEN 0 ELSE b - a + 1
    BY FS_Interval
  <2>2. 1 \in Int /\ 3 \in Int /\ ~ (1 > 3) /\ 3 - 1 + 1 = 3
    OBVIOUS
  <2> QED BY <2>1, <2>2
<1>2. leaking \in SUBSET (1..3)
  OBVIOUS
<1>3. Cardinality(leaking) \in Nat /\ Cardinality(leaking) <= 3
  BY <1>1, <1>2, FS_Subset, FS_CardinalityType
<1>4. conns' = Cardinality(leaking)
  BY DEF Boot
<1> HIDE DEF leaking
<1>5. MaxConn \in Nat /\ MaxConn >= 3
  BY ProcessAssumption
<1>6. conns' \in 0..MaxConn
  BY <1>3, <1>4, <1>5
<1> QED BY <1>6, NoThreadsCounted DEF Boot

-----------------------------------------------------------------------------
(* The users: no request changes them.                                     *)
LEMMA UserTypes ==
  ASSUME UserModelTypeOK
  PROVE  /\ \A u : GetUser(u) \in User
         /\ \A how : UserModelBooted(how) => UserModelTypeOK'
         /\ UserModelGone => UserModelTypeOK'
         /\ UNCHANGED userVars => UserModelTypeOK'
<1>1. IsUserMap(NoUsers) /\ BlankUser \in User
  BY DEF IsUserMap, NoUsers, BlankUser, User
<1>2. IsUserTable(user) /\ IsUserMap(user) /\ IsUserMap(umodel)
  BY DEF UserModelTypeOK, IsUserTable
<1>3. ASSUME NEW u PROVE GetUser(u) \in User
  BY <1>1, <1>2 DEF GetUser, IsUserMap
<1>4. ASSUME NEW how, UserModelBooted(how) PROVE UserModelTypeOK'
  BY <1>1, <1>2, <1>4 DEF UserModelBooted, UserModelTypeOK, IsUserTable, IsUserMap
<1>5. ASSUME UserModelGone PROVE UserModelTypeOK'
  BY <1>1, <1>2, <1>5 DEF UserModelGone, UserModelTypeOK, IsUserTable, IsUserMap
<1>6. ASSUME UNCHANGED userVars PROVE UserModelTypeOK'
  BY <1>2, <1>6 DEF userVars, UserModelTypeOK, IsUserTable, IsUserMap
<1> QED BY <1>3, <1>4, <1>5, <1>6

-----------------------------------------------------------------------------
(* BookModel::Load().                                                      *)

(* The map, and what a Load() is about to put into it, has no key that is  *)
(* neither in the table nor in the config file.                            *)
KeysKnown ==
  /\ DOMAIN model \subseteq DOMAIN BookBase \cup book_config
  /\ \A t \in Threads : DOMAIN result[t] \subseteq DOMAIN BookBase
  /\ \A t \in Threads : lines[t] \subseteq book_config

(* One more row of the table disturbs no map, and no other row.            *)
LEMMA OneMoreBook ==
  ASSUME BookModelTypeOK, KeysKnown,
         NEW b \in Bids, b \notin DOMAIN BookBase, NEW row \in Row(b),
         BookBase' = Put(BookBase, b, row),
         UNCHANGED <<book_config, model, result, lines>>
  PROVE  /\ BookModelTypeOK' /\ KeysKnown'
         /\ DOMAIN BookBase' = DOMAIN BookBase \cup {b} /\ BookBase'[b] = row
         /\ \A c \in DOMAIN BookBase : BookBase'[c] = BookBase[c]
<1>1. IsTable(BookBase) /\ IsBookMap(BookBase) /\ row \in Book
  BY RowType DEF BookModelTypeOK, IsTable
<1>2. /\ IsTable(BookBase') /\ DOMAIN BookBase' = DOMAIN BookBase \cup {b}
      /\ BookBase'[b] = row
      /\ \A c \in DOMAIN BookBase : BookBase'[c] = BookBase[c]
  <2> DEFINE put == Put(BookBase, b, row)
  <2>1. IsTable(put) /\ DOMAIN put = DOMAIN BookBase \cup {b}
    BY <1>1, PutIsTable, PutIsBookMap
  <2>2. put[b] = row /\ \A c \in DOMAIN BookBase : c # b => put[c] = BookBase[c]
    BY DEF Put
  <2>3. BookBase' = put
    OBVIOUS
  <2> HIDE DEF put
  <2> QED BY <2>1, <2>2, <2>3
<1>3. IsBookMap(model') /\ book_config' \subseteq Bids
      /\ DOMAIN result' = Threads /\ (\A t \in Threads : IsTable(result'[t]))
      /\ lines' \in [Threads -> SUBSET Bids]
  BY DEF BookModelTypeOK
<1>4. BookModelTypeOK'
  BY <1>2, <1>3 DEF BookModelTypeOK
<1>5. KeysKnown'
  BY <1>2 DEF KeysKnown
<1> QED BY <1>2, <1>4, <1>5

LEMMA LoadFetchType ==
  ASSUME BookModelTypeOK, KeysKnown,
         NEW t \in Threads, NEW b \in Bids, LoadFetch(t, b)
  PROVE  BookModelTypeOK' /\ KeysKnown'
<1>1. IsBookMap(model) /\ IsTable(result[t]) /\ b \in DOMAIN result[t]
  BY DEF BookModelTypeOK, LoadFetch
<1>2. result[t][b] \in Book
  BY <1>1, RowType DEF IsTable
<1>3. /\ IsBookMap(Put(model, b, result[t][b]))
      /\ DOMAIN Put(model, b, result[t][b]) = DOMAIN model \cup {b}
  BY <1>1, <1>2, PutIsBookMap
<1>4. IsBookMap(model') /\ DOMAIN model' \subseteq DOMAIN model \cup {b}
  BY <1>3, InsertedIsBookMap DEF LoadFetch
<1> DEFINE rest == [c \in DOMAIN result[t] \ {b} |-> result[t][c]]
<1>5. IsTable(rest) /\ DOMAIN rest \subseteq DOMAIN result[t]
  BY <1>1, SubmapIsTable
<1>6. result' = [result EXCEPT ![t] = rest]
  BY DEF LoadFetch
<1> HIDE DEF rest
<1>7. DOMAIN result' = Threads /\ \A s \in Threads : IsTable(result'[s])
  BY <1>5, <1>6 DEF BookModelTypeOK
<1>8. \A s \in Threads : DOMAIN result'[s] \subseteq DOMAIN BookBase
  BY <1>5, <1>6 DEF BookModelTypeOK, KeysKnown
<1>9. UNCHANGED <<BookBase, book_config, lines>>
  BY DEF LoadFetch
<1>10. BookModelTypeOK'
  BY <1>4, <1>7, <1>9 DEF BookModelTypeOK, IsTable, IsBookMap
<1>11. KeysKnown'
  BY <1>1, <1>4, <1>8, <1>9 DEF KeysKnown
<1> QED BY <1>10, <1>11

LEMMA LoadConfigLineType ==
  ASSUME BookModelTypeOK, KeysKnown,
         NEW t \in Threads, NEW b \in Bids, LoadConfigLine(t, b)
  PROVE  BookModelTypeOK' /\ KeysKnown'
<1>1. IsBookMap(model) /\ b \in lines[t]
  BY DEF BookModelTypeOK, LoadConfigLine
<1>2. Entry(model, b) \in Book
  BY <1>1, EntryType
<1>3. /\ IsBookMap(Put(model, b, Entry(model, b)))
      /\ DOMAIN Put(model, b, Entry(model, b)) = DOMAIN model \cup {b}
  BY <1>1, <1>2, PutIsBookMap
<1>4. IsBookMap(model') /\ DOMAIN model' \subseteq DOMAIN model \cup {b}
  BY <1>3, InsertedIsBookMap DEF LoadConfigLine
<1>5. lines' = [lines EXCEPT ![t] = lines[t] \ {b}]
  BY DEF LoadConfigLine
<1>6. UNCHANGED <<BookBase, book_config, result>>
  BY DEF LoadConfigLine
<1>7. BookModelTypeOK'
  BY <1>4, <1>5, <1>6 DEF BookModelTypeOK, IsTable, IsBookMap
<1>8. KeysKnown'
  BY <1>1, <1>4, <1>5, <1>6 DEF BookModelTypeOK, KeysKnown
<1> QED BY <1>7, <1>8

(* Every step of Load() keeps the types, the keys and the count, and takes *)
(* its thread to another step of Load() or to the end of its handler.      *)
LEMMA LoadKeeps ==
  ASSUME NEW Labels, pc \in [Threads -> Labels],
         {"idle", "clear", "connect", "fetch", "config"} \subseteq Labels,
         conns \in 0..MaxConn, ConnsAccounted,
         BookModelTypeOK, KeysKnown,
         NEW t \in Threads, Load(t)
  PROVE  /\ BookModelTypeOK' /\ KeysKnown'
         /\ conns' \in 0..MaxConn /\ ConnsAccounted'
         /\ pc' \in [Threads -> Labels]
         /\ pc[t] \in {"clear", "connect", "fetch", "config"}
         /\ pc'[t] \in {"idle", "connect", "fetch", "config"}
         /\ \A s \in Threads \ {t} : pc'[s] = pc[s]
         /\ UNCHANGED <<server, BookBase, book_config>>
<1>1. CASE LoadClear(t)
  <2>1. IsBookMap(model') /\ DOMAIN model' = {}
    BY <1>1, BlankType DEF LoadClear, EmptyMap
  <2>2. pc[t] = "clear" /\ Goto(t, "connect")
    BY <1>1 DEF LoadClear
  <2>3. UNCHANGED <<server, conns, BookBase, book_config, result, lines>>
    BY <1>1 DEF LoadClear
  <2>4. BookModelTypeOK' /\ KeysKnown'
    BY <2>1, <2>3 DEF BookModelTypeOK, IsTable, IsBookMap, KeysKnown
  <2>5. conns' \in 0..MaxConn /\ ConnsAccounted'
    BY <2>2, <2>3, ConnsCounted DEF Fetches
  <2> QED BY <2>2, <2>3, <2>4, <2>5 DEF Goto
<1>2. CASE LoadConnectFails(t)
  <2>1. pc[t] = "connect" /\ Goto(t, "idle") /\ UNCHANGED <<server, conns, bookVars>>
    BY <1>2 DEF LoadConnectFails
  <2>2. conns' \in 0..MaxConn /\ ConnsAccounted'
    BY <2>1, ConnsCounted DEF Fetches
  <2>3. BookModelTypeOK' /\ KeysKnown'
    BY <2>1 DEF bookVars, BookModelTypeOK, IsTable, IsBookMap, KeysKnown
  <2> QED BY <2>1, <2>2, <2>3 DEF Goto, bookVars
<1>3. CASE LoadSelectFails(t)
  <2>1. /\ pc[t] = "connect" /\ Goto(t, "idle") /\ UNCHANGED <<server, bookVars>>
        /\ CanConnect /\ conns' = conns + 1
    BY <1>3 DEF LoadSelectFails, Leak
  <2>2. conns' \in 0..MaxConn /\ ConnsAccounted'
    BY <2>1, ConnsCounted DEF Fetches
  <2>3. BookModelTypeOK' /\ KeysKnown'
    BY <2>1 DEF bookVars, BookModelTypeOK, IsTable, IsBookMap, KeysKnown
  <2> QED BY <2>1, <2>2, <2>3 DEF Goto, bookVars
<1>4. CASE LoadSelect(t)
  <2>1. /\ pc[t] = "connect" /\ Goto(t, "fetch")
        /\ CanConnect /\ conns' = conns + 1
        /\ UNCHANGED <<server, BookBase, book_config, model, lines>>
        /\ result' = [result EXCEPT ![t] = BookBase]
    BY <1>4 DEF LoadSelect
  <2>2. conns' \in 0..MaxConn /\ ConnsAccounted'
    BY <2>1, ConnsCounted DEF Fetches
  <2>3. BookModelTypeOK'
    BY <2>1 DEF BookModelTypeOK, IsTable, IsBookMap
  <2>4. KeysKnown'
    BY <2>1 DEF BookModelTypeOK, KeysKnown
  <2> QED BY <2>1, <2>2, <2>3, <2>4 DEF Goto
<1>5. CASE \E b \in Bids : LoadFetch(t, b)
  <2>1. PICK b \in Bids : LoadFetch(t, b)
    BY <1>5
  <2>2. BookModelTypeOK' /\ KeysKnown'
    BY <2>1, LoadFetchType
  <2>3. pc[t] = "fetch" /\ UNCHANGED <<server, pc, conns, BookBase, book_config>>
    BY <2>1 DEF LoadFetch, processVars
  <2> QED BY <2>2, <2>3 DEF ConnsAccounted, Fetching
<1>6. CASE LoadClose(t)
  <2>1. /\ pc[t] = "fetch" /\ conns' = conns - 1
        /\ UNCHANGED <<server, BookBase, book_config, model, result>>
        /\ \/ Goto(t, "config") /\ lines' = [lines EXCEPT ![t] = book_config]
           \/ Goto(t, "idle") /\ UNCHANGED lines
    BY <1>6 DEF LoadClose
  <2>2. conns' \in 0..MaxConn /\ ConnsAccounted'
    BY <2>1, ConnsCounted DEF Fetches
  <2>3. BookModelTypeOK'
    BY <2>1 DEF BookModelTypeOK, IsTable, IsBookMap
  <2>4. KeysKnown'
    BY <2>1 DEF BookModelTypeOK, KeysKnown
  <2> QED BY <2>1, <2>2, <2>3, <2>4 DEF Goto
<1>7. CASE \E b \in Bids : LoadConfigLine(t, b)
  <2>1. PICK b \in Bids : LoadConfigLine(t, b)
    BY <1>7
  <2>2. BookModelTypeOK' /\ KeysKnown'
    BY <2>1, LoadConfigLineType
  <2>3. pc[t] = "config" /\ UNCHANGED <<server, pc, conns, BookBase, book_config>>
    BY <2>1 DEF LoadConfigLine, processVars
  <2> QED BY <2>2, <2>3 DEF ConnsAccounted, Fetching
<1>8. CASE LoadReturn(t)
  <2>1. pc[t] = "config" /\ Goto(t, "idle") /\ UNCHANGED <<server, conns, bookVars>>
    BY <1>8 DEF LoadReturn
  <2>2. conns' \in 0..MaxConn /\ ConnsAccounted'
    BY <2>1, ConnsCounted DEF Fetches
  <2>3. BookModelTypeOK' /\ KeysKnown'
    BY <2>1 DEF bookVars, BookModelTypeOK, IsTable, IsBookMap, KeysKnown
  <2> QED BY <2>1, <2>2, <2>3 DEF Goto, bookVars
<1> QED BY <1>1, <1>2, <1>3, <1>4, <1>5, <1>6, <1>7, <1>8 DEF Load

-----------------------------------------------------------------------------
(* A Load() that is alone.                                                 *)

OneThread == \A s, t \in Threads : s = t

(* With one thread there are no races.                                     *)
LEMMA Alone ==
  ASSUME OneThread, NEW t \in Threads
  PROVE  /\ \A b : GetBook(t, b) = {Entry(model, b)}
         /\ \A map : Inserted(t, map) = {map}
<1>1. Threads \ {t} = {}
  BY DEF OneThread
<1>2. ~ Restructured(t)
  BY <1>1 DEF Restructured
<1>3. ASSUME NEW b PROVE GetBook(t, b) = {Entry(model, b)}
  BY <1>1, <1>2 DEF GetBook
<1>4. ASSUME NEW map PROVE Inserted(t, map) = {map}
  BY <1>2 DEF Inserted
<1> QED BY <1>3, <1>4

PartOf(map, rows) == \A b \in DOMAIN map : b \in DOMAIN rows /\ map[b] = rows[b]

(* What the Load() of the only thread has put into the map so far.         *)
LoadSoFar(t) ==
  /\ pc[t] = "connect" => model = EmptyMap
  /\ pc[t] = "fetch" =>
       /\ PartOf(model, BookBase) /\ PartOf(result[t], BookBase)
       /\ DOMAIN BookBase \subseteq DOMAIN model \cup DOMAIN result[t]
  /\ pc[t] = "config" => model = Loaded(BookBase, book_config \ lines[t])

(* A map all of whose entries are rows, and that lacks none, is the table. *)
LEMMA PartIsTable ==
  ASSUME BookModelTypeOK, PartOf(model, BookBase), DOMAIN BookBase \subseteq DOMAIN model
  PROVE  model = BookBase
<1>1. model \in [DOMAIN model -> Book] /\ BookBase \in [DOMAIN BookBase -> Book]
  BY DEF BookModelTypeOK, IsTable, IsBookMap
<1>2. DOMAIN model = DOMAIN BookBase /\ \A b \in DOMAIN BookBase : model[b] = BookBase[b]
  BY DEF PartOf
<1> QED BY <1>1, <1>2

(* Its end, and that the table does not change while it runs: so it ends   *)
(* with all rows and lines, or with all rows if the config file could not  *)
(* be opened, or with nothing if there was no connection or no result.     *)
LEMMA LoadAlone ==
  ASSUME NEW Labels, pc \in [Threads -> Labels],
         BookModelTypeOK, KeysKnown, OneThread,
         NEW t \in Threads, LoadSoFar(t), Load(t)
  PROVE  /\ LoadSoFar(t)'
         /\ pc'[t] = "idle" =>
              \/ model' = Loaded(BookBase, book_config)'
              \/ model' = BookBase' /\ Faults
              \/ model' = EmptyMap /\ (Faults \/ conns' >= MaxConn)
<1>1. \A label : Goto(t, label) => pc'[t] = label
  BY DEF Goto
<1>2. BookBase \in [DOMAIN BookBase -> Book] /\ IsBookMap(BookBase) /\ IsBookMap(model)
  BY DEF BookModelTypeOK, IsTable, IsBookMap
<1>3. Loaded(BookBase, {}) = BookBase
  BY <1>2 DEF Loaded, Entry
<1>4. CASE LoadClear(t)
  <2>1. model' = EmptyMap /\ pc'[t] = "connect"
    BY <1>1, <1>4 DEF LoadClear
  <2> QED BY <2>1 DEF LoadSoFar
<1>5. CASE LoadConnectFails(t) \/ LoadSelectFails(t)
  <2>1. /\ pc[t] = "connect" /\ pc'[t] = "idle" /\ UNCHANGED bookVars
        /\ Faults \/ conns' >= MaxConn
    BY <1>1, <1>5 DEF LoadConnectFails, LoadSelectFails, ConnectFails
  <2>2. model' = EmptyMap
    BY <2>1 DEF LoadSoFar, bookVars
  <2> QED BY <2>1, <2>2 DEF LoadSoFar
<1>6. CASE LoadSelect(t)
  <2>1. /\ pc[t] = "connect" /\ pc'[t] = "fetch" /\ UNCHANGED <<BookBase, model>>
        /\ result'[t] = BookBase
    BY <1>1, <1>6 DEF LoadSelect, BookModelTypeOK
  <2>2. model = EmptyMap /\ DOMAIN EmptyMap = {}
    BY <2>1 DEF LoadSoFar, EmptyMap
  <2>3. PartOf(model, BookBase)' /\ PartOf(result[t], BookBase)'
        /\ (DOMAIN BookBase \subseteq DOMAIN model \cup DOMAIN result[t])'
    BY <2>1, <2>2 DEF PartOf
  <2> QED BY <2>1, <2>3 DEF LoadSoFar
<1>7. CASE \E b \in Bids : LoadFetch(t, b)
  <2>1. PICK b \in Bids : LoadFetch(t, b)
    BY <1>7
  <2>2. /\ pc[t] = "fetch" /\ UNCHANGED <<pc, BookBase>>
        /\ b \in DOMAIN result[t]
        /\ model' \in Inserted(t, Put(model, b, result[t][b]))
        /\ result' = [result EXCEPT ![t] = [c \in DOMAIN result[t] \ {b} |-> result[t][c]]]
    BY <2>1 DEF LoadFetch, processVars
  <2>3. model' = Put(model, b, result[t][b])
    BY <2>2, Alone
  <2>4. result'[t] = [c \in DOMAIN result[t] \ {b} |-> result[t][c]]
    BY <2>2 DEF BookModelTypeOK
  <2>5. PartOf(model, BookBase) /\ PartOf(result[t], BookBase)
        /\ DOMAIN BookBase \subseteq DOMAIN model \cup DOMAIN result[t]
    BY <2>2 DEF LoadSoFar
  <2>6. PartOf(model', BookBase)
    BY <2>2, <2>3, <2>5 DEF PartOf, Put
  <2>7. PartOf(result'[t], BookBase)
    BY <2>4, <2>5 DEF PartOf
  <2>8. DOMAIN BookBase \subseteq DOMAIN model' \cup DOMAIN result'[t]
    BY <2>3, <2>4, <2>5 DEF Put
  <2>9. PartOf(model, BookBase)' /\ PartOf(result[t], BookBase)'
        /\ (DOMAIN BookBase \subseteq DOMAIN model \cup DOMAIN result[t])'
    BY <2>2, <2>6, <2>7, <2>8 DEF PartOf
  <2> QED BY <2>2, <2>9 DEF LoadSoFar
<1>8. CASE LoadClose(t)
  <2>1. /\ pc[t] = "fetch" /\ UNCHANGED <<BookBase, book_config, model>>
        /\ DOMAIN result[t] = {}
        /\ \/ pc'[t] = "config" /\ lines'[t] = book_config
           \/ pc'[t] = "idle" /\ Faults
    BY <1>1, <1>8 DEF LoadClose, BookModelTypeOK
  <2>2. model = BookBase
    BY <2>1, PartIsTable DEF LoadSoFar
  <2>3. book_config \ book_config = {}
    OBVIOUS
  <2>4. pc'[t] = "config" => model' = Loaded(BookBase, book_config \ lines[t])'
    BY <1>3, <2>1, <2>2, <2>3
  <2>5. pc'[t] = "idle" => model' = BookBase' /\ Faults
    BY <2>1, <2>2
  <2> QED BY <2>1, <2>4, <2>5 DEF LoadSoFar
<1>9. CASE \E b \in Bids : LoadConfigLine(t, b)
  <2>1. PICK b \in Bids : LoadConfigLine(t, b)
    BY <1>9
  <2>2. /\ pc[t] = "config" /\ UNCHANGED <<pc, BookBase, book_config>>
        /\ b \in lines[t]
        /\ model' \in Inserted(t, Put(model, b, Entry(model, b)))
        /\ lines' = [lines EXCEPT ![t] = lines[t] \ {b}]
    BY <2>1 DEF LoadConfigLine, processVars
  <2>3. model' = Put(model, b, Entry(model, b))
    BY <2>2, Alone
  <2>4. lines'[t] = lines[t] \ {b} /\ lines[t] \subseteq book_config
    BY <2>2 DEF BookModelTypeOK, KeysKnown
  <2> DEFINE read == book_config \ lines[t]
  <2>5. model = Loaded(BookBase, read)
    BY <2>2 DEF LoadSoFar
  <2>6. book_config \ lines'[t] = read \cup {b}
    BY <2>2, <2>4
  <2> HIDE DEF read
  <2>7. Put(model, b, Entry(model, b)) = Loaded(BookBase, read \cup {b})
    BY <2>5 DEF Put, Entry, Loaded
  <2>8. model' = Loaded(BookBase, book_config \ lines[t])'
    BY <2>2, <2>3, <2>6, <2>7
  <2> QED BY <2>2, <2>8 DEF LoadSoFar
<1>10. CASE LoadReturn(t)
  <2>1. /\ pc[t] = "config" /\ pc'[t] = "idle" /\ lines[t] = {} /\ UNCHANGED bookVars
    BY <1>1, <1>10 DEF LoadReturn
  <2>2. book_config \ lines[t] = book_config
    BY <2>1
  <2>3. model' = Loaded(BookBase, book_config)'
    BY <2>1, <2>2 DEF LoadSoFar, bookVars
  <2> QED BY <2>1, <2>3 DEF LoadSoFar
<1> QED BY <1>4, <1>5, <1>6, <1>7, <1>8, <1>9, <1>10 DEF Load

-----------------------------------------------------------------------------
(* UserModel: maps and tables.                                             *)

LEMMA BlankUserType ==
  /\ BlankUser \in User
  /\ IsUserTable(NoUsers) /\ IsUserMap(NoUsers) /\ DOMAIN NoUsers = {}
BY DEF BlankUser, User, IsUserTable, IsUserMap, NoUsers

LEMMA PutUserType ==
  ASSUME NEW map, IsUserMap(map), NEW u \in Uids, NEW entry \in User
  PROVE  /\ IsUserMap(PutUser(map, u, entry))
         /\ DOMAIN PutUser(map, u, entry) = DOMAIN map \cup {u}
         /\ PutUser(map, u, entry)[u] = entry
         /\ \A v \in DOMAIN map : v # u => PutUser(map, u, entry)[v] = map[v]
BY DEF IsUserMap, PutUser

LEMMA UserEntryType ==
  ASSUME NEW map, IsUserMap(map), NEW u
  PROVE  UserEntry(map, u) \in User
BY BlankUserType DEF IsUserMap, UserEntry

(* Whatever a race leaves of a map after an insertion is a part of it.     *)
LEMMA InsertedUserType ==
  ASSUME NEW t, NEW map, IsUserMap(map), NEW m \in InsertedUser(t, map)
  PROVE  /\ IsUserMap(m) /\ DOMAIN m \subseteq DOMAIN map
         /\ \A u \in DOMAIN m : m[u] = map[u]
<1>1. CASE m = map
  BY <1>1
<1>2. CASE m # map
  <2>1. PICK D \in SUBSET DOMAIN map : m = [u \in D |-> map[u]]
    BY <1>2 DEF InsertedUser
  <2> QED BY <2>1 DEF IsUserMap
<1> QED BY <1>1, <1>2

-----------------------------------------------------------------------------
(* UserModel::Load().                                                      *)

(* The map, and what a Load() is about to put into it, has no key that is  *)
(* neither in the table nor in the config file.                            *)
UserKeysKnown ==
  /\ DOMAIN umodel \subseteq DOMAIN user \cup user_config
  /\ \A t \in Threads : ulines[t] \subseteq user_config

(* A row, once selected, is the row of the table for as long as it is      *)
(* being fetched: no handler changes the row of a user.                    *)
RowsCurrent ==
  \A t \in Threads : \A u \in DOMAIN uresult[t] :
    u \in DOMAIN user /\ uresult[t][u] = user[u]

(* All that a step of a Load() may rely on, and keeps.                     *)
UsersKnown == UserLoadingTypeOK /\ UserKeysKnown /\ RowsCurrent /\ MapNamesUsers

LEMMA UsersKnownStays ==
  ASSUME UsersKnown, UNCHANGED <<userVars, userLoadVars>>
  PROVE  UsersKnown'
<1>1. UserLoadingTypeOK'
  BY DEF UsersKnown, userVars, userLoadVars, UserLoadingTypeOK, UserModelTypeOK,
         IsUserTable, IsUserMap
<1>2. UserKeysKnown' /\ RowsCurrent' /\ MapNamesUsers'
  BY DEF UsersKnown, userVars, userLoadVars, UserKeysKnown, RowsCurrent,
         MapNamesUsers
<1> QED BY <1>1, <1>2 DEF UsersKnown

(* One more user keeps all of it, and every other row.                     *)
LEMMA OneMoreUser ==
  ASSUME UsersKnown, NEW uid \in Uids, uid \notin DOMAIN user,
         NEW row \in User, row.uid = uid, row.uname # "", row.passwd # "",
         user' = PutUser(user, uid, row), UNCHANGED <<umodel, userLoadVars>>
  PROVE  /\ UsersKnown'
         /\ DOMAIN user' = DOMAIN user \cup {uid} /\ user'[uid] = row
         /\ \A u \in DOMAIN user : user'[u] = user[u]
<1>1. IsUserTable(user) /\ IsUserMap(user)
  BY DEF UsersKnown, UserLoadingTypeOK, UserModelTypeOK, IsUserTable
<1>2. /\ IsUserMap(user') /\ DOMAIN user' = DOMAIN user \cup {uid}
      /\ user'[uid] = row
      /\ \A u \in DOMAIN user : user'[u] = user[u]
  <2> DEFINE put == PutUser(user, uid, row)
  <2>1. /\ IsUserMap(put) /\ DOMAIN put = DOMAIN user \cup {uid} /\ put[uid] = row
        /\ \A u \in DOMAIN user : u # uid => put[u] = user[u]
    BY <1>1 DEF IsUserMap, PutUser
  <2>2. user' = put
    OBVIOUS
  <2> HIDE DEF put
  <2> QED BY <2>1, <2>2
<1>3. IsUserTable(user')
  BY <1>1, <1>2 DEF IsUserTable
<1>4. UserLoadingTypeOK'
  <2>1. IsUserMap(umodel') /\ user_config' \subseteq Uids
        /\ ulines' \in [Threads -> SUBSET Uids]
    BY DEF UsersKnown, UserLoadingTypeOK, UserModelTypeOK, userLoadVars
  <2>2. DOMAIN uresult' = Threads /\ \A s \in Threads : IsUserTable(uresult'[s])
    BY DEF UsersKnown, UserLoadingTypeOK, userLoadVars
  <2> QED BY <1>3, <2>1, <2>2 DEF UserLoadingTypeOK, UserModelTypeOK
<1>5. UserKeysKnown'
  BY <1>2 DEF UsersKnown, UserKeysKnown, userLoadVars
<1>6. RowsCurrent'
  BY <1>2 DEF UsersKnown, RowsCurrent, userLoadVars
<1>7. MapNamesUsers'
  BY <1>2 DEF UsersKnown, MapNamesUsers
<1> QED BY <1>2, <1>4, <1>5, <1>6, <1>7 DEF UsersKnown

LEMMA LoadUsersSelectKeeps ==
  ASSUME UsersKnown, NEW t \in Threads, LoadUsersSelect(t)
  PROVE  UsersKnown'
<1>1. /\ UNCHANGED <<user, umodel, user_config, ulines>>
      /\ uresult' = [uresult EXCEPT ![t] = user]
  BY DEF LoadUsersSelect, userVars
<1>2. IsUserTable(user) /\ DOMAIN uresult = Threads
  BY DEF UsersKnown, UserLoadingTypeOK, UserModelTypeOK
<1>3. DOMAIN uresult' = Threads
      /\ \A s \in Threads : uresult'[s] = user \/ uresult'[s] = uresult[s]
  BY <1>1, <1>2
<1>4. UserLoadingTypeOK'
  <2>1. \A s \in Threads : IsUserTable(uresult'[s])
    BY <1>2, <1>3 DEF UsersKnown, UserLoadingTypeOK
  <2> QED BY <1>1, <1>3, <2>1
          DEF UsersKnown, UserLoadingTypeOK, UserModelTypeOK, IsUserTable, IsUserMap
<1>5. RowsCurrent'
  BY <1>1, <1>3 DEF UsersKnown, RowsCurrent
<1>6. UserKeysKnown' /\ MapNamesUsers'
  BY <1>1 DEF UsersKnown, UserKeysKnown, MapNamesUsers
<1> QED BY <1>4, <1>5, <1>6 DEF UsersKnown

LEMMA LoadUsersFetchKeeps ==
  ASSUME UsersKnown, NEW t \in Threads, NEW u \in Uids, LoadUsersFetch(t, u)
  PROVE  UsersKnown'
<1> DEFINE rest == [v \in DOMAIN uresult[t] \ {u} |-> uresult[t][v]]
           put == PutUser(umodel, u, uresult[t][u])
<1>1. /\ UNCHANGED <<user, user_config, ulines>>
      /\ uresult' = [uresult EXCEPT ![t] = rest]
      /\ umodel' \in InsertedUser(t, put)
      /\ u \in DOMAIN uresult[t]
  BY DEF LoadUsersFetch
<1>2. /\ IsUserMap(umodel) /\ IsUserTable(uresult[t]) /\ DOMAIN uresult = Threads
      /\ u \in DOMAIN user /\ uresult[t][u] = user[u]
  BY <1>1 DEF UsersKnown, UserLoadingTypeOK, UserModelTypeOK, RowsCurrent
<1>3. uresult[t][u] \in User
  BY <1>1, <1>2 DEF IsUserTable, IsUserMap
<1>4. /\ IsUserMap(put) /\ DOMAIN put = DOMAIN umodel \cup {u}
      /\ put[u] = user[u]
      /\ \A v \in DOMAIN umodel : v # u => put[v] = umodel[v]
  BY <1>2, <1>3, PutUserType
<1>5. IsUserTable(rest) /\ DOMAIN rest \subseteq DOMAIN uresult[t]
      /\ \A v \in DOMAIN rest : rest[v] = uresult[t][v]
  BY <1>2 DEF IsUserTable, IsUserMap
<1> HIDE DEF rest, put
<1>6. /\ IsUserMap(umodel') /\ DOMAIN umodel' \subseteq DOMAIN umodel \cup {u}
      /\ \A v \in DOMAIN umodel' : umodel'[v] = put[v]
  BY <1>1, <1>4, InsertedUserType
<1>7. DOMAIN uresult' = Threads /\ uresult'[t] = rest
      /\ \A s \in Threads \ {t} : uresult'[s] = uresult[s]
  BY <1>1, <1>2
<1>8. UserLoadingTypeOK'
  <2>1. \A s \in Threads : IsUserTable(uresult'[s])
    BY <1>5, <1>7 DEF UsersKnown, UserLoadingTypeOK
  <2> QED BY <1>1, <1>6, <1>7, <2>1
          DEF UsersKnown, UserLoadingTypeOK, UserModelTypeOK, IsUserTable, IsUserMap
<1>9. UserKeysKnown'
  BY <1>1, <1>2, <1>6 DEF UsersKnown, UserKeysKnown
<1>10. RowsCurrent'
  <2>1. \A s \in Threads : /\ DOMAIN uresult'[s] \subseteq DOMAIN uresult[s]
                           /\ \A v \in DOMAIN uresult'[s] : uresult'[s][v] = uresult[s][v]
    BY <1>5, <1>7
  <2> QED BY <1>1, <2>1 DEF UsersKnown, RowsCurrent
<1>11. MapNamesUsers'
  BY <1>1, <1>2, <1>4, <1>6 DEF UsersKnown, MapNamesUsers
<1> QED BY <1>8, <1>9, <1>10, <1>11 DEF UsersKnown

LEMMA LoadUsersCloseKeeps ==
  ASSUME UsersKnown, NEW t \in Threads, LoadUsersClose(t)
  PROVE  UsersKnown'
<1>1. /\ UNCHANGED <<user, umodel, user_config, uresult>>
      /\ ulines' = [ulines EXCEPT ![t] = user_config] \/ UNCHANGED ulines
  BY DEF LoadUsersClose, userVars
<1>2. ulines \in [Threads -> SUBSET Uids] /\ user_config \subseteq Uids
  BY DEF UsersKnown, UserLoadingTypeOK
<1>3. ulines' \in [Threads -> SUBSET Uids]
      /\ \A s \in Threads : ulines'[s] = user_config \/ ulines'[s] = ulines[s]
  BY <1>1, <1>2
<1>4. UserLoadingTypeOK'
  <2>1. UserModelTypeOK'
    BY <1>1 DEF UsersKnown, UserLoadingTypeOK, UserModelTypeOK, IsUserTable, IsUserMap
  <2>2. DOMAIN uresult' = Threads /\ \A s \in Threads : IsUserTable(uresult'[s])
    BY <1>1 DEF UsersKnown, UserLoadingTypeOK
  <2> QED BY <1>1, <1>2, <1>3, <2>1, <2>2 DEF UserLoadingTypeOK
<1>5. UserKeysKnown' /\ RowsCurrent' /\ MapNamesUsers'
  BY <1>1, <1>3 DEF UsersKnown, UserKeysKnown, RowsCurrent, MapNamesUsers
<1> QED BY <1>4, <1>5 DEF UsersKnown

LEMMA LoadUsersConfigLineKeeps ==
  ASSUME UsersKnown, NEW t \in Threads, NEW u \in Uids, LoadUsersConfigLine(t, u)
  PROVE  UsersKnown'
<1> DEFINE put == PutUser(umodel, u, UserEntry(umodel, u))
<1>1. /\ UNCHANGED <<user, user_config, uresult>>
      /\ umodel' \in InsertedUser(t, put)
      /\ ulines' = [ulines EXCEPT ![t] = ulines[t] \ {u}]
      /\ u \in ulines[t]
  BY DEF LoadUsersConfigLine
<1>2. IsUserMap(umodel) /\ ulines \in [Threads -> SUBSET Uids]
  BY DEF UsersKnown, UserLoadingTypeOK, UserModelTypeOK
<1>3. UserEntry(umodel, u) \in User
  BY <1>2, UserEntryType
<1>4. /\ IsUserMap(put) /\ DOMAIN put = DOMAIN umodel \cup {u}
      /\ put[u] = UserEntry(umodel, u)
      /\ \A v \in DOMAIN umodel : put[v] = umodel[v]
  <2> DEFINE entry == UserEntry(umodel, u)
  <2>1. u \in DOMAIN umodel => entry = umodel[u]
    BY DEF UserEntry
  <2>2. entry \in User
    BY <1>3
  <2> HIDE DEF entry
  <2>3. /\ IsUserMap(PutUser(umodel, u, entry))
        /\ DOMAIN PutUser(umodel, u, entry) = DOMAIN umodel \cup {u}
        /\ PutUser(umodel, u, entry)[u] = entry
        /\ \A v \in DOMAIN umodel : v # u => PutUser(umodel, u, entry)[v] = umodel[v]
    BY <1>2, <2>2, PutUserType
  <2>4. put = PutUser(umodel, u, entry)
    BY DEF entry
  <2> HIDE DEF put
  <2> QED BY <2>1, <2>3, <2>4 DEF entry
<1>5. u \notin DOMAIN umodel => put[u] = BlankUser
  BY <1>4 DEF UserEntry
<1> HIDE DEF put
<1>6. /\ IsUserMap(umodel') /\ DOMAIN umodel' \subseteq DOMAIN umodel \cup {u}
      /\ \A v \in DOMAIN umodel' : umodel'[v] = put[v]
  BY <1>1, <1>4, InsertedUserType
<1>7. ulines' \in [Threads -> SUBSET Uids] /\ \A s \in Threads : ulines'[s] \subseteq ulines[s]
  BY <1>1, <1>2
<1>8. UserLoadingTypeOK'
  <2>1. UserModelTypeOK'
    BY <1>1, <1>6
    DEF UsersKnown, UserLoadingTypeOK, UserModelTypeOK, IsUserTable, IsUserMap
  <2>2. DOMAIN uresult' = Threads /\ \A s \in Threads : IsUserTable(uresult'[s])
    BY <1>1 DEF UsersKnown, UserLoadingTypeOK
  <2>3. user_config' \subseteq Uids
    BY <1>1 DEF UsersKnown, UserLoadingTypeOK
  <2> QED BY <1>7, <2>1, <2>2, <2>3 DEF UserLoadingTypeOK
<1>9. UserKeysKnown'
  BY <1>1, <1>6, <1>7 DEF UsersKnown, UserKeysKnown
<1>10. RowsCurrent'
  BY <1>1 DEF UsersKnown, RowsCurrent
<1>11. MapNamesUsers'
  BY <1>1, <1>4, <1>5, <1>6 DEF UsersKnown, MapNamesUsers
<1> QED BY <1>8, <1>9, <1>10, <1>11 DEF UsersKnown

(* Every step of Load() keeps the types, the keys, the rows and the count, *)
(* and takes its thread to another step of Load() or to the end of its     *)
(* handler.                                                                *)
LEMMA LoadUsersKeeps ==
  ASSUME NEW Labels, pc \in [Threads -> Labels],
         {"idle", "uconnect", "ufetch", "uconfig"} \subseteq Labels,
         conns \in 0..MaxConn, ConnsAccounted, UsersKnown,
         NEW t \in Threads, LoadUsers(t)
  PROVE  /\ UsersKnown'
         /\ conns' \in 0..MaxConn /\ ConnsAccounted'
         /\ pc' \in [Threads -> Labels]
         /\ pc[t] \in {"uconnect", "ufetch", "uconfig"}
         /\ pc'[t] \in {"idle", "ufetch", "uconfig"}
         /\ \A s \in Threads \ {t} : pc'[s] = pc[s]
         /\ UNCHANGED <<server, user, user_config>>
<1>1. CASE LoadUsersConnectFails(t)
  <2>1. /\ pc[t] = "uconnect" /\ Goto(t, "idle")
        /\ UNCHANGED <<server, conns, userVars, userLoadVars>>
    BY <1>1 DEF LoadUsersConnectFails
  <2>2. conns' \in 0..MaxConn /\ ConnsAccounted'
    BY <2>1, ConnsCounted DEF Fetches
  <2> QED BY <2>1, <2>2, UsersKnownStays DEF Goto, userVars, userLoadVars
<1>2. CASE LoadUsersSelectFails(t)
  <2>1. /\ pc[t] = "uconnect" /\ Goto(t, "idle")
        /\ CanConnect /\ conns' = conns + 1
        /\ UNCHANGED <<server, userVars, userLoadVars>>
    BY <1>2 DEF LoadUsersSelectFails, Leak
  <2>2. conns' \in 0..MaxConn /\ ConnsAccounted'
    BY <2>1, ConnsCounted DEF Fetches
  <2> QED BY <2>1, <2>2, UsersKnownStays DEF Goto, userVars, userLoadVars
<1>3. CASE LoadUsersSelect(t)
  <2>1. /\ pc[t] = "uconnect" /\ Goto(t, "ufetch")
        /\ CanConnect /\ conns' = conns + 1
        /\ UNCHANGED <<server, user, user_config>>
    BY <1>3 DEF LoadUsersSelect, userVars
  <2>2. conns' \in 0..MaxConn /\ ConnsAccounted'
    BY <2>1, ConnsCounted DEF Fetches
  <2> QED BY <1>3, <2>1, <2>2, LoadUsersSelectKeeps DEF Goto
<1>4. CASE \E u \in Uids : LoadUsersFetch(t, u)
  <2>1. UsersKnown'
    BY <1>4, LoadUsersFetchKeeps
  <2>2. pc[t] = "ufetch" /\ UNCHANGED <<server, pc, conns, user, user_config>>
    BY <1>4 DEF LoadUsersFetch, processVars
  <2>3. ConnsAccounted'
    BY <2>2 DEF ConnsAccounted, Fetching
  <2> QED BY <2>1, <2>2, <2>3
<1>5. CASE LoadUsersClose(t)
  <2>1. /\ pc[t] = "ufetch" /\ conns' = conns - 1
        /\ UNCHANGED <<server, user, user_config>>
        /\ Goto(t, "uconfig") \/ Goto(t, "idle")
    BY <1>5 DEF LoadUsersClose, userVars
  <2>2. conns' \in 0..MaxConn /\ ConnsAccounted'
    BY <2>1, ConnsCounted DEF Fetches
  <2> QED BY <1>5, <2>1, <2>2, LoadUsersCloseKeeps DEF Goto
<1>6. CASE \E u \in Uids : LoadUsersConfigLine(t, u)
  <2>1. UsersKnown'
    BY <1>6, LoadUsersConfigLineKeeps
  <2>2. pc[t] = "uconfig" /\ UNCHANGED <<server, pc, conns, user, user_config>>
    BY <1>6 DEF LoadUsersConfigLine, processVars
  <2>3. ConnsAccounted'
    BY <2>2 DEF ConnsAccounted, Fetching
  <2> QED BY <2>1, <2>2, <2>3
<1>7. CASE LoadUsersReturn(t)
  <2>1. /\ pc[t] = "uconfig" /\ Goto(t, "idle")
        /\ UNCHANGED <<server, conns, userVars, userLoadVars>>
    BY <1>7 DEF LoadUsersReturn
  <2>2. conns' \in 0..MaxConn /\ ConnsAccounted'
    BY <2>1, ConnsCounted DEF Fetches
  <2> QED BY <2>1, <2>2, UsersKnownStays DEF Goto, userVars, userLoadVars
<1> QED BY <1>1, <1>2, <1>3, <1>4, <1>5, <1>6, <1>7 DEF LoadUsers
=============================================================================
