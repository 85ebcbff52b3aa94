--------------------------- MODULE LendingProofs ---------------------------
(* Lending, proved for any number of threads, books, users and faults; the  *)
(* desk it implements and waitnum, with one thread.                        *)
EXTENDS Lending, ModelProofs

-----------------------------------------------------------------------------
(* The inductive invariant.                                                *)

(* A stored result may be old, but only in who has the book: no request    *)
(* changes what a row is.                                                  *)
RowsNamed ==
  \A t \in Threads : \A b \in DOMAIN result[t] : SameBook(result[t][b], BookBase[b])

Inv ==
  /\ TypeOK
  /\ ConnsAccounted
  /\ KeysKnown
  /\ RowsNamed
  /\ MapNamesBooks

-----------------------------------------------------------------------------
(* Lemmas.                                                                 *)

LEMMA TornType ==
  ASSUME NEW old \in Book, NEW new \in Book, NEW e \in Torn(old, new)
  PROVE  e \in Book
<1>1. /\ {old.id, new.id} \subseteq Bids \cup {NoNumber}
      /\ {old.isbn, new.isbn} \subseteq Isbns \cup {""}
      /\ {old.owner, new.owner} \subseteq Names \cup {""}
      /\ {old.borrower, new.borrower} \subseteq Names \cup {"", "NULL"}
      /\ {old.islend, new.islend} \subseteq {"0", "1", ""}
      /\ {old.num, new.num} \subseteq Int \cup {NoNumber}
      /\ {old.uid, new.uid} \subseteq Uids \cup {NoNumber}
  BY DEF Book
<1>2. /\ e = [id |-> e.id, isbn |-> e.isbn, owner |-> e.owner, borrower |-> e.borrower,
               islend |-> e.islend, num |-> e.num, uid |-> e.uid]
      /\ e.id \in {old.id, new.id} /\ e.isbn \in {old.isbn, new.isbn}
      /\ e.owner \in {old.owner, new.owner}
      /\ e.borrower \in {old.borrower, new.borrower}
      /\ e.islend \in {old.islend, new.islend} /\ e.num \in {old.num, new.num}
      /\ e.uid \in {old.uid, new.uid}
  BY Zenon DEF Torn
<1>3. /\ e.id \in Bids \cup {NoNumber} /\ e.isbn \in Isbns \cup {""}
      /\ e.owner \in Names \cup {""} /\ e.borrower \in Names \cup {"", "NULL"}
      /\ e.islend \in {"0", "1", ""} /\ e.num \in Int \cup {NoNumber}
      /\ e.uid \in Uids \cup {NoNumber}
  BY <1>1, <1>2
<1> QED BY <1>2, <1>3 DEF Book

(* Whatever a look-up returns while others write is made of strings that   *)
(* the map may hold.                                                       *)
LEMMA GetBookType ==
  ASSUME BookModelTypeOK, NEW t, NEW b, NEW e \in GetBook(t, b)
  PROVE  e \in Book
<1>1. Entry(model, b) \in Book
  BY EntryType DEF BookModelTypeOK
<1>2. \A s \in Threads : b \in DOMAIN result[s] => result[s][b] \in Book
  BY RowType DEF BookModelTypeOK, IsTable, IsBookMap
<1>3. CASE e = Entry(model, b) \/ e = Blank
  BY <1>1, <1>3, BlankType
<1>4. CASE e # Entry(model, b) /\ e # Blank
  <2>1. PICK s \in Threads : /\ b \in DOMAIN result[s]
                             /\ e \in Torn(Entry(model, b), result[s][b])
    BY <1>4 DEF GetBook
  <2> QED BY <1>1, <1>2, <2>1, TornType
<1> QED BY <1>3, <1>4

(* The statements of /update and /updateback change who has one book.      *)
LEMMA SetLoanType ==
  ASSUME IsTable(BookBase), NEW bid,
         NEW w \in Names \cup {"", "NULL"}, NEW l \in {"0", "1"}, NEW n \in Int,
         NEW rows, rows = SetLoan(bid, w, l, n)
  PROVE  /\ IsTable(rows) /\ DOMAIN rows = DOMAIN BookBase
         /\ \A b \in DOMAIN BookBase : SameBook(rows[b], BookBase[b])
         /\ bid \in DOMAIN BookBase => IsLent(rows[bid], w, l, n)
<1>1. \A row : Lent(row, w, l, n) = Loan(row, w, l, n)
  BY DEF Lent, Loan
<1>2. rows = LoanTable(bid, w, l, n)
  BY <1>1 DEF SetLoan, LoanTable
<1>3. Loanable(w, l, n)
  BY DEF Loanable
<1>4. LoanChanges(rows, bid, w, l, n)
  BY <1>2, <1>3, LoanTableType
<1> QED BY <1>4 DEF LoanChanges

(* MapNamesBooks, of any map.                                              *)
NamedEntry(b, entry) ==
  \/ entry = Blank
  \/ b \in DOMAIN BookBase /\ entry.id = b /\ SameBook(entry, BookBase[b])

Named(map) == \A b \in DOMAIN map : NamedEntry(b, map[b])

LEMMA NamedModel == MapNamesBooks <=> Named(model)
BY DEF MapNamesBooks, Named, NamedEntry, SameBook

LEMMA PutNamed ==
  ASSUME NEW map, Named(map), NEW b, NEW entry, NamedEntry(b, entry)
  PROVE  Named(Put(map, b, entry))
BY DEF Named, Put

LEMMA InsertedNamed ==
  ASSUME NEW t, NEW map, Named(map), NEW m \in Inserted(t, map)
  PROVE  Named(m)
<1>1. CASE m = map
  BY <1>1
<1>2. CASE m # map
  <2>1. PICK D \in SUBSET DOMAIN map : m = [b \in D |-> map[b]]
    BY <1>2 DEF Inserted
  <2> QED BY <2>1 DEF Named
<1> QED BY <1>1, <1>2

LEMMA TableNamed ==
  ASSUME IsTable(BookBase), NEW b
  PROVE  NamedEntry(b, Entry(BookBase, b))
<1>1. \A c \in DOMAIN BookBase : BookBase[c].id = c
  BY DEF IsTable, Row
<1> QED BY <1>1 DEF NamedEntry, Entry, SameBook

LEMMA BootedNamed ==
  ASSUME IsTable(BookBase), NEW how
  PROVE  Named(BootedModel(how))
<1>1. \A ids : Named(Loaded(BookBase, ids))
  BY TableNamed DEF Loaded, Named
<1>2. Named(EmptyMap)
  BY DEF EmptyMap, Named
<1>3. BootedModel(how) \in
        {Loaded(BookBase, book_config), Loaded(BookBase, {}), EmptyMap}
  BY DEF BootedModel
<1> QED BY <1>1, <1>2, <1>3

-----------------------------------------------------------------------------
(* The invariant holds at first, and when the process ends or starts.      *)

LEMMA InitInv == Init => Inv
<1> SUFFICES ASSUME Init PROVE Inv
  OBVIOUS
<1>1. IsTable(InitialBooks) /\ InitialConfig \in SUBSET Bids /\ IsUserTable(InitialUsers)
  BY LendingAssumption
<1>2. DOMAIN EmptyMap = {}
  BY DEF EmptyMap
<1>3. conns \in 0..MaxConn /\ ConnsAccounted
  <2>1. Fetching = {}
    BY DEF Init, Fetching, Fetches
  <2>2. conns = 0 /\ Cardinality({}) = 0
    BY FS_EmptySet DEF Init
  <2>3. MaxConn \in Nat
    BY ProcessAssumption
  <2> QED BY <2>1, <2>2, <2>3 DEF ConnsAccounted
<1>4. BookModelTypeOK /\ KeysKnown
  BY <1>1, <1>2, BlankType DEF Init, BookModelTypeOK, KeysKnown
<1>5. UserModelTypeOK
  BY <1>1 DEF Init, UserModelTypeOK, IsUserMap, NoUsers
<1>6. NoRequest \in Requests
  BY DEF NoRequest, Requests
<1>7. TypeOK
  BY <1>3, <1>4, <1>5, <1>6 DEF Init, TypeOK, PcLabels
<1>8. RowsNamed /\ MapNamesBooks
  BY <1>2 DEF Init, RowsNamed, MapNamesBooks
<1> QED BY <1>3, <1>4, <1>7, <1>8 DEF Inv

LEMMA GoneInv ==
  ASSUME Inv, NoThreads, Gone, conns' \in 0..MaxConn,
         server' \in {"up", "down", "aborted"}
  PROVE  Inv'
<1>1. ConnsAccounted'
  BY NoThreadsCounted
<1>2. DOMAIN EmptyMap = {}
  BY DEF EmptyMap
<1>3. /\ UNCHANGED <<BookBase, book_config, Comments>> /\ cmodel' = {}
      /\ model' = EmptyMap /\ result' = [t \in Threads |-> EmptyMap]
      /\ lines' = [t \in Threads |-> {}]
  BY DEF Gone, BookModelGone, CommModelGone
<1>4. BookModelTypeOK' /\ KeysKnown'
  BY <1>2, <1>3, BlankType
  DEF Inv, TypeOK, BookModelTypeOK, KeysKnown, IsTable, IsBookMap
<1>5. UserModelTypeOK'
  BY UserTypes DEF Inv, TypeOK, Gone
<1>6. req' \in [Threads -> Requests]
  BY DEF Gone, NoRequest, Requests
<1>7. TypeOK'
  BY <1>3, <1>4, <1>5, <1>6 DEF Inv, TypeOK, NoThreads, PcLabels
<1>8. RowsNamed' /\ MapNamesBooks'
  BY <1>2, <1>3 DEF RowsNamed, MapNamesBooks
<1> QED BY <1>1, <1>4, <1>7, <1>8 DEF Inv

LEMMA StartInv == ASSUME Inv, Start PROVE Inv'
<1>1. PICK how, uhow, chow :
        /\ Boot(how, uhow, chow)
        /\ BookModelBooted(how)
        /\ UserModelBooted(uhow)
        /\ CommModelBooted(chow)
        /\ UNCHANGED req
  BY DEF Start
<1>2. conns' \in 0..MaxConn /\ ConnsAccounted'
  BY <1>1, BootCounted
<1>3. NoThreads /\ server' = "up"
  BY <1>1 DEF Boot
<1>4. /\ UNCHANGED <<BookBase, book_config, result, lines, req, Comments>>
      /\ model' = BootedModel(how)
      /\ cmodel' \subseteq Comments
  BY <1>1 DEF BookModelBooted, CommModelBooted
<1>5. /\ IsBookMap(model')
      /\ DOMAIN model' \subseteq DOMAIN BookBase \cup book_config
  BY <1>4, BootedType DEF Inv, TypeOK
<1>6. BookModelTypeOK' /\ KeysKnown'
  BY <1>4, <1>5 DEF Inv, TypeOK, BookModelTypeOK, KeysKnown, IsTable, IsBookMap
<1>7. UserModelTypeOK'
  BY <1>1, UserTypes DEF Inv, TypeOK
<1>8. TypeOK'
  BY <1>2, <1>3, <1>4, <1>6, <1>7 DEF Inv, TypeOK, NoThreads, PcLabels
<1>9. IsTable(BookBase)
  BY DEF Inv, TypeOK, BookModelTypeOK
<1>10. Named(model')
  BY <1>4, <1>9, BootedNamed
<1>11. RowsNamed' /\ MapNamesBooks'
  BY <1>4, <1>10 DEF Inv, RowsNamed, MapNamesBooks, Named, NamedEntry, SameBook
<1> QED BY <1>2, <1>6, <1>8, <1>11 DEF Inv

-----------------------------------------------------------------------------
(* The steps.                                                              *)

(* A step of a handler before its Load(): the map and the stored results   *)
(* stay, the table may have other loans, a comment may be added.           *)
LEMMA StepInv ==
  ASSUME Inv, NEW t \in Threads, NEW label \in PcLabels, Goto(t, label),
         pc[t] \notin Fetches, label \notin Fetches,
         conns' = conns \/ (CanConnect /\ conns' = conns + 1),
         UNCHANGED <<server, book_config, model, result, lines, userVars>>,
         IsTable(BookBase'), DOMAIN BookBase' = DOMAIN BookBase,
         \A b \in DOMAIN BookBase : SameBook(BookBase'[b], BookBase[b]),
         Comments' \subseteq [bid : Bids, uid : Uids], cmodel' \subseteq Comments',
         req' \in [Threads -> Requests],
         \A s \in Threads \ {t} : req'[s] = req[s],
         label = "lend" => req'[t].num \in Int
  PROVE  Inv'
<1>1. pc \in [Threads -> PcLabels]
  BY DEF Inv, TypeOK
<1>2. pc' \in [Threads -> PcLabels] /\ pc'[t] = label
      /\ \A s \in Threads \ {t} : pc'[s] = pc[s]
  BY <1>1 DEF Goto
<1>3. conns' \in 0..MaxConn /\ ConnsAccounted'
  BY <1>1, ConnsCounted DEF Inv, TypeOK
<1>4. BookModelTypeOK' /\ KeysKnown'
  BY DEF Inv, TypeOK, BookModelTypeOK, KeysKnown, IsTable, IsBookMap
<1>5. UserModelTypeOK'
  BY UserTypes DEF Inv, TypeOK
<1>6. \A s \in Threads : pc'[s] = "lend" => req'[s].num \in Int
  BY <1>2 DEF Inv, TypeOK
<1>7. TypeOK'
  BY <1>2, <1>3, <1>4, <1>5, <1>6 DEF Inv, TypeOK
<1>8. RowsNamed'
  BY DEF Inv, KeysKnown, RowsNamed, SameBook
<1>9. MapNamesBooks'
  BY DEF Inv, MapNamesBooks, SameBook
<1> QED BY <1>3, <1>4, <1>7, <1>8, <1>9 DEF Inv

(* The statement that records a loan or its end, and what it is made of.   *)
LEMMA WriteInv ==
  ASSUME Inv, NEW t \in Threads, pc[t] \notin Fetches,
         NEW w \in Names \cup {"", "NULL"}, NEW l \in {"0", "1"}, NEW n \in Int,
         Write(SetLoan(req[t].bid, w, l, n)), Goto(t, "clear"), Forget(t),
         UNCHANGED <<server, book_config, model, result, lines, userVars, commVars>>
  PROVE  Inv'
<1> DEFINE bid == req[t].bid
           rows == SetLoan(bid, w, l, n)
<1>0. rows = SetLoan(bid, w, l, n)
  OBVIOUS
<1>1. IsTable(BookBase)
  BY DEF Inv, TypeOK, BookModelTypeOK
<1>3. /\ conns' = conns \/ (CanConnect /\ conns' = conns + 1)
      /\ BookBase' = rows \/ BookBase' = BookBase
  BY DEF Write, Leak
<1> HIDE DEF bid, rows
<1>2. /\ IsTable(rows) /\ DOMAIN rows = DOMAIN BookBase
      /\ \A b \in DOMAIN BookBase : SameBook(rows[b], BookBase[b])
  BY ONLY <1>0, <1>1, SetLoanType, w \in Names \cup {"", "NULL"}, l \in {"0", "1"}, n \in Int
<1>4. /\ IsTable(BookBase') /\ DOMAIN BookBase' = DOMAIN BookBase
      /\ \A b \in DOMAIN BookBase : SameBook(BookBase'[b], BookBase[b])
  <2>1. CASE BookBase' = rows
    BY <1>2, <2>1 DEF IsTable, IsBookMap
  <2>2. CASE BookBase' = BookBase
    BY <1>1, <2>2 DEF IsTable, IsBookMap, SameBook
  <2> QED BY <1>3, <2>1, <2>2
<1>5. NoRequest \in Requests
  BY DEF NoRequest, Requests
<1>6. /\ req' \in [Threads -> Requests]
      /\ \A s \in Threads \ {t} : req'[s] = req[s]
  BY <1>5 DEF Inv, TypeOK, Forget
<1>7. /\ Comments' \subseteq [bid : Bids, uid : Uids]
      /\ cmodel' \subseteq Comments'
  BY DEF Inv, TypeOK, commVars
<1>8. "clear" \in PcLabels /\ "clear" # "fetch" /\ "clear" # "lend"
  BY DEF PcLabels
<1> QED BY <1>3, <1>4, <1>6, <1>7, <1>8, StepInv DEF Fetches

(* The locals a handler keeps are a request.                               *)
LEMMA KeepType ==
  ASSUME Inv, NEW t \in Threads, NEW b \in Bids, NEW name \in Names \cup {""},
         NEW k \in Int \cup {NoNumber}, Keep(t, b, name, k)
  PROVE  /\ req' \in [Threads -> Requests] /\ req'[t].num = k
         /\ \A s \in Threads \ {t} : req'[s] = req[s]
BY DEF Inv, TypeOK, Keep, Requests

LEMMA LendAcceptedInv ==
  ASSUME Inv, NEW t \in Threads, NEW b \in Asked, NEW u, NEW days,
         LendAccepted(t, b, u, days)
  PROVE  Inv'
<1>1. PICK book \in GetBook(t, b) :
        /\ book.num # NoNumber
        /\ Keep(t, b, GetUser(u).uname, book.num + 1)
  BY DEF LendAccepted
<1>2. book \in Book
  BY GetBookType DEF Inv, TypeOK
<1>3. book.num \in Int /\ book.num + 1 \in Int
  <2>1. book.num \in Int \cup {NoNumber}
    BY <1>2 DEF Book
  <2>2. book.num \in Int
    BY <1>1, <2>1
  <2> QED BY <2>2
<1>4. GetUser(u).uname \in Names \cup {""} /\ b \in Bids
  BY UserTypes, LendingAssumption DEF Inv, TypeOK, User
<1>5. /\ req' \in [Threads -> Requests] /\ req'[t].num = book.num + 1
      /\ \A s \in Threads \ {t} : req'[s] = req[s]
  BY <1>1, <1>3, <1>4, KeepType
<1>6. /\ pc[t] = "idle" /\ Goto(t, "lend")
      /\ UNCHANGED <<server, conns, bookVars, userVars, commVars>>
  BY DEF LendAccepted, Receive
<1>7. IsTable(BookBase') /\ \A c \in DOMAIN BookBase : SameBook(BookBase'[c], BookBase[c])
  BY <1>6 DEF Inv, TypeOK, BookModelTypeOK, bookVars, IsTable, IsBookMap, SameBook
<1>8. "lend" \in PcLabels
  BY DEF PcLabels
<1>9. Comments' \subseteq [bid : Bids, uid : Uids] /\ cmodel' \subseteq Comments'
  BY <1>6 DEF Inv, TypeOK, commVars
<1> QED BY <1>3, <1>5, <1>6, <1>7, <1>8, <1>9, StepInv DEF bookVars, Fetches

LEMMA ReturnCommentsInv ==
  ASSUME Inv, NEW t \in Threads, NEW b \in Asked, NEW u, ReturnComments(t, b, u)
  PROVE  Inv'
<1>1. PICK book \in GetBook(t, b) :
        /\ Known(book, GetUser(u))
        /\ InsertComments([bid |-> book.id, uid |-> GetUser(u).uid])
        /\ Keep(t, b, "", book.num)
  BY DEF ReturnComments
<1>2. book \in Book
  BY GetBookType DEF Inv, TypeOK
<1>3. book.id \in Bids /\ GetUser(u).uid \in Uids
  BY <1>1, <1>2, UserTypes DEF Inv, TypeOK, Book, User, Known
<1> DEFINE c == [bid |-> book.id, uid |-> GetUser(u).uid]
<1>4. c \in [bid : Bids, uid : Uids]
  BY <1>3
<1>5. /\ conns' = conns \/ (CanConnect /\ conns' = conns + 1)
      /\ Comments' = Comments \/ Comments' = Comments \cup {c}
  BY <1>1 DEF InsertComments, Leak
<1>6. /\ pc[t] = "idle" /\ Goto(t, "comments")
      /\ UNCHANGED <<server, BookBase, book_config, model, result, lines, userVars, cmodel>>
  BY DEF ReturnComments, Receive
<1> HIDE DEF c
<1>7. Comments' \subseteq [bid : Bids, uid : Uids] /\ cmodel' \subseteq Comments'
  BY <1>4, <1>5, <1>6 DEF Inv, TypeOK
<1>8. b \in Bids /\ book.num \in Int \cup {NoNumber}
  BY <1>2, LendingAssumption DEF Book
<1>9. /\ req' \in [Threads -> Requests]
      /\ \A s \in Threads \ {t} : req'[s] = req[s]
  BY <1>1, <1>8, KeepType
<1>10. IsTable(BookBase') /\ \A d \in DOMAIN BookBase : SameBook(BookBase'[d], BookBase[d])
  BY <1>6 DEF Inv, TypeOK, BookModelTypeOK, IsTable, IsBookMap, SameBook
<1>11. "comments" \in PcLabels /\ "comments" # "lend"
  BY DEF PcLabels
<1> QED BY <1>5, <1>6, <1>7, <1>9, <1>10, <1>11, StepInv DEF Fetches

LEMMA ReturnLoadsCommentsInv ==
  ASSUME Inv, NEW t \in Threads, ReturnLoadsComments(t)
  PROVE  Inv'
<1>1. /\ pc[t] = "comments" /\ Goto(t, "return") /\ LoadComments
      /\ UNCHANGED <<server, bookVars, userVars, Comments, req>>
  BY DEF ReturnLoadsComments
<1>2. /\ conns' = conns \/ (CanConnect /\ conns' = conns + 1)
      /\ cmodel' \subseteq Comments'
  BY <1>1 DEF Inv, TypeOK, LoadComments, Leak
<1>3. IsTable(BookBase') /\ \A d \in DOMAIN BookBase : SameBook(BookBase'[d], BookBase[d])
  BY <1>1 DEF Inv, TypeOK, BookModelTypeOK, bookVars, IsTable, IsBookMap, SameBook
<1>4. Comments' \subseteq [bid : Bids, uid : Uids] /\ req' \in [Threads -> Requests]
  BY <1>1 DEF Inv, TypeOK
<1>5. "return" \in PcLabels /\ "return" # "lend"
  BY DEF PcLabels
<1> QED BY <1>1, <1>2, <1>3, <1>4, <1>5, StepInv DEF bookVars, Fetches

(* A step of Load(): rows and config lines go into the map under their own *)
(* keys, whatever another thread does to the tree meanwhile.               *)
LEMMA LoadNames ==
  ASSUME Inv, NEW t \in Threads, Load(t)
  PROVE  RowsNamed' /\ MapNamesBooks'
<1>1. Named(model) /\ IsTable(BookBase)
  BY NamedModel DEF Inv, TypeOK, BookModelTypeOK
<1>2. UNCHANGED <<BookBase, book_config>>
  BY DEF Load, LoadClear, LoadConnectFails, LoadSelectFails, LoadSelect, LoadFetch,
         LoadClose, LoadConfigLine, LoadReturn, bookVars
<1>3. Named(model') => MapNamesBooks'
  BY <1>2 DEF MapNamesBooks, Named, NamedEntry, SameBook
<1>4. UNCHANGED result => RowsNamed'
  BY <1>2 DEF Inv, RowsNamed, SameBook
<1>5. CASE LoadClear(t)
  <2>1. Named(EmptyMap)
    BY DEF EmptyMap, Named
  <2> QED BY <1>3, <1>4, <1>5, <2>1 DEF LoadClear
<1>6. CASE LoadConnectFails(t) \/ LoadSelectFails(t) \/ LoadClose(t) \/ LoadReturn(t)
  BY <1>1, <1>3, <1>4, <1>6
  DEF LoadConnectFails, LoadSelectFails, LoadClose, LoadReturn, bookVars
<1>7. CASE LoadSelect(t)
  <2>1. result' = [result EXCEPT ![t] = BookBase] /\ UNCHANGED model
    BY <1>7 DEF LoadSelect
  <2>2. RowsNamed'
    BY <1>2, <2>1 DEF Inv, TypeOK, BookModelTypeOK, RowsNamed, SameBook
  <2> QED BY <1>1, <1>3, <2>1, <2>2
<1>8. CASE \E b \in Bids : LoadFetch(t, b)
  <2>1. PICK b \in Bids : LoadFetch(t, b)
    BY <1>8
  <2> DEFINE rest == [c \in DOMAIN result[t] \ {b} |-> result[t][c]]
  <2>2. /\ b \in DOMAIN result[t]
        /\ model' \in Inserted(t, Put(model, b, result[t][b]))
        /\ result' = [result EXCEPT ![t] = rest]
    BY <2>1 DEF LoadFetch
  <2>3. NamedEntry(b, result[t][b])
    <3>1. b \in DOMAIN BookBase /\ SameBook(result[t][b], BookBase[b])
      BY <2>2 DEF Inv, KeysKnown, RowsNamed
    <3>2. result[t][b].id = b
      BY <2>2 DEF Inv, TypeOK, BookModelTypeOK, IsTable, Row
    <3> QED BY <3>1, <3>2 DEF NamedEntry
  <2>4. Named(model')
    BY <1>1, <2>2, <2>3, PutNamed, InsertedNamed
  <2>5. DOMAIN result = Threads /\ \A c \in DOMAIN rest : rest[c] = result[t][c]
    BY DEF Inv, TypeOK, BookModelTypeOK
  <2>6. DOMAIN rest \subseteq DOMAIN result[t]
    OBVIOUS
  <2> HIDE DEF rest
  <2>7. RowsNamed'
    BY <1>2, <2>2, <2>5, <2>6 DEF Inv, RowsNamed, SameBook
  <2> QED BY <1>3, <2>4, <2>7
<1>9. CASE \E b \in Bids : LoadConfigLine(t, b)
  <2>1. PICK b \in Bids : LoadConfigLine(t, b)
    BY <1>9
  <2>2. model' \in Inserted(t, Put(model, b, Entry(model, b))) /\ UNCHANGED result
    BY <2>1 DEF LoadConfigLine
  <2>3. NamedEntry(b, Entry(model, b))
    BY <1>1 DEF Named, NamedEntry, Entry
  <2>4. Named(model')
    BY <1>1, <2>2, <2>3, PutNamed, InsertedNamed
  <2> QED BY <1>3, <1>4, <2>2, <2>4
<1> QED BY <1>5, <1>6, <1>7, <1>8, <1>9 DEF Load

LEMMA ReloadInv ==
  ASSUME Inv, NEW t \in Threads, Reload(t)
  PROVE  Inv'
<1>1. Load(t) /\ UNCHANGED <<userVars, commVars, req>>
  BY DEF Reload
<1>2. {"idle", "clear", "connect", "fetch", "config"} \subseteq PcLabels
  BY DEF PcLabels
<1>3. /\ BookModelTypeOK' /\ KeysKnown'
      /\ conns' \in 0..MaxConn /\ ConnsAccounted'
      /\ pc' \in [Threads -> PcLabels]
      /\ pc'[t] \in {"idle", "connect", "fetch", "config"}
      /\ \A s \in Threads \ {t} : pc'[s] = pc[s]
      /\ UNCHANGED server
  BY <1>1, <1>2, LoadKeeps DEF Inv, TypeOK
<1>4. UserModelTypeOK'
  BY <1>1, UserTypes DEF Inv, TypeOK
<1>5. TypeOK'
  BY <1>1, <1>3, <1>4 DEF Inv, TypeOK, commVars
<1> QED BY <1>1, <1>3, <1>5, LoadNames DEF Inv

LEMMA NextInv == Inv /\ [Next]_vars => Inv'
<1> SUFFICES ASSUME Inv, [Next]_vars PROVE Inv'
  OBVIOUS
<1>1. MaxConn \in Nat
  BY ProcessAssumption
<1>2. CASE Start
  BY <1>2, StartInv
<1>3. CASE Crash
  <2>1. Gone /\ NoThreads /\ conns' = 0 /\ server' = "down"
    BY <1>3 DEF Crash, Kill
  <2> QED BY <1>1, <2>1, GoneInv
<1>4. Abort => Inv'
  <2>1. Abort => Gone /\ NoThreads /\ conns' = 0 /\ server' = "aborted"
    BY DEF Abort, Terminate
  <2> QED BY <1>1, <2>1, GoneInv
<1>5. CASE UNCHANGED vars
  <2>1. UNCHANGED <<server, pc, conns, bookVars, user, umodel, Comments, cmodel, req>>
    BY <1>5 DEF vars, processVars, userVars, commVars
  <2>2. BookModelTypeOK' /\ KeysKnown' /\ ConnsAccounted'
    BY <2>1 DEF Inv, TypeOK, bookVars, BookModelTypeOK, IsTable,
                IsBookMap, KeysKnown, ConnsAccounted, Fetching
  <2>3. UserModelTypeOK'
    BY <2>1, UserTypes DEF Inv, TypeOK, userVars
  <2>4. TypeOK'
    BY <2>1, <2>2, <2>3 DEF Inv, TypeOK
  <2>5. RowsNamed' /\ MapNamesBooks'
    BY <2>1 DEF Inv, bookVars, RowsNamed, MapNamesBooks, SameBook
  <2> QED BY <2>2, <2>4, <2>5 DEF Inv
<1>6. ASSUME NEW t \in Threads, Request(t) PROVE Inv'
  <2>1. CASE \E days \in LendTimes : LendTooLong(t, days)
    BY <1>5, <2>1 DEF LendTooLong
  <2>2. ASSUME NEW b \in Asked, NEW u \in Uids, NEW days \in LendTimes,
               \/ LendRefused(t, b, u, days)
               \/ LendAborts(t, b, u, days)
               \/ LendAccepted(t, b, u, days)
        PROVE  Inv'
    <3>1. CASE LendRefused(t, b, u, days)
      BY <1>5, <3>1 DEF LendRefused
    <3>2. CASE LendAborts(t, b, u, days)
      BY <1>4, <3>2 DEF LendAborts
    <3>3. CASE LendAccepted(t, b, u, days)
      BY <3>3, LendAcceptedInv
    <3> QED BY <2>2, <3>1, <3>2, <3>3
  <2>3. ASSUME NEW b \in Asked, NEW u \in Uids,
               ReturnAborts(t, b, u) \/ ReturnComments(t, b, u)
        PROVE  Inv'
    <3>1. CASE ReturnAborts(t, b, u)
      BY <1>4, <3>1 DEF ReturnAborts
    <3>2. CASE ReturnComments(t, b, u)
      BY <3>2, ReturnCommentsInv
    <3> QED BY <2>3, <3>1, <3>2
  <2> QED BY <1>6, <2>1, <2>2, <2>3 DEF Request
<1>7. ASSUME NEW t \in Threads, Handle(t) PROVE Inv'
  <2>1. CASE LendWrites(t)
    <3>1. req[t] \in Requests /\ req[t].num \in Int
      BY <2>1 DEF LendWrites, Inv, TypeOK
    <3>2. req[t].uname \in Names \cup {"", "NULL"}
      BY <3>1 DEF Requests
    <3> QED BY <2>1, <3>1, <3>2, WriteInv DEF LendWrites, Fetches
  <2>2. CASE ReturnLoadsComments(t)
    BY <2>2, ReturnLoadsCommentsInv
  <2>3. CASE ReturnAbortsLate(t)
    BY <1>4, <2>3 DEF ReturnAbortsLate
  <2>4. CASE ReturnWrites(t)
    <3>1. req[t] \in Requests /\ req[t].num # NoNumber
      BY <2>4 DEF ReturnWrites, Inv, TypeOK
    <3>2. req[t].num \in Int \cup {NoNumber}
      BY <3>1 DEF Requests
    <3>3. req[t].num \in Int
      BY <3>1, <3>2
    <3>4. req[t].num - 1 \in Int
      BY <3>3
    <3> QED BY <2>4, <3>4, WriteInv DEF ReturnWrites, Fetches
  <2>5. CASE Reload(t)
    BY <2>5, ReloadInv
  <2> QED BY <1>7, <2>1, <2>2, <2>3, <2>4, <2>5 DEF Handle
<1> QED BY <1>2, <1>3, <1>5, <1>6, <1>7 DEF Next

-----------------------------------------------------------------------------
(* The theorems.                                                           *)

(* All variables of the lending handlers keep their types, and a handler   *)
(* that writes waitnum has a number to write, however many threads race    *)
(* and whatever fails.                                                     *)
THEOREM LendingTypeOK == Spec => []TypeOK
<1>1. Inv => TypeOK
  BY DEF Inv
<1> QED BY InitInv, NextInv, <1>1, PTL DEF Spec

(* However many connections the writes leak, a Load() that closes its own  *)
(* has one to close.                                                       *)
THEOREM LendingConnsAccounted == Spec => []ConnsAccounted
<1>1. Inv => ConnsAccounted
  BY DEF Inv
<1> QED BY InitInv, NextInv, <1>1, PTL DEF Spec

(* Through any number of overlapping Load()s, failures and restarts, the   *)
(* map never shows one book under the key of another.                      *)
THEOREM LendingMapNamesBooks == Spec => []MapNamesBooks
<1>1. Inv => MapNamesBooks
  BY DEF Inv
<1> QED BY InitInv, NextInv, <1>1, PTL DEF Spec

-----------------------------------------------------------------------------
(* With one connection thread Lending is the desk of LendingDesk, for any   *)
(* table, any users and any number of requests, faults and crashes.        *)

(* The books are those there were at first, and belong to whom they did.   *)
BooksStay ==
  /\ DOMAIN BookBase = DOMAIN InitialBooks
  /\ \A b \in DOMAIN BookBase : BookBase[b].owner = InitialBooks[b].owner

FreshEntry(b, entry) == entry = Blank \/ (b \in DOMAIN BookBase /\ entry = BookBase[b])
Fresh(map) == \A b \in DOMAIN map : FreshEntry(b, map[b])

(* The map may be old only between a write and the Load() that follows it. *)
MapIsFresh == (\A t \in Threads : pc[t] # "clear") => Fresh(model)

(* A stored result is not old: nobody writes while it is fetched.          *)
ResultsFresh ==
  \A t \in Threads : pc[t] = "fetch" =>
    \A b \in DOMAIN result[t] : FreshEntry(b, result[t][b])

(* What a handler is about to write was decided on the row as it is.       *)
LendFits(b, name, k) ==
  b \in DOMAIN BookBase =>
    /\ BookBase[b].islend # "1"
    /\ BookBase[b].owner # name
    /\ BookBase[b].num = k - 1

ReturnFits(b, k) == b \in DOMAIN BookBase => BookBase[b].num = k

RequestsFit ==
  \A t \in Threads :
    /\ pc[t] = "lend" => LendFits(req[t].bid, req[t].uname, req[t].num)
    /\ pc[t] \in {"comments", "return"} => ReturnFits(req[t].bid, req[t].num)

Serial ==
  /\ BooksStay
  /\ MapIsFresh
  /\ ResultsFresh
  /\ RequestsFit

-----------------------------------------------------------------------------
(* Fresh maps.                                                             *)

LEMMA BlankHasNothing == Blank.id = NoNumber /\ Blank.num = NoNumber
BY DEF Blank

LEMMA FreshBlank == Fresh(EmptyMap) /\ \A b : FreshEntry(b, Blank)
BY DEF Fresh, FreshEntry, EmptyMap

LEMMA FreshTable == \A b : FreshEntry(b, Entry(BookBase, b))
BY DEF FreshEntry, Entry

LEMMA BootedFresh == ASSUME NEW how PROVE Fresh(BootedModel(how))
<1>1. \A ids : Fresh(Loaded(BookBase, ids))
  BY FreshTable DEF Loaded, Fresh
<1>2. BootedModel(how) \in
        {Loaded(BookBase, book_config), Loaded(BookBase, {}), EmptyMap}
  BY DEF BootedModel
<1> QED BY <1>1, <1>2, FreshBlank

LEMMA PutFresh ==
  ASSUME NEW map, Fresh(map), NEW b, NEW entry, FreshEntry(b, entry)
  PROVE  Fresh(Put(map, b, entry))
BY DEF Fresh, Put

LEMMA FreshFound ==
  ASSUME Fresh(model), NEW b
  PROVE  FreshEntry(b, Entry(model, b))
BY DEF Fresh, FreshEntry, Entry

LEMMA TableStays ==
  ASSUME Serial, UNCHANGED BookBase
  PROVE  /\ BooksStay'
         /\ Fresh(model') => Fresh(model)'
<1>1. BooksStay'
  BY DEF Serial, BooksStay
<1>2. Fresh(model') => Fresh(model)'
  BY DEF Fresh, FreshEntry
<1> QED BY <1>1, <1>2

-----------------------------------------------------------------------------
(* The steps.                                                              *)

(* The process ends or starts: no thread has begun, and the map is empty   *)
(* or has just been loaded.                                                *)
LEMMA NoThreadsSerial ==
  ASSUME Serial, NoThreads, UNCHANGED BookBase, Fresh(model')
  PROVE  Serial'
<1>1. BooksStay' /\ Fresh(model)'
  BY TableStays
<1>2. MapIsFresh'
  BY <1>1 DEF MapIsFresh
<1>3. ResultsFresh' /\ RequestsFit'
  BY DEF NoThreads, ResultsFresh, RequestsFit
<1> QED BY <1>1, <1>2, <1>3 DEF Serial

LEMMA GoneSerial ==
  ASSUME Serial, NoThreads, Gone
  PROVE  Serial'
BY NoThreadsSerial, FreshBlank DEF Gone, BookModelGone

(* A handler takes its next step without writing.                          *)
LEMMA QuietSerial ==
  ASSUME Serial, OneThread, NEW t \in Threads, pc \in [Threads -> PcLabels],
         NEW label, label \in {"idle", "lend", "comments", "return"}, Goto(t, label),
         pc[t] # "clear", UNCHANGED bookVars,
         label = "lend" => LendFits(req'[t].bid, req'[t].uname, req'[t].num),
         label \in {"comments", "return"} => ReturnFits(req'[t].bid, req'[t].num)
  PROVE  Serial'
<1>1. \A s \in Threads : s = t
  BY DEF OneThread
<1>2. pc'[t] = label
  BY DEF Goto
<1>3. UNCHANGED <<BookBase, model, result>>
  BY DEF bookVars
<1>4. Fresh(model')
  BY <1>1, <1>3 DEF Serial, MapIsFresh
<1>5. BooksStay' /\ MapIsFresh'
  BY <1>3, <1>4, TableStays DEF MapIsFresh
<1>6. ResultsFresh'
  BY <1>1, <1>2 DEF ResultsFresh
<1>7. label = "lend" => LendFits(req[t].bid, req[t].uname, req[t].num)'
  BY <1>3 DEF LendFits
<1>8. label \in {"comments", "return"} => ReturnFits(req[t].bid, req[t].num)'
  BY <1>3 DEF ReturnFits
<1>9. RequestsFit'
  BY <1>1, <1>2, <1>7, <1>8 DEF RequestsFit
<1> QED BY <1>5, <1>6, <1>9 DEF Serial

LEMMA LendAcceptedSerial ==
  ASSUME Inv, Serial, OneThread, NEW t \in Threads,
         NEW b \in Asked, NEW u, NEW days, LendAccepted(t, b, u, days)
  PROVE  Serial'
<1>1. /\ pc[t] = "idle" /\ Goto(t, "lend") /\ UNCHANGED bookVars
      /\ pc \in [Threads -> PcLabels] /\ req \in [Threads -> Requests]
  BY DEF Inv, TypeOK, LendAccepted, Receive
<1> DEFINE book == Entry(model, b)
           name == GetUser(u).uname
<1>2. /\ book.islend # "1" /\ book.owner # name
      /\ book.num # NoNumber
      /\ Keep(t, b, name, book.num + 1)
  BY Alone DEF LendAccepted, Lendable
<1>3. Fresh(model)
  BY <1>1 DEF OneThread, Serial, MapIsFresh
<1>4. FreshEntry(b, book) /\ book \in Book
  BY <1>3, FreshFound, EntryType DEF Inv, TypeOK, BookModelTypeOK
<1>5. book.num \in Int
  <2>1. book.num \in Int \cup {NoNumber}
    BY <1>4 DEF Book
  <2> QED BY <1>2, <2>1
<1>6. book # Blank
  BY <1>2, BlankHasNothing
<1>7. b \in DOMAIN BookBase => BookBase[b] = book
  BY <1>4, <1>6 DEF FreshEntry
<1> HIDE DEF book, name
<1>8. req'[t].bid = b /\ req'[t].uname = name /\ req'[t].num = book.num + 1
  BY <1>1, <1>2 DEF Keep
<1>9. LendFits(req'[t].bid, req'[t].uname, req'[t].num)
  BY <1>2, <1>5, <1>7, <1>8 DEF LendFits
<1> QED BY <1>1, <1>9, QuietSerial

LEMMA ReturnCommentsSerial ==
  ASSUME Inv, Serial, OneThread, NEW t \in Threads,
         NEW b \in Asked, NEW u, ReturnComments(t, b, u)
  PROVE  Serial'
<1>1. /\ pc[t] = "idle" /\ Goto(t, "comments") /\ UNCHANGED bookVars
      /\ pc \in [Threads -> PcLabels] /\ req \in [Threads -> Requests]
  BY DEF Inv, TypeOK, ReturnComments, Receive, bookVars
<1> DEFINE book == Entry(model, b)
<1>2. book.id # NoNumber /\ Keep(t, b, "", book.num)
  <2>1. PICK found \in GetBook(t, b) : Known(found, GetUser(u)) /\ Keep(t, b, "", found.num)
    BY DEF ReturnComments
  <2>2. GetBook(t, b) = {book}
    BY Alone
  <2>3. found = book
    BY <2>2
  <2> QED BY <2>1, <2>3 DEF Known
<1>3. Fresh(model)
  BY <1>1 DEF OneThread, Serial, MapIsFresh
<1>4. FreshEntry(b, book)
  BY <1>3, FreshFound
<1>5. book # Blank
  BY <1>2, BlankHasNothing
<1>6. b \in DOMAIN BookBase => BookBase[b] = book
  BY <1>4, <1>5 DEF FreshEntry
<1> HIDE DEF book
<1>7. req'[t].bid = b /\ req'[t].num = book.num
  BY <1>1, <1>2 DEF Keep
<1>8. ReturnFits(req'[t].bid, req'[t].num)
  BY <1>6, <1>7 DEF ReturnFits
<1> QED BY <1>1, <1>8, QuietSerial

LEMMA ReturnLoadsCommentsSerial ==
  ASSUME Inv, Serial, OneThread, NEW t \in Threads, ReturnLoadsComments(t)
  PROVE  Serial'
<1>1. /\ pc[t] = "comments" /\ Goto(t, "return") /\ UNCHANGED <<bookVars, req>>
      /\ pc \in [Threads -> PcLabels]
  BY DEF ReturnLoadsComments, Inv, TypeOK
<1>2. ReturnFits(req'[t].bid, req'[t].num)
  BY <1>1 DEF Serial, RequestsFit
<1> QED BY <1>1, <1>2, QuietSerial

(* A write: who has the book changes, and the map is old until the thread  *)
(* has cleared it.                                                         *)
LEMMA WriteSerial ==
  ASSUME Inv, Serial, OneThread, NEW t \in Threads, Goto(t, "clear"),
         DOMAIN BookBase' = DOMAIN BookBase,
         \A b \in DOMAIN BookBase : SameBook(BookBase'[b], BookBase[b])
  PROVE  Serial'
<1>1. \A s \in Threads : pc'[s] = "clear"
  BY DEF OneThread, Goto, Inv, TypeOK
<1>2. BooksStay'
  BY DEF Serial, BooksStay, SameBook
<1>3. MapIsFresh' /\ ResultsFresh' /\ RequestsFit'
  BY <1>1 DEF MapIsFresh, ResultsFresh, RequestsFit
<1> QED BY <1>2, <1>3 DEF Serial

(* What the statement of a handler does to the table.                      *)
LEMMA Written ==
  ASSUME Inv, NEW t \in Threads,
         NEW w \in Names \cup {"", "NULL"}, NEW l \in {"0", "1"}, NEW n \in Int,
         Write(SetLoan(req[t].bid, w, l, n))
  PROVE  /\ DOMAIN BookBase' = DOMAIN BookBase
         /\ \A b \in DOMAIN BookBase : SameBook(BookBase'[b], BookBase[b])
         /\ \A b \in DOMAIN BookBase :
              \/ BookBase'[b] = BookBase[b]
              \/ b = req[t].bid /\ IsLent(BookBase'[b], w, l, n)
<1> DEFINE bid == req[t].bid
           rows == SetLoan(bid, w, l, n)
<1>1. rows = SetLoan(bid, w, l, n)
  OBVIOUS
<1>2. IsTable(BookBase)
  BY DEF Inv, TypeOK, BookModelTypeOK
<1>3. BookBase' = rows \/ BookBase' = BookBase
  BY DEF Write
<1> HIDE DEF rows
<1> SUFFICES /\ DOMAIN BookBase' = DOMAIN BookBase
             /\ \A b \in DOMAIN BookBase : SameBook(BookBase'[b], BookBase[b])
             /\ \A b \in DOMAIN BookBase :
                  \/ BookBase'[b] = BookBase[b]
                  \/ b = bid /\ IsLent(BookBase'[b], w, l, n)
  OBVIOUS
<1> HIDE DEF bid
<1>4. /\ DOMAIN rows = DOMAIN BookBase
      /\ \A b \in DOMAIN BookBase : SameBook(rows[b], BookBase[b])
      /\ bid \in DOMAIN BookBase => IsLent(rows[bid], w, l, n)
  BY ONLY <1>1, <1>2, SetLoanType, w \in Names \cup {"", "NULL"}, l \in {"0", "1"}, n \in Int
<1>5. \A b \in DOMAIN BookBase : b # bid => rows[b] = BookBase[b]
  BY <1>1 DEF SetLoan
<1>6. CASE BookBase' = rows
  BY ONLY <1>4, <1>5, <1>6
<1>7. CASE BookBase' = BookBase
  BY <1>7 DEF SameBook
<1> QED BY <1>3, <1>6, <1>7

LEMMA LendWritten ==
  ASSUME Inv, NEW t \in Threads, LendWrites(t)
  PROVE  /\ DOMAIN BookBase' = DOMAIN BookBase
         /\ \A b \in DOMAIN BookBase : SameBook(BookBase'[b], BookBase[b])
         /\ \A b \in DOMAIN BookBase :
              \/ BookBase'[b] = BookBase[b]
              \/ b = req[t].bid /\ IsLent(BookBase'[b], req[t].uname, "1", req[t].num)
         /\ pc[t] = "lend" /\ Goto(t, "clear")
         /\ req[t].uname \in Names \cup {""} /\ req[t].num \in Int
<1>1. req[t] \in Requests /\ req[t].num \in Int
  BY DEF LendWrites, Inv, TypeOK
<1>2. req[t].uname \in Names \cup {""}
  BY <1>1 DEF Requests
<1>3. Write(SetLoan(req[t].bid, req[t].uname, "1", req[t].num))
  BY DEF LendWrites
<1>4. pc[t] = "lend" /\ Goto(t, "clear")
  BY DEF LendWrites
<1> QED BY <1>1, <1>2, <1>3, <1>4, Written

LEMMA ReturnWritten ==
  ASSUME Inv, NEW t \in Threads, ReturnWrites(t)
  PROVE  /\ DOMAIN BookBase' = DOMAIN BookBase
         /\ \A b \in DOMAIN BookBase : SameBook(BookBase'[b], BookBase[b])
         /\ \A b \in DOMAIN BookBase :
              \/ BookBase'[b] = BookBase[b]
              \/ b = req[t].bid /\ IsLent(BookBase'[b], "NULL", "0", req[t].num - 1)
         /\ pc[t] = "return" /\ Goto(t, "clear") /\ req[t].num \in Int
<1>1. req[t] \in Requests /\ req[t].num # NoNumber
  BY DEF ReturnWrites, Inv, TypeOK
<1>2. req[t].num \in Int \cup {NoNumber}
  BY <1>1 DEF Requests
<1>3. req[t].num \in Int
  BY <1>1, <1>2
<1>4. req[t].num - 1 \in Int
  BY <1>3
<1>5. Write(SetLoan(req[t].bid, "NULL", "0", req[t].num - 1))
  BY DEF ReturnWrites
<1>6. pc[t] = "return" /\ Goto(t, "clear")
  BY DEF ReturnWrites
<1> QED BY <1>3, <1>4, <1>5, <1>6, Written

(* A step of Load(): it fills the map with rows of the table as it is.     *)
LEMMA LoadSerial ==
  ASSUME Inv, Serial, OneThread, NEW t \in Threads, Load(t), UNCHANGED req
  PROVE  Serial'
<1>1. \A s \in Threads : s = t
  BY DEF OneThread
<1>2. /\ pc' \in [Threads -> PcLabels]
      /\ pc[t] \in {"clear", "connect", "fetch", "config"}
      /\ pc'[t] \in {"idle", "connect", "fetch", "config"}
      /\ UNCHANGED <<BookBase, book_config>>
  <2>1. {"idle", "clear", "connect", "fetch", "config"} \subseteq PcLabels
    BY DEF PcLabels
  <2> QED BY <2>1, LoadKeeps DEF Inv, TypeOK
<1>3. BooksStay' /\ (Fresh(model') => Fresh(model)')
  BY <1>2, TableStays
<1>4. RequestsFit'
  BY <1>1, <1>2 DEF RequestsFit
<1>5. pc[t] # "clear" => Fresh(model)
  BY <1>1 DEF Serial, MapIsFresh
<1> SUFFICES Fresh(model') /\ ResultsFresh'
  BY <1>3, <1>4 DEF Serial, MapIsFresh
<1>6. pc'[t] # "fetch" => ResultsFresh'
  BY <1>1 DEF ResultsFresh
<1>7. pc \in [Threads -> PcLabels]
  BY DEF Inv, TypeOK
<1>8. CASE LoadClear(t)
  <2>1. model' = EmptyMap /\ pc'[t] = "connect"
    BY <1>7, <1>8 DEF LoadClear, Goto
  <2> QED BY <1>6, <2>1, FreshBlank
<1>9. CASE LoadConnectFails(t) \/ LoadSelectFails(t) \/ LoadReturn(t)
  <2>1. UNCHANGED model /\ pc[t] # "clear" /\ pc'[t] = "idle"
    BY <1>7, <1>9
    DEF LoadConnectFails, LoadSelectFails, LoadReturn, bookVars, Goto
  <2> QED BY <1>5, <1>6, <2>1
<1>10. CASE LoadSelect(t)
  <2>1. UNCHANGED model /\ pc[t] # "clear" /\ result'[t] = BookBase
    BY <1>10 DEF LoadSelect, Inv, TypeOK, BookModelTypeOK
  <2>2. ResultsFresh'
    BY <1>1, <1>2, <2>1 DEF ResultsFresh, FreshEntry
  <2> QED BY <1>5, <2>1, <2>2
<1>11. CASE \E b \in Bids : LoadFetch(t, b)
  <2>1. PICK b \in Bids : LoadFetch(t, b)
    BY <1>11
  <2>2. /\ pc[t] = "fetch" /\ b \in DOMAIN result[t]
        /\ model' = Put(model, b, result[t][b])
    BY <2>1, Alone DEF LoadFetch
  <2>3. \A c \in DOMAIN result[t] : FreshEntry(c, result[t][c])
    BY <2>2 DEF Serial, ResultsFresh
  <2>4. Fresh(model')
    BY <1>5, <2>2, <2>3, PutFresh
  <2>5. result'[t] = [c \in DOMAIN result[t] \ {b} |-> result[t][c]]
    BY <2>1 DEF LoadFetch, Inv, TypeOK, BookModelTypeOK
  <2>6. \A c \in DOMAIN result'[t] : FreshEntry(c, result'[t][c])
    BY <2>3, <2>5
  <2>7. ResultsFresh'
    BY <1>1, <1>2, <2>6 DEF ResultsFresh, FreshEntry
  <2> QED BY <2>4, <2>7
<1>12. CASE LoadClose(t)
  <2>1. UNCHANGED model /\ pc[t] = "fetch" /\ pc'[t] # "fetch"
    BY <1>7, <1>12 DEF LoadClose, Goto
  <2> QED BY <1>5, <1>6, <2>1
<1>13. CASE \E b \in Bids : LoadConfigLine(t, b)
  <2>1. PICK b \in Bids : LoadConfigLine(t, b)
    BY <1>13
  <2>2. /\ pc[t] = "config" /\ pc' = pc
        /\ model' = Put(model, b, Entry(model, b))
    BY <2>1, Alone DEF LoadConfigLine, processVars
  <2>3. Fresh(model')
    BY <1>5, <2>2, FreshFound, PutFresh
  <2> QED BY <1>6, <2>2, <2>3
<1> QED BY <1>8, <1>9, <1>10, <1>11, <1>12, <1>13 DEF Load

LEMMA StartSerial ==
  ASSUME Serial, Start
  PROVE  Serial'
<1>1. PICK how, uhow, chow : Boot(how, uhow, chow) /\ BookModelBooted(how)
  BY DEF Start
<1>2. NoThreads /\ UNCHANGED BookBase /\ model' = BootedModel(how)
  BY <1>1 DEF Boot, BookModelBooted
<1> QED BY <1>2, BootedFresh, NoThreadsSerial

LEMMA InitSerial == Init => Serial
<1> SUFFICES ASSUME Init PROVE Serial
  OBVIOUS
<1>1. MapIsFresh
  BY FreshBlank DEF Init, MapIsFresh
<1>2. ResultsFresh /\ RequestsFit /\ BooksStay
  BY DEF Init, ResultsFresh, RequestsFit, BooksStay
<1> QED BY <1>1, <1>2 DEF Serial

-----------------------------------------------------------------------------
(* What the steps do to the table and to the desk.                         *)

(* Every step keeps the invariant, and only the two writes touch the table.*)
LEMMA NextSerial ==
  ASSUME Inv, Serial, OneThread, [Next]_vars
  PROVE  /\ Serial'
         /\ \/ UNCHANGED BookBase
            \/ \E t \in Threads : LendWrites(t) \/ ReturnWrites(t)
<1>1. CASE Start
  BY <1>1, StartSerial DEF Start, BookModelBooted
<1>2. CASE Crash
  BY <1>2, GoneSerial DEF Crash, Kill, Gone, BookModelGone
<1>3. Abort => Serial' /\ UNCHANGED BookBase
  BY GoneSerial DEF Abort, Terminate, Gone, BookModelGone
<1>4. CASE UNCHANGED vars
  BY <1>4 DEF vars, processVars, bookVars, Serial, BooksStay, MapIsFresh, Fresh,
       FreshEntry, ResultsFresh, RequestsFit, LendFits, ReturnFits
<1>5. ASSUME NEW t \in Threads, Request(t) PROVE Serial' /\ UNCHANGED BookBase
  <2>1. CASE \E days \in LendTimes : LendTooLong(t, days)
    BY <1>4, <2>1 DEF LendTooLong, vars, bookVars
  <2>2. ASSUME NEW b \in Asked, NEW u \in Uids, NEW days \in LendTimes,
               \/ LendRefused(t, b, u, days)
               \/ LendAborts(t, b, u, days)
               \/ LendAccepted(t, b, u, days)
        PROVE  Serial' /\ UNCHANGED BookBase
    <3>1. CASE LendRefused(t, b, u, days)
      BY <1>4, <3>1 DEF LendRefused, vars, bookVars
    <3>2. CASE LendAborts(t, b, u, days)
      BY <1>3, <3>2 DEF LendAborts
    <3>3. CASE LendAccepted(t, b, u, days)
      <4>1. UNCHANGED BookBase
        BY <3>3 DEF LendAccepted, bookVars
      <4> QED BY <3>3, <4>1, LendAcceptedSerial
    <3> QED BY <2>2, <3>1, <3>2, <3>3
  <2>3. ASSUME NEW b \in Asked, NEW u \in Uids,
               ReturnAborts(t, b, u) \/ ReturnComments(t, b, u)
        PROVE  Serial' /\ UNCHANGED BookBase
    <3>1. CASE ReturnAborts(t, b, u)
      BY <1>3, <3>1 DEF ReturnAborts
    <3>2. CASE ReturnComments(t, b, u)
      <4>1. UNCHANGED BookBase
        BY <3>2 DEF ReturnComments
      <4> QED BY <3>2, <4>1, ReturnCommentsSerial
    <3> QED BY <2>3, <3>1, <3>2
  <2> QED BY <1>5, <2>1, <2>2, <2>3 DEF Request
<1>6. ASSUME NEW t \in Threads, Handle(t)
      PROVE  Serial' /\ (UNCHANGED BookBase \/ LendWrites(t) \/ ReturnWrites(t))
  <2>1. CASE LendWrites(t)
    BY <2>1, LendWritten, WriteSerial
  <2>2. CASE ReturnLoadsComments(t)
    <3>1. UNCHANGED BookBase
      BY <2>2 DEF ReturnLoadsComments, bookVars
    <3> QED BY <2>2, <3>1, ReturnLoadsCommentsSerial
  <2>3. CASE ReturnAbortsLate(t)
    BY <1>3, <2>3 DEF ReturnAbortsLate
  <2>4. CASE ReturnWrites(t)
    BY <2>4, ReturnWritten, WriteSerial
  <2>5. CASE Reload(t)
    <3>1. Load(t) /\ UNCHANGED req
      BY <2>5 DEF Reload
    <3>2. UNCHANGED BookBase
      BY <3>1 DEF Load, LoadClear, LoadConnectFails, LoadSelectFails, LoadSelect,
           LoadFetch, LoadClose, LoadConfigLine, LoadReturn, bookVars
    <3> QED BY <3>1, <3>2, LoadSerial
  <2> QED BY <1>6, <2>1, <2>2, <2>3, <2>4, <2>5 DEF Handle
<1> QED BY <1>1, <1>2, <1>4, <1>5, <1>6 DEF Next

(* waitnum is one more than that of a book that was in, or one less.       *)
LEMMA WaitnumStep ==
  ASSUME Inv, Serial, OneThread, [Next]_vars, WaitnumBound
  PROVE  WaitnumBound'
<1>1. CASE UNCHANGED BookBase
  BY <1>1 DEF WaitnumBound
<1>2. ASSUME NEW t \in Threads, LendWrites(t), NEW b \in DOMAIN BookBase,
             BookBase'[b] # BookBase[b]
      PROVE  BookBase'[b].islend = "1" /\ BookBase'[b].num <= 1
  <2>1. /\ b = req[t].bid /\ IsLent(BookBase'[b], req[t].uname, "1", req[t].num)
        /\ pc[t] = "lend" /\ req[t].num \in Int
    BY <1>2, LendWritten
  <2>2. BookBase[b].islend # "1" /\ BookBase[b].num = req[t].num - 1
    BY <2>1 DEF Serial, RequestsFit, LendFits
  <2>3. BookBase[b].num <= 0
    BY <2>2 DEF WaitnumBound
  <2>4. req[t].num <= 1
    BY <2>1, <2>2, <2>3
  <2> QED BY <2>1, <2>4 DEF IsLent
<1>3. ASSUME NEW t \in Threads, ReturnWrites(t), NEW b \in DOMAIN BookBase,
             BookBase'[b] # BookBase[b]
      PROVE  BookBase'[b].islend = "0" /\ BookBase'[b].num <= 0
  <2>1. /\ b = req[t].bid /\ IsLent(BookBase'[b], "NULL", "0", req[t].num - 1)
        /\ pc[t] = "return" /\ req[t].num \in Int
    BY <1>3, ReturnWritten
  <2>2. BookBase[b].num = req[t].num
    BY <2>1 DEF Serial, RequestsFit, ReturnFits
  <2>3. req[t].num <= 1
    BY <2>1, <2>2 DEF WaitnumBound
  <2>4. req[t].num - 1 <= 0
    BY <2>1, <2>3
  <2> QED BY <2>1, <2>4 DEF IsLent
<1>4. CASE \E t \in Threads : LendWrites(t)
  <2>1. PICK t \in Threads : LendWrites(t)
    BY <1>4
  <2>2. DOMAIN BookBase' = DOMAIN BookBase
    BY <2>1, LendWritten
  <2> QED BY <1>2, <2>1, <2>2 DEF WaitnumBound
<1>5. CASE \E t \in Threads : ReturnWrites(t)
  <2>1. PICK t \in Threads : ReturnWrites(t)
    BY <1>5
  <2>2. DOMAIN BookBase' = DOMAIN BookBase
    BY <2>1, ReturnWritten
  <2> QED BY <1>3, <2>1, <2>2 DEF WaitnumBound
<1> QED BY <1>1, <1>4, <1>5, NextSerial

LEMMA HolderChanges ==
  ASSUME DOMAIN BookBase' = DOMAIN BookBase, NEW bid, NEW w, NEW l, NEW n,
         \A b \in DOMAIN BookBase :
           \/ BookBase'[b] = BookBase[b]
           \/ b = bid /\ IsLent(BookBase'[b], w, l, n)
  PROVE  \/ Holder' = Holder
         \/ /\ bid \in DOMAIN BookBase
            /\ Holder' = [Holder EXCEPT ![bid] = IF l = "1" THEN w ELSE NoNumber]
<1>1. CASE \A b \in DOMAIN BookBase : BookBase'[b] = BookBase[b]
  BY <1>1 DEF Holder
<1>2. CASE ~ \A b \in DOMAIN BookBase : BookBase'[b] = BookBase[b]
  <2>1. bid \in DOMAIN BookBase /\ IsLent(BookBase'[bid], w, l, n)
    BY <1>2
  <2>2. Holder'[bid] = IF l = "1" THEN w ELSE NoNumber
    BY <2>1 DEF Holder, IsLent
  <2>3. \A b \in DOMAIN BookBase : b # bid => Holder'[b] = Holder[b]
    BY DEF Holder
  <2> QED BY <2>1, <2>2, <2>3 DEF Holder
<1> QED BY <1>1, <1>2

(* A loan is Lend, a return is GiveBack, everything else is a stutter.     *)
LEMMA DeskStep ==
  ASSUME Inv, Serial, OneThread, [Next]_vars
  PROVE  [Desk!Next]_Holder
<1>1. BooksStay
  BY DEF Serial
<1>2. CASE UNCHANGED BookBase
  BY <1>2 DEF Holder
<1>3. CASE \E t \in Threads : LendWrites(t)
  <2>1. PICK t \in Threads : LendWrites(t)
    BY <1>3
  <2> DEFINE bid == req[t].bid
             w == req[t].uname
  <2>2. w \in Names \cup {""} /\ pc[t] = "lend"
    BY <2>1, LendWritten
  <2>3. \/ Holder' = Holder
        \/ bid \in DOMAIN BookBase /\ Holder' = [Holder EXCEPT ![bid] = w]
    <3>1. /\ DOMAIN BookBase' = DOMAIN BookBase
          /\ \A b \in DOMAIN BookBase :
               BookBase'[b] = BookBase[b] \/ (b = bid /\ IsLent(BookBase'[b], w, "1", req[t].num))
      BY <2>1, LendWritten
    <3> HIDE DEF bid, w
    <3> QED BY <3>1, HolderChanges
  <2>4. CASE bid \in DOMAIN BookBase /\ Holder' = [Holder EXCEPT ![bid] = w]
    <3>1. BookBase[bid].islend # "1" /\ BookBase[bid].owner # w
      BY <2>2, <2>4 DEF Serial, RequestsFit, LendFits
    <3>2. Holder[bid] = NoNumber /\ w # InitialBooks[bid].owner /\ bid \in DOMAIN InitialBooks
      BY <1>1, <2>4, <3>1 DEF Holder, BooksStay
    <3> HIDE DEF bid, w
    <3>3. Desk!Lend(bid, w)
      BY <2>4, <3>2 DEF Desk!Lend
    <3> QED BY <2>2, <3>2, <3>3 DEF Desk!Next
  <2> QED BY <2>3, <2>4
<1>4. CASE \E t \in Threads : ReturnWrites(t)
  <2>1. PICK t \in Threads : ReturnWrites(t)
    BY <1>4
  <2> DEFINE bid == req[t].bid
  <2>2. \/ Holder' = Holder
        \/ bid \in DOMAIN BookBase /\ Holder' = [Holder EXCEPT ![bid] = NoNumber]
    BY <2>1, ReturnWritten, HolderChanges
  <2> HIDE DEF bid
  <2>3. CASE bid \in DOMAIN BookBase /\ Holder' = [Holder EXCEPT ![bid] = NoNumber]
    BY <1>1, <2>3 DEF BooksStay, Desk!Next, Desk!GiveBack
  <2> QED BY <2>2, <2>3
<1> QED BY <1>2, <1>3, <1>4, NextSerial

LEMMA DeskInit == Init => Desk!Init
<1> SUFFICES ASSUME Init PROVE Desk!Init
  OBVIOUS
<1>1. BookBase = InitialBooks /\ IsTable(InitialBooks)
  BY LendingAssumption DEF Init
<1>2. \A b \in DOMAIN BookBase : BookBase[b].borrower \in Names \cup {"", "NULL"}
  BY <1>1, RowType DEF IsTable, IsBookMap, Book
<1> QED BY <1>1, <1>2 DEF Desk!Init, Holder

-----------------------------------------------------------------------------
(* The theorems.                                                           *)

(* A server with one connection thread is a desk: it lends no book that is *)
(* out and none to its owner, whatever fails between its reads and its     *)
(* writes and whenever it dies and starts again.                           *)
THEOREM LendingImplementsDesk ==
  ASSUME OneThread PROVE Spec => ImplementsDesk
<1>1. Init => Inv /\ Serial
  BY InitInv, InitSerial
<1>2. Inv /\ Serial /\ [Next]_vars => Inv' /\ Serial'
  BY NextInv, NextSerial
<1>3. Inv /\ Serial /\ [Next]_vars => [Desk!Next]_Holder
  BY DeskStep
<1> QED BY <1>1, <1>2, <1>3, DeskInit, PTL DEF Spec, ImplementsDesk, Desk!Spec

(* Then waitnum never counts a loan twice, if it did not at first.         *)
THEOREM LendingWaitnumBound ==
  ASSUME OneThread,
         \A b \in DOMAIN InitialBooks :
           InitialBooks[b].num <= IF InitialBooks[b].islend = "1" THEN 1 ELSE 0
  PROVE  Spec => []WaitnumBound
<1>1. Init => Inv /\ Serial /\ WaitnumBound
  BY InitInv, InitSerial DEF Init, WaitnumBound
<1>2. Inv /\ Serial /\ [Next]_vars => Inv' /\ Serial'
  BY NextInv, NextSerial
<1>3. Inv /\ Serial /\ WaitnumBound /\ [Next]_vars => WaitnumBound'
  BY WaitnumStep
<1> QED BY <1>1, <1>2, <1>3, PTL DEF Spec

-----------------------------------------------------------------------------
(* The map between two requests.                                           *)

MapWhole == model \in {EmptyMap, Loaded(BookBase, book_config), BookBase}

(* The map is whole, unless a Load() is under way and has built a part.    *)
SoFar ==
  /\ \A t \in Threads : LoadSoFar(t)
  /\ (\A t \in Threads : pc[t] \notin {"clear", "connect", "fetch", "config"})
       => MapWhole

(* A thread that is not in Load() has the whole map, or none of it.        *)
LEMMA OutsideLoad ==
  ASSUME OneThread, NEW t \in Threads,
         pc'[t] \notin {"clear", "connect", "fetch", "config"},
         SoFar, UNCHANGED bookVars,
         pc[t] \notin {"clear", "connect", "fetch", "config"}
  PROVE  SoFar'
<1>1. \A s \in Threads : s = t
  BY DEF OneThread
<1>2. MapWhole'
  BY <1>1 DEF SoFar, MapWhole, bookVars
<1> QED BY <1>1, <1>2 DEF SoFar, LoadSoFar

LEMMA NoThreadsSoFar ==
  ASSUME NoThreads, MapWhole'
  PROVE  SoFar'
BY DEF NoThreads, SoFar, LoadSoFar

LEMMA GoneSoFar ==
  ASSUME NoThreads, Gone
  PROVE  SoFar'
BY NoThreadsSoFar DEF Gone, BookModelGone, MapWhole

LEMMA StartSoFar ==
  ASSUME BookModelTypeOK, Start
  PROVE  SoFar'
<1>1. PICK how, uhow, chow : Boot(how, uhow, chow) /\ BookModelBooted(how)
  BY DEF Start
<1>2. NoThreads /\ UNCHANGED <<BookBase, book_config>> /\ model' = BootedModel(how)
  BY <1>1 DEF Boot, BookModelBooted
<1>3. Loaded(BookBase, {}) = BookBase
  BY DEF BookModelTypeOK, IsTable, IsBookMap, Loaded, Entry
<1>4. MapWhole'
  BY <1>2, <1>3 DEF BootedModel, MapWhole
<1> QED BY <1>2, <1>4, NoThreadsSoFar

LEMMA NextSoFar ==
  ASSUME Inv, SoFar, OneThread, [Next]_vars
  PROVE  SoFar'
<1>1. CASE Start
  BY <1>1, StartSoFar DEF Inv, TypeOK
<1>2. CASE Crash
  BY <1>2, GoneSoFar DEF Crash, Kill
<1>3. Abort => SoFar'
  BY GoneSoFar DEF Abort, Terminate
<1>4. CASE UNCHANGED vars
  BY <1>4 DEF vars, processVars, bookVars, SoFar, LoadSoFar, MapWhole, PartOf
<1>5. pc \in [Threads -> PcLabels] /\ BookModelTypeOK /\ KeysKnown
  BY DEF Inv, TypeOK
<1>6. \A t \in Threads : \A label : Goto(t, label) => pc'[t] = label
  BY <1>5 DEF Goto
<1>7. ASSUME NEW t \in Threads, Request(t) PROVE SoFar'
  <2>1. CASE UNCHANGED vars \/ Abort
    BY <1>3, <1>4, <2>1
  <2>2. ASSUME NEW b \in Asked, NEW u \in Uids, NEW days \in LendTimes,
               LendAccepted(t, b, u, days)
        PROVE  SoFar'
    BY <1>6, <2>2, OutsideLoad DEF LendAccepted, Receive
  <2>3. ASSUME NEW b \in Asked, NEW u \in Uids, ReturnComments(t, b, u)
        PROVE  SoFar'
    <3>1. pc[t] = "idle" /\ pc'[t] = "comments" /\ UNCHANGED bookVars
      BY <1>6, <2>3 DEF ReturnComments, Receive, bookVars
    <3> QED BY <3>1, OutsideLoad
  <2> QED BY <1>7, <2>1, <2>2, <2>3
          DEF Request, LendTooLong, LendRefused, LendAborts, ReturnAborts
<1>8. ASSUME NEW t \in Threads, Handle(t) PROVE SoFar'
  <2>1. CASE LendWrites(t) \/ ReturnWrites(t)
    <3>1. pc'[t] = "clear"
      BY <1>6, <2>1 DEF LendWrites, ReturnWrites
    <3>2. \A s \in Threads : pc'[s] = "clear"
      BY <3>1 DEF OneThread
    <3> QED BY <3>2 DEF SoFar, LoadSoFar
  <2>2. CASE ReturnLoadsComments(t)
    <3>1. pc[t] = "comments" /\ pc'[t] = "return" /\ UNCHANGED bookVars
      BY <1>6, <2>2 DEF ReturnLoadsComments
    <3> QED BY <3>1, OutsideLoad
  <2>3. CASE ReturnAbortsLate(t)
    BY <1>3, <2>3 DEF ReturnAbortsLate
  <2>4. CASE Reload(t)
    <3>1. Load(t)
      BY <2>4 DEF Reload
    <3>2. LoadSoFar(t)' /\ (pc'[t] = "idle" => MapWhole')
      BY <1>5, <3>1, LoadAlone DEF SoFar, MapWhole
    <3>3. pc'[t] \in {"idle", "connect", "fetch", "config"}
      <4>1. {"idle", "clear", "connect", "fetch", "config"} \subseteq PcLabels
        BY DEF PcLabels
      <4> QED BY <1>5, <3>1, <4>1, LoadKeeps DEF Inv, TypeOK
    <3>4. \A s \in Threads : s = t
      BY DEF OneThread
    <3> QED BY <3>2, <3>3, <3>4 DEF SoFar, LoadSoFar
  <2> QED BY <1>8, <2>1, <2>2, <2>3, <2>4 DEF Handle
<1> QED BY <1>1, <1>2, <1>4, <1>7, <1>8 DEF Next

(* Between two requests the map of a server with one connection thread is  *)
(* the whole table with its config lines, the whole table, or empty:       *)
(* however Load() and main() fail, it never keeps some of the books, or    *)
(* the rows as they were before a write.                                   *)
THEOREM LendingMapAllOrNothing ==
  ASSUME OneThread PROVE Spec => []MapAllOrNothing
<1>1. Init => SoFar
  BY DEF Init, SoFar, LoadSoFar, MapWhole
<1>2. Inv /\ SoFar /\ [Next]_vars => SoFar'
  BY NextSoFar
<1>3. SoFar => MapAllOrNothing
  BY DEF SoFar, MapWhole, MapAllOrNothing, Quiescent
<1> QED BY InitInv, NextInv, <1>1, <1>2, <1>3, PTL DEF Spec
=============================================================================
