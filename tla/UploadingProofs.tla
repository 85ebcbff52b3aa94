-------------------------- MODULE UploadingProofs --------------------------
(* Uploading, proved for any number of threads, books, users and faults.   *)
EXTENDS Uploading, ModelProofs

-----------------------------------------------------------------------------
(* The inductive invariant.                                                *)

(* The ids in use are 1..n.                                                *)
IdsInterval == \E n \in Nat : Ids = 1..n

(* Every id below the one a handler has computed is in use: it has counted *)
(* entries of the map, and each of them is a row or a config line.         *)
FormsNext ==
  \A t \in Threads : pc[t] \in Uploads => 1..(form[t].bid - 1) \subseteq Ids

(* A handler that writes files has stored its row.                         *)
FormsStored ==
  \A t \in Threads : pc[t] \in {"describe", "register"} =>
    /\ form[t].bid \in DOMAIN BookBase
    /\ BookBase[form[t].bid].isbn = form[t].isbn

(* Nothing is described before it is stored.                               *)
StoredFirst == \A b \in Bids \ DOMAIN BookBase : desc_txt[b] = {}

Inv ==
  /\ TypeOK
  /\ ConnsAccounted
  /\ KeysKnown
  /\ IdsInterval
  /\ FormsNext
  /\ FormsStored
  /\ StoredFirst
  /\ DescribesRow

-----------------------------------------------------------------------------
(* Lemmas.                                                                 *)

(* However a race goes, no more books are counted than there are ids.      *)
LEMMA CountBelowIds ==
  ASSUME BookModelTypeOK, KeysKnown, NEW n \in Nat, Ids = 1..n,
         NEW t, NEW k \in AllBooks(t)
  PROVE  k \in Nat /\ k <= n
<1>1. IsFiniteSet(1..n) /\ Cardinality(1..n) = n
  <2>1. \A a, b \in Int : /\ IsFiniteSet(a..b)
                          /\ Cardinality(a..b) = IF a > b THEN 0 ELSE b - a + 1
    BY FS_Interval
  <2>2. 1 \in Int /\ n \in Int /\ (IF 1 > n THEN 0 ELSE n - 1 + 1) = n
    OBVIOUS
  <2> QED BY <2>1, <2>2
<1>2. DOMAIN model \in SUBSET (1..n)
  BY DEF KeysKnown, Ids
<1>3. Cardinality(DOMAIN model) \in Nat /\ Cardinality(DOMAIN model) <= n
  BY <1>1, <1>2, FS_Subset, FS_CardinalityType
<1>4. k \in 0..Cardinality(DOMAIN model)
  BY <1>3 DEF AllBooks
<1> QED BY <1>3, <1>4

LEMMA NewRowType ==
  ASSUME UserModelTypeOK, NEW f \in Forms
  PROVE  NewRow(f) \in Row(f.bid) /\ NewRow(f).isbn = f.isbn /\ f.bid \in Bids
<1>1. GetUser(f.uid) \in User
  BY UserTypes
<1>2. f.bid \in 1..MaxBooks /\ f.isbn \in Isbns /\ f.uid \in Uids
  BY DEF Forms
<1>3. f.bid \in Bids
  BY <1>2, UploadingAssumption
<1>4. f.isbn # ""
  BY <1>2, BookModelAssumption
<1>5. GetUser(f.uid).uname \in Names \cup {""}
  BY <1>1 DEF User
<1>6. NewRow(f) \in Book
  <2>1. ASSUME NEW b \in Bids, NEW isbn \in Isbns, NEW n \in Names \cup {""},
               NEW k \in Int \cup {NoNumber}, NEW u \in Uids
        PROVE  [id |-> b, isbn |-> isbn, owner |-> n, borrower |-> "NULL",
                islend |-> "0", num |-> k, uid |-> u] \in Book
    BY DEF Book
  <2>2. 0 \in Int \cup {NoNumber}
    OBVIOUS
  <2> QED BY <1>2, <1>3, <1>5, <2>1, <2>2 DEF NewRow
<1>7. NewRow(f).id = f.bid /\ NewRow(f).isbn = f.isbn /\ NewRow(f).islend # ""
      /\ NewRow(f).num \in Int /\ NewRow(f).uid \in Uids
  BY <1>2 DEF NewRow
<1> QED BY <1>3, <1>4, <1>6, <1>7 DEF Row

-----------------------------------------------------------------------------
(* The steps.                                                              *)

LEMMA InitInv == Init => Inv
<1> SUFFICES ASSUME Init PROVE Inv
  OBVIOUS
<1>1. IsTable(InitialBooks) /\ IsBookMap(InitialBooks) /\ InitialConfig \in SUBSET Bids
      /\ IsUserTable(InitialUsers)
  BY UploadingAssumption DEF IsTable
<1>2. MaxConn \in Nat
  BY ProcessAssumption
<1>3. conns \in 0..MaxConn /\ ConnsAccounted
  <2>1. Fetching = {}
    BY DEF Init, Fetching, Fetches
  <2>2. conns = 0 /\ Cardinality({}) = 0
    BY FS_EmptySet DEF Init
  <2> QED BY <1>2, <2>1, <2>2 DEF ConnsAccounted
<1>4. BookModelTypeOK /\ KeysKnown
  <2>1. DOMAIN EmptyMap = {}
    BY DEF EmptyMap
  <2> QED BY <1>1, <2>1, BlankType DEF Init, BookModelTypeOK, KeysKnown
<1>5. UserModelTypeOK
  <2>1. IsUserMap(NoUsers)
    BY DEF IsUserMap, NoUsers
  <2> QED BY <1>1, <2>1 DEF Init, UserModelTypeOK
<1>6. \A b \in Bids : Entry(InitialBooks, b) \in Book
  BY <1>1, EntryType
<1>7. \A b \in Bids : Entry(InitialBooks, b).isbn \in Isbns \cup {""}
  BY <1>6 DEF Book
<1>8. desc_txt \in [Bids -> SUBSET Isbns]
  BY <1>7 DEF Init
<1>9. TypeOK
  BY <1>3, <1>4, <1>5, <1>8 DEF Init, TypeOK, PcLabels, Uploads
<1>10. IdsInterval
  <2>1. PICK n \in 0..MaxBooks : DOMAIN InitialBooks \cup InitialConfig = 1..n
    BY StoredBooksAssumption
  <2>2. n \in Nat
    BY UploadingAssumption
  <2>3. Ids = 1..n
    BY <2>1 DEF Init, Ids
  <2> QED BY <2>2, <2>3 DEF IdsInterval
<1>11. FormsNext /\ FormsStored
  BY DEF Init, FormsNext, FormsStored, Uploads
<1>12. StoredFirst /\ DescribesRow
  BY <1>1 DEF Init, StoredFirst, DescribesRow, Entry, Blank, IsBookMap
<1> QED BY <1>3, <1>4, <1>9, <1>10, <1>11, <1>12 DEF Inv

(* The process ends: the files and the table stay, the handlers go.        *)
LEMMA GoneInv ==
  ASSUME Inv, NoThreads, Gone, conns' \in 0..MaxConn,
         server' \in {"up", "down", "aborted"}
  PROVE  Inv'
<1>1. ConnsAccounted'
  BY NoThreadsCounted
<1>2. UNCHANGED <<BookBase, book_config, user, desc_txt>>
  BY DEF Gone, BookModelGone, UserModelGone
<1>3. BookModelTypeOK' /\ KeysKnown'
  <2>1. DOMAIN EmptyMap = {}
    BY DEF EmptyMap
  <2> QED
    BY <1>2, <2>1, BlankType
    DEF Inv, TypeOK, Gone, BookModelGone, BookModelTypeOK, KeysKnown, IsTable, IsBookMap
<1>4. UserModelTypeOK'
  BY UserTypes DEF Inv, TypeOK, Gone
<1>5. TypeOK'
  BY <1>2, <1>3, <1>4 DEF Inv, TypeOK, Gone, NoThreads, PcLabels, Uploads
<1>6. IdsInterval' /\ StoredFirst' /\ DescribesRow'
  BY <1>2 DEF Inv, IdsInterval, Ids, StoredFirst, DescribesRow
<1>7. FormsNext' /\ FormsStored'
  BY DEF NoThreads, FormsNext, FormsStored, Uploads
<1> QED BY <1>1, <1>3, <1>5, <1>6, <1>7 DEF Inv

LEMMA StartInv == ASSUME Inv, Start PROVE Inv'
<1>1. PICK how, uhow, chow :
        /\ Boot(how, uhow, chow)
        /\ BookModelBooted(how)
        /\ UserModelBooted(uhow)
        /\ UNCHANGED <<form, desc_txt>>
  BY DEF Start
<1>2. conns' \in 0..MaxConn /\ ConnsAccounted'
  BY <1>1, BootCounted
<1>3. NoThreads /\ server' = "up"
  BY <1>1 DEF Boot
<1>4. UNCHANGED <<BookBase, book_config, result, lines, form, desc_txt>>
  BY <1>1 DEF BookModelBooted
<1>5. /\ IsBookMap(model')
      /\ DOMAIN model' \subseteq DOMAIN BookBase \cup book_config
  BY <1>1, BootedType DEF Inv, TypeOK, BookModelBooted
<1>6. BookModelTypeOK' /\ KeysKnown'
  BY <1>4, <1>5 DEF Inv, TypeOK, BookModelTypeOK, KeysKnown, IsTable, IsBookMap
<1>7. UserModelTypeOK'
  BY <1>1, UserTypes DEF Inv, TypeOK
<1>8. TypeOK'
  BY <1>2, <1>3, <1>4, <1>6, <1>7 DEF Inv, TypeOK, NoThreads, PcLabels, Uploads
<1>9. IdsInterval' /\ StoredFirst' /\ DescribesRow'
  BY <1>4 DEF Inv, IdsInterval, Ids, StoredFirst, DescribesRow
<1>10. FormsNext' /\ FormsStored'
  BY <1>3 DEF NoThreads, FormsNext, FormsStored, Uploads
<1> QED BY <1>2, <1>6, <1>8, <1>9, <1>10 DEF Inv

(* A step that leaves the table, the files and the maps alone, and takes   *)
(* its thread to the next step of its handler.                             *)
LEMMA QuietInv ==
  ASSUME Inv, NEW t \in Threads, NEW label \in PcLabels, Goto(t, label),
         UNCHANGED <<server, bookVars, userVars, desc_txt>>,
         pc[t] \notin Fetches, label \notin Fetches,
         conns' = conns \/ (CanConnect /\ conns' = conns + 1),
         form' \in [Threads -> Forms \cup {NoForm}],
         \A s \in Threads \ {t} : form'[s] = form[s],
         label \in Uploads => form'[t] \in Forms,
         label \in Uploads => 1..(form'[t].bid - 1) \subseteq Ids,
         label \notin {"describe", "register"}
  PROVE  Inv'
<1>1. pc \in [Threads -> PcLabels]
  BY DEF Inv, TypeOK
<1>2. pc' \in [Threads -> PcLabels] /\ pc'[t] = label
      /\ \A s \in Threads \ {t} : pc'[s] = pc[s]
  BY <1>1 DEF Goto
<1>3. conns' \in 0..MaxConn /\ ConnsAccounted'
  BY <1>1, ConnsCounted DEF Inv, TypeOK
<1>4. BookModelTypeOK' /\ KeysKnown'
  BY DEF Inv, TypeOK, bookVars, BookModelTypeOK, IsTable, IsBookMap, KeysKnown
<1>5. UserModelTypeOK'
  BY UserTypes DEF Inv, TypeOK
<1>6. \A s \in Threads : pc'[s] \in Uploads => form'[s] \in Forms
  BY <1>2 DEF Inv, TypeOK
<1>7. TypeOK'
  BY <1>2, <1>3, <1>4, <1>5, <1>6 DEF Inv, TypeOK
<1>8. IdsInterval' /\ StoredFirst' /\ DescribesRow' /\ Ids' = Ids
  BY DEF Inv, bookVars, IdsInterval, Ids, StoredFirst, DescribesRow
<1>9. FormsNext'
  BY <1>2, <1>8 DEF Inv, FormsNext
<1>10. FormsStored'
  BY <1>2 DEF Inv, FormsStored, bookVars
<1> QED BY <1>3, <1>4, <1>7, <1>8, <1>9, <1>10 DEF Inv

LEMMA ReceivedInv ==
  ASSUME Inv, NEW t \in Threads, NEW isbn \in Isbns, NEW u \in Uids,
         UploadReceived(t, isbn, u)
  PROVE  Inv'
<1>1. PICK k \in AllBooks(t) :
        /\ k + 1 <= MaxBooks
        /\ form' = [form EXCEPT ![t] = [bid |-> k + 1, isbn |-> isbn, uid |-> u]]
  BY DEF UploadReceived
<1>2. PICK n \in Nat : Ids = 1..n
  BY DEF Inv, IdsInterval
<1>3. k \in Nat /\ k <= n
  BY <1>2, CountBelowIds DEF Inv, TypeOK
<1>4. MaxBooks \in Nat
  BY UploadingAssumption
<1>5. k + 1 \in 1..MaxBooks
  BY <1>1, <1>3, <1>4
<1>6. [bid |-> k + 1, isbn |-> isbn, uid |-> u] \in Forms
  BY <1>5 DEF Forms
<1>7. form \in [Threads -> Forms \cup {NoForm}]
  BY DEF Inv, TypeOK
<1>8. /\ form' \in [Threads -> Forms \cup {NoForm}]
      /\ form'[t] \in Forms /\ form'[t].bid = k + 1
      /\ \A s \in Threads \ {t} : form'[s] = form[s]
  BY <1>1, <1>6, <1>7
<1>9. 1..(form'[t].bid - 1) \subseteq Ids
  BY <1>2, <1>3, <1>8
<1>10. /\ Goto(t, "check") /\ pc[t] \notin Fetches
       /\ UNCHANGED <<server, conns, bookVars, userVars, desc_txt>>
  BY DEF UploadReceived, Fetches
<1>11. "check" \in PcLabels
  BY DEF PcLabels
<1> QED BY <1>8, <1>9, <1>10, <1>11, QuietInv DEF Fetches

(* The handler returns without having stored anything.                     *)
LEMMA DroppedInv ==
  ASSUME Inv, NEW t \in Threads, pc[t] \notin Fetches, Goto(t, "idle"), Forget(t),
         UNCHANGED <<server, bookVars, userVars, desc_txt>>,
         conns' = conns \/ (CanConnect /\ conns' = conns + 1)
  PROVE  Inv'
<1>1. form \in [Threads -> Forms \cup {NoForm}]
  BY DEF Inv, TypeOK
<1>2. /\ form' \in [Threads -> Forms \cup {NoForm}]
      /\ \A s \in Threads \ {t} : form'[s] = form[s]
  BY <1>1 DEF Forget
<1>3. "idle" \in PcLabels /\ "idle" \notin Uploads
  BY DEF PcLabels, Uploads
<1> QED BY <1>2, <1>3, QuietInv DEF Fetches

LEMMA CheckedInv ==
  ASSUME Inv, NEW t \in Threads, UploadChecked(t)
  PROVE  Inv'
<1>1. /\ pc[t] = "check" /\ Goto(t, "insert")
      /\ UNCHANGED <<server, conns, bookVars, userVars, form, desc_txt>>
  BY DEF UploadChecked
<1>2. "check" \in Uploads /\ "insert" \in PcLabels
  BY DEF PcLabels, Uploads
<1>3. form[t] \in Forms /\ 1..(form[t].bid - 1) \subseteq Ids
  BY <1>1, <1>2 DEF Inv, TypeOK, FormsNext
<1> QED BY <1>1, <1>2, <1>3, QuietInv DEF Inv, TypeOK, Fetches

(* The row is stored: under an id that was free, so the next after those   *)
(* in use; no other handler has stored, or is writing files, under it.     *)
LEMMA StoredInv ==
  ASSUME Inv, NEW t \in Threads, pc[t] = "insert",
         CanConnect, conns' = conns + 1,
         form[t].bid \notin DOMAIN BookBase,
         BookBase' = Put(BookBase, form[t].bid, NewRow(form[t])),
         UNCHANGED <<server, book_config, model, result, lines, userVars, desc_txt>>,
         \/ Goto(t, "idle") /\ Forget(t)
         \/ Goto(t, "describe") /\ UNCHANGED form
  PROVE  Inv'
<1> DEFINE bid == form[t].bid
           row == NewRow(form[t])
<1>1. /\ pc \in [Threads -> PcLabels] /\ form \in [Threads -> Forms \cup {NoForm}]
      /\ BookModelTypeOK /\ KeysKnown
  BY DEF Inv, TypeOK
<1>2. form[t] \in Forms /\ 1..(bid - 1) \subseteq Ids
  BY DEF Inv, TypeOK, FormsNext, Uploads
<1>3. bid \in Nat \ {0} /\ bid \in Bids
  BY <1>2, NewRowType DEF Inv, TypeOK, Forms
<1>4. row \in Row(bid) /\ row.isbn = form[t].isbn
  BY <1>2, NewRowType DEF Inv, TypeOK
<1>5. IsTable(BookBase')
  BY <1>1, <1>3, <1>4, PutIsTable DEF BookModelTypeOK
<1>6. /\ DOMAIN BookBase' = DOMAIN BookBase \cup {bid}
      /\ BookBase'[bid] = row
      /\ \A b \in DOMAIN BookBase : BookBase'[b] = BookBase[b]
  BY DEF Put
<1> HIDE DEF row, bid
<1>7. BookModelTypeOK' /\ KeysKnown'
  BY <1>1, <1>5, <1>6 DEF BookModelTypeOK, KeysKnown, IsTable, IsBookMap
<1>8. PICK label \in {"idle", "describe"} :
        /\ Goto(t, label)
        /\ label = "describe" => UNCHANGED form
        /\ label = "idle" => Forget(t)
  OBVIOUS
<1>9. /\ pc' \in [Threads -> PcLabels] /\ pc'[t] = label
      /\ \A s \in Threads \ {t} : pc'[s] = pc[s]
  BY <1>1, <1>8 DEF Goto, PcLabels
<1>10. /\ form' \in [Threads -> Forms \cup {NoForm}]
       /\ label = "describe" => form'[t] = form[t]
       /\ \A s \in Threads \ {t} : form'[s] = form[s]
  BY <1>1, <1>8 DEF Forget
<1>11. conns' \in 0..MaxConn /\ ConnsAccounted'
  BY <1>1, <1>8, ConnsCounted DEF Inv, TypeOK, Fetches
<1>12. UserModelTypeOK'
  BY UserTypes DEF Inv, TypeOK
<1>13. \A s \in Threads : pc'[s] \in Uploads => form'[s] \in Forms
  BY <1>2, <1>8, <1>9, <1>10 DEF Inv, TypeOK, Uploads
<1>14. TypeOK'
  BY <1>7, <1>9, <1>10, <1>11, <1>12, <1>13 DEF Inv, TypeOK
<1>15. Ids' = Ids \cup {bid}
  BY <1>6 DEF Ids
<1>16. IdsInterval'
  <2>1. PICK n \in Nat : Ids = 1..n
    BY DEF Inv, IdsInterval
  <2>2. bid <= n + 1
    <3>1. 1..(bid - 1) \subseteq 1..n
      BY <1>2, <2>1
    <3>2. bid > n + 1 => n + 1 \in 1..(bid - 1)
      BY <1>3
    <3>3. n + 1 \notin 1..n
      OBVIOUS
    <3> QED BY <1>3, <3>1, <3>2, <3>3
  <2>3. Ids \cup {bid} = 1..n \/ Ids \cup {bid} = 1..(n + 1)
    BY <1>3, <2>1, <2>2
  <2> QED BY <1>15, <2>1, <2>3 DEF IdsInterval
<1>17. FormsNext'
  BY <1>2, <1>8, <1>9, <1>10, <1>15 DEF Inv, FormsNext, Uploads, bid
<1>18. FormsStored'
  BY <1>4, <1>6, <1>8, <1>9, <1>10 DEF Inv, FormsStored, bid
<1>19. StoredFirst' /\ DescribesRow'
  BY <1>3, <1>6 DEF Inv, StoredFirst, DescribesRow, bid
<1> QED BY <1>7, <1>11, <1>14, <1>16, <1>17, <1>18, <1>19 DEF Inv

LEMMA DescribesInv ==
  ASSUME Inv, NEW t \in Threads, UploadDescribes(t)
  PROVE  Inv'
<1> DEFINE bid == form[t].bid
<1>1. /\ pc[t] = "describe" /\ Goto(t, "register")
      /\ UNCHANGED <<server, conns, bookVars, userVars, form>>
      /\ \/ desc_txt' = [desc_txt EXCEPT ![bid] = desc_txt[bid] \cup {form[t].isbn}]
         \/ UNCHANGED desc_txt
  BY DEF UploadDescribes
<1>2. form[t] \in Forms /\ bid \in DOMAIN BookBase /\ BookBase[bid].isbn = form[t].isbn
  BY <1>1 DEF Inv, TypeOK, FormsStored, Uploads
<1>3. form[t].isbn \in Isbns
  BY <1>2 DEF Forms
<1>4. pc \in [Threads -> PcLabels] /\ desc_txt \in [Bids -> SUBSET Isbns]
  BY DEF Inv, TypeOK
<1>5. /\ pc' \in [Threads -> PcLabels] /\ pc'[t] = "register"
      /\ \A s \in Threads \ {t} : pc'[s] = pc[s]
  BY <1>1, <1>4 DEF Goto, PcLabels
<1>6. conns' \in 0..MaxConn /\ ConnsAccounted'
  BY <1>1, <1>4, ConnsCounted DEF Inv, TypeOK, Fetches
<1>7. BookModelTypeOK' /\ KeysKnown'
  BY <1>1 DEF Inv, TypeOK, bookVars, BookModelTypeOK, IsTable, IsBookMap, KeysKnown
<1>8. UserModelTypeOK'
  BY <1>1, UserTypes DEF Inv, TypeOK
<1> HIDE DEF bid
<1>9. /\ desc_txt' \in [Bids -> SUBSET Isbns]
      /\ \A b \in Bids : b # bid => desc_txt'[b] = desc_txt[b]
      /\ desc_txt'[bid] \subseteq desc_txt[bid] \cup {form[t].isbn}
  BY <1>1, <1>3, <1>4
<1>10. TypeOK'
  BY <1>1, <1>2, <1>5, <1>6, <1>7, <1>8, <1>9 DEF Inv, TypeOK, Uploads
<1>11. IdsInterval' /\ Ids' = Ids
  BY <1>1 DEF Inv, bookVars, IdsInterval, Ids
<1>12. FormsNext' /\ FormsStored'
  BY <1>1, <1>2, <1>5, <1>11 DEF Inv, FormsNext, FormsStored, bookVars, Uploads
<1>13. DOMAIN BookBase \subseteq Bids
  BY DEF Inv, TypeOK, BookModelTypeOK, IsTable, IsBookMap
<1>14. StoredFirst' /\ DescribesRow'
  BY <1>1, <1>2, <1>9, <1>13 DEF Inv, bookVars, StoredFirst, DescribesRow
<1> QED BY <1>6, <1>7, <1>10, <1>11, <1>12, <1>14 DEF Inv

LEMMA RegistersInv ==
  ASSUME Inv, NEW t \in Threads, UploadRegisters(t)
  PROVE  Inv'
<1>1. /\ pc[t] = "register" /\ Goto(t, "clear") /\ Forget(t)
      /\ UNCHANGED <<server, conns, BookBase, model, result, lines, userVars, desc_txt>>
      /\ book_config' = book_config \cup {form[t].bid} \/ UNCHANGED book_config
  BY DEF UploadRegisters
<1>2. form[t].bid \in DOMAIN BookBase /\ DOMAIN BookBase \subseteq Bids
  BY <1>1
  DEF Inv, TypeOK, FormsStored, BookModelTypeOK, IsTable, IsBookMap
<1>3. /\ pc \in [Threads -> PcLabels] /\ form \in [Threads -> Forms \cup {NoForm}]
      /\ BookModelTypeOK /\ KeysKnown
  BY DEF Inv, TypeOK
<1>4. /\ pc' \in [Threads -> PcLabels] /\ pc'[t] = "clear"
      /\ \A s \in Threads \ {t} : pc'[s] = pc[s]
      /\ form' \in [Threads -> Forms \cup {NoForm}]
      /\ \A s \in Threads \ {t} : form'[s] = form[s]
  BY <1>1, <1>3 DEF Goto, Forget, PcLabels
<1>5. conns' \in 0..MaxConn /\ ConnsAccounted'
  BY <1>1, <1>3, ConnsCounted DEF Inv, TypeOK, Fetches
<1>6. book_config \subseteq book_config' /\ book_config' \subseteq Bids
  BY <1>1, <1>2, <1>3 DEF BookModelTypeOK
<1>7. BookModelTypeOK' /\ KeysKnown'
  BY <1>1, <1>3, <1>6 DEF BookModelTypeOK, IsTable, IsBookMap, KeysKnown
<1>8. UserModelTypeOK'
  BY <1>1, UserTypes DEF Inv, TypeOK
<1>9. TypeOK'
  BY <1>1, <1>4, <1>5, <1>7, <1>8 DEF Inv, TypeOK, Uploads
<1>10. Ids' = Ids
  BY <1>1, <1>2 DEF Ids
<1>11. IdsInterval' /\ StoredFirst' /\ DescribesRow'
  BY <1>1, <1>10 DEF Inv, IdsInterval, StoredFirst, DescribesRow
<1>12. FormsNext' /\ FormsStored'
  BY <1>1, <1>4, <1>10 DEF Inv, FormsNext, FormsStored, Uploads
<1> QED BY <1>5, <1>7, <1>9, <1>11, <1>12 DEF Inv

LEMMA ReloadInv ==
  ASSUME Inv, NEW t \in Threads, Reload(t)
  PROVE  Inv'
<1>1. Load(t) /\ UNCHANGED <<userVars, form, desc_txt>>
  BY DEF Reload
<1>2. {"idle", "clear", "connect", "fetch", "config"} \subseteq PcLabels
  BY DEF PcLabels
<1>3. /\ BookModelTypeOK' /\ KeysKnown'
      /\ conns' \in 0..MaxConn /\ ConnsAccounted'
      /\ pc' \in [Threads -> PcLabels]
      /\ pc'[t] \in {"idle", "connect", "fetch", "config"}
      /\ \A s \in Threads \ {t} : pc'[s] = pc[s]
      /\ UNCHANGED <<server, BookBase, book_config>>
  BY <1>1, <1>2, LoadKeeps DEF Inv, TypeOK
<1>4. UserModelTypeOK'
  BY <1>1, UserTypes DEF Inv, TypeOK
<1>5. TypeOK'
  BY <1>1, <1>3, <1>4 DEF Inv, TypeOK, Uploads
<1>6. IdsInterval' /\ StoredFirst' /\ DescribesRow' /\ Ids' = Ids
  BY <1>1, <1>3 DEF Inv, IdsInterval, Ids, StoredFirst, DescribesRow
<1>7. FormsNext' /\ FormsStored'
  BY <1>1, <1>3, <1>6 DEF Inv, FormsNext, FormsStored, Uploads
<1> QED BY <1>3, <1>5, <1>6, <1>7 DEF Inv

LEMMA NextInv == Inv /\ [Next]_vars => Inv'
<1> SUFFICES ASSUME Inv, [Next]_vars PROVE Inv'
  OBVIOUS
<1>1. CASE Start
  BY <1>1, StartInv
<1>2. CASE Crash
  <2>1. MaxConn \in Nat
    BY ProcessAssumption
  <2>2. Gone /\ NoThreads /\ conns' = 0 /\ server' = "down"
    BY <1>2 DEF Crash, Kill
  <2> QED BY <2>1, <2>2, GoneInv
<1>3. ASSUME NEW t \in Threads, Request(t) PROVE Inv'
  BY <1>3, ReceivedInv DEF Request
<1>4. ASSUME NEW t \in Threads, Handle(t) PROVE Inv'
  <2>1. CASE UploadRefused(t)
    BY <2>1, DroppedInv DEF UploadRefused, Fetches
  <2>2. CASE UploadChecked(t)
    BY <2>2, CheckedInv
  <2>3. CASE UploadNotInserted(t)
    <3>1. /\ pc[t] = "insert" /\ Goto(t, "idle") /\ Forget(t)
          /\ UNCHANGED <<server, book_config, model, result, lines, userVars, desc_txt>>
      BY <2>3 DEF UploadNotInserted
    <3>2. CASE /\ UNCHANGED BookBase
               /\ conns' = conns \/ (CanConnect /\ conns' = conns + 1)
      BY <3>1, <3>2, DroppedInv DEF bookVars, Fetches
    <3>3. CASE /\ form[t].bid \notin DOMAIN BookBase
               /\ CanConnect /\ conns' = conns + 1
               /\ BookBase' = Put(BookBase, form[t].bid, NewRow(form[t]))
      BY <3>1, <3>3, StoredInv
    <3> QED BY <2>3, <3>2, <3>3 DEF UploadNotInserted, Leak
  <2>4. CASE UploadInserted(t)
    BY <2>4, StoredInv DEF UploadInserted, Leak
  <2>5. CASE UploadAborts(t)
    <3>1. MaxConn \in Nat
      BY ProcessAssumption
    <3>2. Gone /\ NoThreads /\ conns' = 0 /\ server' = "aborted"
      BY <2>5 DEF UploadAborts, Terminate
    <3> QED BY <3>1, <3>2, GoneInv
  <2>6. CASE UploadDescribes(t)
    BY <2>6, DescribesInv
  <2>7. CASE UploadRegisters(t)
    BY <2>7, RegistersInv
  <2>8. CASE Reload(t)
    BY <2>8, ReloadInv
  <2> QED BY <1>4, <2>1, <2>2, <2>3, <2>4, <2>5, <2>6, <2>7, <2>8 DEF Handle
<1>5. CASE UNCHANGED vars
  <2>1. UNCHANGED <<processVars, bookVars, userVars, form, desc_txt>>
    BY <1>5 DEF vars
  <2>2. BookModelTypeOK' /\ KeysKnown' /\ ConnsAccounted'
    BY <2>1 DEF Inv, TypeOK, bookVars, processVars, BookModelTypeOK, IsTable,
                IsBookMap, KeysKnown, ConnsAccounted, Fetching
  <2>3. UserModelTypeOK'
    BY <2>1, UserTypes DEF Inv, TypeOK
  <2>4. TypeOK'
    BY <2>1, <2>2, <2>3 DEF Inv, TypeOK, processVars
  <2>5. IdsInterval' /\ StoredFirst' /\ DescribesRow' /\ Ids' = Ids
    BY <2>1 DEF Inv, bookVars, IdsInterval, Ids, StoredFirst, DescribesRow
  <2>6. FormsNext' /\ FormsStored'
    BY <2>1, <2>5 DEF Inv, FormsNext, FormsStored, processVars, bookVars
  <2> QED BY <2>2, <2>4, <2>5, <2>6 DEF Inv
<1> QED BY <1>1, <1>2, <1>3, <1>4, <1>5 DEF Next

-----------------------------------------------------------------------------
(* The theorems.                                                           *)

(* All variables of the upload handler, the book map, the table and the    *)
(* connections keep their types, however many threads race and whatever    *)
(* fails.                                                                  *)
THEOREM UploadingTypeOK == Spec => []TypeOK
<1>1. Inv => TypeOK
  BY DEF Inv
<1> QED BY InitInv, NextInv, <1>1, PTL DEF Spec

(* The ids of the rows and the config lines are always 1..n: neither races *)
(* of the threads that count the map while it is rebuilt, nor failing      *)
(* writes and reloads, nor a crash leaves a gap.                           *)
THEOREM UploadingIdsContiguous == Spec => []IdsContiguous
<1>1. Inv => IdsContiguous
  <2> SUFFICES ASSUME Inv PROVE IdsContiguous
    OBVIOUS
  <2>1. PICK n \in Nat : Ids = 1..n
    BY DEF Inv, IdsInterval
  <2>2. Cardinality(1..n) = n
    <3>1. \A a, b \in Int : Cardinality(a..b) = IF a > b THEN 0 ELSE b - a + 1
      BY FS_Interval
    <3>2. 1 \in Int /\ n \in Int /\ (IF 1 > n THEN 0 ELSE n - 1 + 1) = n
      OBVIOUS
    <3> QED BY <3>1, <3>2
  <2> QED BY <2>1, <2>2 DEF IdsContiguous
<1> QED BY InitInv, NextInv, <1>1, PTL DEF Spec

(* The description stored under an id is always the one of the row's book: *)
(* no upload writes its files under another's id.                          *)
THEOREM UploadingDescribesRow == Spec => []DescribesRow
<1>1. Inv => DescribesRow
  BY DEF Inv
<1> QED BY InitInv, NextInv, <1>1, PTL DEF Spec

(* No step takes a row away, and only UploadRegisters writes a config      *)
(* line.                                                                   *)
LEMMA RowsKept ==
  ASSUME [Next]_vars
  PROVE  /\ DOMAIN BookBase \subseteq DOMAIN BookBase'
         /\ \/ UNCHANGED book_config
            \/ \E t \in Threads : UploadRegisters(t)
<1>1. CASE Start \/ Crash \/ UNCHANGED vars
  BY <1>1 DEF Start, Crash, Gone, BookModelGone, BookModelBooted, vars, bookVars
<1>2. ASSUME NEW t \in Threads, Request(t)
      PROVE  UNCHANGED <<BookBase, book_config>>
  BY <1>2 DEF Request, UploadReceived, bookVars
<1>3. ASSUME NEW t \in Threads, Handle(t)
      PROVE  /\ DOMAIN BookBase \subseteq DOMAIN BookBase'
             /\ UNCHANGED book_config \/ UploadRegisters(t)
  <2>1. CASE UploadRefused(t) \/ UploadChecked(t) \/ UploadDescribes(t)
    BY <2>1 DEF UploadRefused, UploadChecked, UploadDescribes, bookVars
  <2>2. CASE UploadNotInserted(t) \/ UploadInserted(t)
    BY <2>2 DEF UploadNotInserted, UploadInserted, Put
  <2>3. CASE UploadAborts(t)
    BY <2>3 DEF UploadAborts, Gone, BookModelGone
  <2>4. CASE UploadRegisters(t)
    BY <2>4 DEF UploadRegisters
  <2>5. CASE Reload(t)
    BY <2>5 DEF Reload, Load, LoadClear, LoadConnectFails, LoadSelectFails,
                LoadSelect, LoadFetch, LoadClose, LoadConfigLine, LoadReturn, bookVars
  <2> QED BY <1>3, <2>1, <2>2, <2>3, <2>4, <2>5 DEF Handle
<1> QED BY <1>1, <1>2, <1>3 DEF Next

(* If that was so of the files the server was first started with, a config *)
(* line always has its row: a thread writes one only after its own insert  *)
(* succeeded.                                                              *)
THEOREM UploadingConfiguredHasRow ==
  ASSUME InitialConfig \subseteq DOMAIN InitialBooks
  PROVE  Spec => []ConfiguredHasRow
<1>1. Init => ConfiguredHasRow
  BY DEF Init, ConfiguredHasRow
<1>2. Inv /\ ConfiguredHasRow /\ [Next]_vars => ConfiguredHasRow'
  <2> SUFFICES ASSUME Inv, ConfiguredHasRow, [Next]_vars PROVE ConfiguredHasRow'
    OBVIOUS
  <2>1. ASSUME NEW t \in Threads, UploadRegisters(t)
        PROVE  book_config' \subseteq DOMAIN BookBase
    BY <2>1 DEF UploadRegisters, Inv, FormsStored, ConfiguredHasRow
  <2> QED BY <2>1, RowsKept DEF ConfiguredHasRow
<1> QED BY InitInv, NextInv, <1>1, <1>2, PTL DEF Spec
=============================================================================
