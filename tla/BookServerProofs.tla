-------------------------- MODULE BookServerProofs --------------------------
(* The whole program, one request at a time: until the connections are     *)
(* used up every map is its table between two requests; and whatever is    *)
(* asked for, and whenever the process dies, the tables agree with each    *)
(* other and the pages with the tables.                                    *)
EXTENDS BookServer, ModelProofs

-----------------------------------------------------------------------------
(* The inductive invariant.                                                *)

(* Where the map of the books may differ from its table: from the write to *)
(* the end of the Load() that follows it.  The same of the users and of    *)
(* the comments.                                                           *)
BooksAway == {"describe", "register", "clear", "connect", "fetch", "config"}
UsersAway == {"udescribe", "uregister", "uconnect", "ufetch", "uconfig"}
CommsAway == {"comments", "loadcomments"}

Labels ==
  {"idle", "lend", "return", "check", "insert", "ucheck", "uinsert"}
    \cup BooksAway \cup UsersAway \cup CommsAway

(* There is a connection for the next one who asks; a Load() that fetches  *)
(* is going to give its own back.                                          *)
Room(t) == conns < MaxConn \/ pc[t] \in Fetches

(* The process, its threads and its connections.                           *)
Counted ==
  /\ server \in {"up", "down", "aborted"}
  /\ pc \in [Threads -> Labels]
  /\ conns \in 0..MaxConn
  /\ ConnsAccounted

(* The books: a map that is not away is the table, or it is empty, and     *)
(* then there has been no connection.                                      *)
BooksFollow(t) ==
  /\ LoadSoFar(t)
  /\ server = "up" /\ pc[t] \notin BooksAway =>
       model = BookBase \/ (model = EmptyMap /\ ~ Room(t))

Books ==
  /\ BookModelTypeOK /\ KeysKnown
  /\ book_config \subseteq DOMAIN BookBase
  /\ \A t \in Threads : BooksFollow(t)

(* The users: the map is a part of the table; it lacks none while there is *)
(* a connection.                                                           *)
UsersFollow(t) ==
  /\ pc[t] = "ufetch" =>
       DOMAIN user \subseteq DOMAIN umodel \cup DOMAIN uresult[t]
  /\ server = "up" /\ pc[t] \notin UsersAway /\ Room(t) =>
       DOMAIN user \subseteq DOMAIN umodel
  /\ pc[t] = "uconfig" => DOMAIN user \subseteq DOMAIN umodel

Users ==
  /\ UsersKnown
  /\ user_config \subseteq DOMAIN user
  /\ PartOf(umodel, user)
  /\ \A t \in Threads : UsersFollow(t)

(* The comments.                                                           *)
CommsFollow(t) ==
  server = "up" /\ pc[t] \notin CommsAway /\ Room(t) => cmodel = Comments

Comms ==
  /\ cmodel \subseteq Comments
  /\ \A t \in Threads : CommsFollow(t)

(* The tables, and that a book that is in has no borrower.                 *)
Tables ==
  /\ IsbnUnique
  /\ TablesAgree
  /\ \A b \in DOMAIN BookBase :
       BookBase[b].islend # "1" => BookBase[b].borrower = "NULL"
  /\ IsFiniteSet(DOMAIN BookBase) /\ IsFiniteSet(DOMAIN user)

(* The locals a handler's next steps rely on.                              *)
LendReady(t) ==
  LET r == req[t]
  IN  /\ r.bid \in DOMAIN BookBase => BookBase[r.bid].islend # "1"
      /\ r.uname \in Names \cup {""} /\ r.num \in Int
      /\ conns < MaxConn =>
           r.uname = "" \/ \E u \in DOMAIN user : user[u].uname = r.uname

InsertReady(t) ==
  LET f == form[t]
  IN  /\ f.uid \in DOMAIN umodel
      /\ conns < MaxConn => \A b \in DOMAIN BookBase : BookBase[b].isbn # f.isbn

Ready(t) ==
  /\ pc[t] = "lend" => LendReady(t)
  /\ pc[t] \in {"comments", "return"} => req[t].num \in Int
  /\ pc[t] \in Up!Uploads => form[t] \in Up!Forms
  /\ pc[t] = "insert" => InsertReady(t)
  /\ pc[t] \in {"describe", "register"} => form[t].bid \in DOMAIN BookBase
  /\ pc[t] \in E!Enrolling => enrol[t] \in E!Enrols
  /\ pc[t] \in {"udescribe", "uregister"} => enrol[t].uid \in DOMAIN user

Locals ==
  /\ DOMAIN req = Threads /\ DOMAIN form = Threads /\ DOMAIN enrol = Threads
  /\ \A t \in Threads : Ready(t)

Inv == Counted /\ Books /\ Users /\ Comms /\ Tables /\ Locals

-----------------------------------------------------------------------------
(* One thread, and one Load() of each kind in all components.              *)

LEMMA OnlyThread == OneThread
<1>1. IsFiniteSet(Threads) /\ Cardinality(Threads) = 1
  BY ProcessAssumption, BookServerAssumption
<1>2. \E t : Threads = {t}
  BY <1>1, FS_Singleton
<1> QED BY <1>2 DEF OneThread

LEMMA LoadIsLoad ==
  ASSUME NEW t
  PROVE  (L!Load(t) => Load(t)) /\ (Up!Load(t) => Load(t))
<1>1. L!Load(t) => Load(t)
  <2>1. L!LoadClear(t) => LoadClear(t)
    BY DEF L!LoadClear, LoadClear, L!Goto, Goto, L!EmptyMap, EmptyMap, L!Blank, Blank
  <2>2. L!LoadConnectFails(t) => LoadConnectFails(t)
    BY DEF L!LoadConnectFails, LoadConnectFails, L!Goto, Goto,
           L!ConnectFails, ConnectFails, L!bookVars, bookVars
  <2>3. L!LoadSelectFails(t) => LoadSelectFails(t)
    BY DEF L!LoadSelectFails, LoadSelectFails, L!Goto, Goto,
           L!CanConnect, CanConnect, L!Leak, Leak, L!bookVars, bookVars
  <2>4. L!LoadSelect(t) => LoadSelect(t)
    BY DEF L!LoadSelect, LoadSelect, L!Goto, Goto, L!CanConnect, CanConnect
  <2>5. \A map : L!Inserted(t, map) = Inserted(t, map)
    BY DEF L!Inserted, Inserted, L!Restructured, Restructured, L!EmptyMap, EmptyMap,
           L!Blank, Blank
  <2>6. \A b : L!LoadFetch(t, b) => LoadFetch(t, b)
    BY <2>5 DEF L!LoadFetch, LoadFetch, L!Put, Put, L!processVars, processVars
  <2>7. L!LoadClose(t) => LoadClose(t)
    BY DEF L!LoadClose, LoadClose, L!Goto, Goto
  <2>8. \A b : L!LoadConfigLine(t, b) => LoadConfigLine(t, b)
    BY <2>5 DEF L!LoadConfigLine, LoadConfigLine, L!Put, Put, L!Entry, Entry,
                L!Blank, Blank, L!processVars, processVars
  <2>9. L!LoadReturn(t) => LoadReturn(t)
    BY DEF L!LoadReturn, LoadReturn, L!Goto, Goto, L!bookVars, bookVars
  <2> QED BY <2>1, <2>2, <2>3, <2>4, <2>6, <2>7, <2>8, <2>9 DEF L!Load, Load
<1>2. Up!Load(t) => Load(t)
  <2>1. Up!LoadClear(t) => LoadClear(t)
    BY DEF Up!LoadClear, LoadClear, Up!Goto, Goto, Up!EmptyMap, EmptyMap, Up!Blank, Blank
  <2>2. Up!LoadConnectFails(t) => LoadConnectFails(t)
    BY DEF Up!LoadConnectFails, LoadConnectFails, Up!Goto, Goto,
           Up!ConnectFails, ConnectFails, Up!bookVars, bookVars
  <2>3. Up!LoadSelectFails(t) => LoadSelectFails(t)
    BY DEF Up!LoadSelectFails, LoadSelectFails, Up!Goto, Goto,
           Up!CanConnect, CanConnect, Up!Leak, Leak, Up!bookVars, bookVars
  <2>4. Up!LoadSelect(t) => LoadSelect(t)
    BY DEF Up!LoadSelect, LoadSelect, Up!Goto, Goto, Up!CanConnect, CanConnect
  <2>5. \A map : Up!Inserted(t, map) = Inserted(t, map)
    BY DEF Up!Inserted, Inserted, Up!Restructured, Restructured, Up!EmptyMap, EmptyMap,
           Up!Blank, Blank
  <2>6. \A b : Up!LoadFetch(t, b) => LoadFetch(t, b)
    BY <2>5 DEF Up!LoadFetch, LoadFetch, Up!Put, Put, Up!processVars, processVars
  <2>7. Up!LoadClose(t) => LoadClose(t)
    BY DEF Up!LoadClose, LoadClose, Up!Goto, Goto
  <2>8. \A b : Up!LoadConfigLine(t, b) => LoadConfigLine(t, b)
    BY <2>5 DEF Up!LoadConfigLine, LoadConfigLine, Up!Put, Put, Up!Entry, Entry,
                Up!Blank, Blank, Up!processVars, processVars
  <2>9. Up!LoadReturn(t) => LoadReturn(t)
    BY DEF Up!LoadReturn, LoadReturn, Up!Goto, Goto, Up!bookVars, bookVars
  <2> QED BY <2>1, <2>2, <2>3, <2>4, <2>6, <2>7, <2>8, <2>9 DEF Up!Load, Load
<1> QED BY <1>1, <1>2

LEMMA LoadUsersIsLoadUsers ==
  ASSUME NEW t PROVE E!LoadUsers(t) => LoadUsers(t)
<1>1. E!LoadUsersConnectFails(t) => LoadUsersConnectFails(t)
  BY DEF E!LoadUsersConnectFails, LoadUsersConnectFails, E!Goto, Goto,
         E!ConnectFails, ConnectFails, E!userVars, userVars, E!userLoadVars, userLoadVars
<1>2. E!LoadUsersSelectFails(t) => LoadUsersSelectFails(t)
  BY DEF E!LoadUsersSelectFails, LoadUsersSelectFails, E!Goto, Goto,
         E!CanConnect, CanConnect, E!Leak, Leak, E!userVars, userVars,
         E!userLoadVars, userLoadVars
<1>3. E!LoadUsersSelect(t) => LoadUsersSelect(t)
  BY DEF E!LoadUsersSelect, LoadUsersSelect, E!Goto, Goto, E!CanConnect, CanConnect,
         E!userVars, userVars
<1>4. \A map : E!InsertedUser(t, map) = InsertedUser(t, map)
  BY DEF E!InsertedUser, InsertedUser, E!UsersRestructured, UsersRestructured
<1>5. \A u : E!LoadUsersFetch(t, u) => LoadUsersFetch(t, u)
  BY <1>4 DEF E!LoadUsersFetch, LoadUsersFetch, E!PutUser, PutUser,
              E!processVars, processVars
<1>6. E!LoadUsersClose(t) => LoadUsersClose(t)
  BY DEF E!LoadUsersClose, LoadUsersClose, E!Goto, Goto, E!userVars, userVars
<1>7. \A u : E!LoadUsersConfigLine(t, u) => LoadUsersConfigLine(t, u)
  BY <1>4 DEF E!LoadUsersConfigLine, LoadUsersConfigLine, E!PutUser, PutUser,
              E!UserEntry, UserEntry, E!BlankUser, BlankUser, E!processVars, processVars
<1>8. E!LoadUsersReturn(t) => LoadUsersReturn(t)
  BY DEF E!LoadUsersReturn, LoadUsersReturn, E!Goto, Goto, E!userVars, userVars,
         E!userLoadVars, userLoadVars
<1> QED BY <1>1, <1>2, <1>3, <1>5, <1>6, <1>7, <1>8 DEF E!LoadUsers, LoadUsers

-----------------------------------------------------------------------------
(* What a step leaves alone stays right.                                   *)

LEMMA CountedStep ==
  ASSUME Counted, NEW t \in Threads, NEW label \in Labels, Goto(t, label),
         server' = server, pc[t] \notin Fetches, label \notin Fetches,
         conns' = conns \/ (CanConnect /\ conns' = conns + 1)
  PROVE  /\ Counted' /\ pc'[t] = label
         /\ Room(t)' => Room(t)
         /\ conns' < MaxConn => conns < MaxConn
<1>1. pc \in [Threads -> Labels] /\ conns \in 0..MaxConn /\ ConnsAccounted
  BY DEF Counted
<1>2. conns' \in 0..MaxConn /\ ConnsAccounted'
  BY <1>1, ConnsCounted
<1>3. pc' \in [Threads -> Labels] /\ pc'[t] = label
  BY <1>1 DEF Goto
<1>4. conns' < MaxConn => conns < MaxConn
  BY DEF CanConnect
<1>5. Room(t)' => Room(t)
  BY <1>3, <1>4 DEF Room
<1> QED BY <1>2, <1>3, <1>4, <1>5 DEF Counted

LEMMA BooksStay ==
  ASSUME Books, NEW t \in Threads, UNCHANGED <<server, bookVars>>,
         pc[t] \notin BooksAway, pc'[t] \notin BooksAway, Room(t)' => Room(t)
  PROVE  Books'
<1>1. \A s \in Threads : s = t
  BY OnlyThread DEF OneThread
<1>2. BookModelTypeOK' /\ KeysKnown' /\ (book_config \subseteq DOMAIN BookBase)'
  BY DEF Books, bookVars, BookModelTypeOK, IsTable, IsBookMap, KeysKnown
<1>3. BooksFollow(t)
  BY DEF Books
<1>4. LoadSoFar(t)'
  BY DEF LoadSoFar, BooksAway
<1>5. BooksFollow(t)'
  BY <1>3, <1>4 DEF BooksFollow, bookVars
<1> QED BY <1>1, <1>2, <1>5 DEF Books

(* Away from its table, and not yet in Load(), the map is anything.        *)
LEMMA BooksLeft ==
  ASSUME NEW t \in Threads, pc'[t] \in {"describe", "register", "clear"},
         BookModelTypeOK', KeysKnown', book_config' \subseteq DOMAIN BookBase'
  PROVE  Books'
<1>1. \A s \in Threads : s = t
  BY OnlyThread DEF OneThread
<1>2. LoadSoFar(t)' /\ BooksFollow(t)'
  BY DEF LoadSoFar, BooksFollow, BooksAway
<1> QED BY <1>1, <1>2 DEF Books

LEMMA UsersStay ==
  ASSUME Users, NEW t \in Threads, UNCHANGED <<server, userVars, userLoadVars>>,
         pc[t] \notin UsersAway, pc'[t] \notin UsersAway, Room(t)' => Room(t)
  PROVE  Users'
<1>1. \A s \in Threads : s = t
  BY OnlyThread DEF OneThread
<1>2. UsersKnown'
  BY UsersKnownStays DEF Users
<1>3. (user_config \subseteq DOMAIN user)' /\ PartOf(umodel, user)'
  BY DEF Users, userVars, userLoadVars, PartOf
<1>4. UsersFollow(t)
  BY DEF Users
<1>5. UsersFollow(t)'
  BY <1>4 DEF UsersFollow, UsersAway, userVars, userLoadVars
<1> QED BY <1>1, <1>2, <1>3, <1>5 DEF Users

LEMMA UsersLeft ==
  ASSUME NEW t \in Threads, pc'[t] \in {"udescribe", "uregister", "uconnect"},
         UsersKnown', user_config' \subseteq DOMAIN user', PartOf(umodel', user')
  PROVE  Users'
<1>1. \A s \in Threads : s = t
  BY OnlyThread DEF OneThread
<1>2. UsersFollow(t)'
  BY DEF UsersFollow, UsersAway
<1>3. PartOf(umodel, user)'
  BY DEF PartOf
<1> QED BY <1>1, <1>2, <1>3 DEF Users

LEMMA CommsStay ==
  ASSUME Comms, NEW t \in Threads, UNCHANGED <<server, commVars>>,
         pc[t] \notin CommsAway, Room(t)' => Room(t)
  PROVE  Comms'
<1>1. \A s \in Threads : s = t
  BY OnlyThread DEF OneThread
<1> QED BY <1>1 DEF Comms, CommsFollow, commVars

LEMMA TablesStay ==
  ASSUME Tables, UNCHANGED tables
  PROVE  Tables'
BY DEF Tables, tables, IsbnUnique, TablesAgree

(* Where no step needs them, the locals do not matter.                     *)
LEMMA ReadyForAnything ==
  ASSUME NEW t \in Threads,
         pc'[t] \in {"idle", "clear", "connect", "fetch", "config", "uconnect",
                     "ufetch", "uconfig", "loadcomments"},
         DOMAIN req' = Threads, DOMAIN form' = Threads, DOMAIN enrol' = Threads
  PROVE  Locals'
<1>1. \A s \in Threads : s = t
  BY OnlyThread DEF OneThread
<1>2. Ready(t)'
  BY DEF Ready, Up!Uploads, E!Enrolling
<1> QED BY <1>1, <1>2 DEF Locals

(* A handler takes a step that changes no map and no table.                *)
LEMMA QuietStep ==
  ASSUME Inv, NEW t \in Threads,
         NEW label \in Labels \ (BooksAway \cup UsersAway \cup CommsAway),
         Goto(t, label), pc[t] \notin BooksAway \cup UsersAway \cup CommsAway,
         UNCHANGED <<server, bookVars, userVars, userLoadVars, commVars>>,
         conns' = conns \/ (CanConnect /\ conns' = conns + 1),
         DOMAIN req' = Threads, DOMAIN form' = Threads, DOMAIN enrol' = Threads,
         Ready(t)'
  PROVE  Inv'
<1>1. /\ Counted' /\ pc'[t] = label
      /\ Room(t)' => Room(t)
  <2>1. pc[t] \notin Fetches /\ label \notin Fetches
    BY DEF Fetches, BooksAway, UsersAway
  <2> QED BY <2>1, CountedStep DEF Inv
<1>2. Books' /\ Users' /\ Comms'
  BY <1>1, BooksStay, UsersStay, CommsStay DEF Inv
<1>3. Tables'
  BY TablesStay DEF Inv, tables, bookVars, userVars, commVars
<1>4. Locals'
  BY OnlyThread DEF OneThread, Locals
<1> QED BY <1>1, <1>2, <1>3, <1>4 DEF Inv

-----------------------------------------------------------------------------
(* BookModel::Load().                                                      *)

(* A Load() keeps as many connections free as it finds.                    *)
LEMMA LoadRoom ==
  ASSUME Counted, NEW t \in Threads, Load(t)
  PROVE  Room(t)' => Room(t)
<1>1. CASE pc[t] = "fetch"
  BY <1>1 DEF Room, Fetches
<1>2. CASE pc[t] # "fetch"
  <2>1. conns' = conns \/ (conns < MaxConn /\ conns' = conns + 1)
    BY <1>2 DEF Load, LoadClear, LoadConnectFails, LoadSelectFails, LoadSelect, LoadFetch,
         LoadClose, LoadConfigLine, LoadReturn, Leak, CanConnect, processVars
  <2>2. pc'[t] \in Fetches => conns < MaxConn \/ pc[t] \in Fetches
    BY <1>2 DEF Counted, Fetches, Goto, Load, LoadClear, LoadConnectFails, LoadSelectFails,
         LoadSelect, LoadFetch, LoadClose, LoadConfigLine, LoadReturn, CanConnect, processVars
  <2> QED BY <2>1, <2>2 DEF Room
<1> QED BY <1>1, <1>2

LEMMA ConfigAddsNothing ==
  ASSUME BookModelTypeOK, NEW ids, ids \subseteq DOMAIN BookBase
  PROVE  Loaded(BookBase, ids) = BookBase
<1>1. BookBase \in [DOMAIN BookBase -> Book] /\ DOMAIN BookBase \cup ids = DOMAIN BookBase
  BY DEF BookModelTypeOK, IsTable, IsBookMap
<1> QED BY <1>1 DEF Loaded, Entry

(* A step of Load(): at its end the map is the table again, or there was   *)
(* no connection.                                                          *)
LEMMA LoadStep ==
  ASSUME Inv, NEW t \in Threads, Load(t),
         UNCHANGED <<userVars, userLoadVars, commVars, req, form, enrol>>
  PROVE  Inv'
<1>1. /\ pc \in [Threads -> Labels] /\ conns \in 0..MaxConn /\ ConnsAccounted
      /\ BookModelTypeOK /\ KeysKnown /\ LoadSoFar(t)
      /\ book_config \subseteq DOMAIN BookBase
  BY DEF Inv, Counted, Books, BooksFollow
<1>2. {"idle", "clear", "connect", "fetch", "config"} \subseteq Labels
  BY DEF Labels, BooksAway
<1>3. /\ BookModelTypeOK' /\ KeysKnown'
      /\ conns' \in 0..MaxConn /\ ConnsAccounted'
      /\ pc' \in [Threads -> Labels]
      /\ pc[t] \in {"clear", "connect", "fetch", "config"}
      /\ pc'[t] \in {"idle", "connect", "fetch", "config"}
      /\ UNCHANGED <<server, BookBase, book_config>>
  BY ONLY <1>1, <1>2, LoadKeeps, Load(t), t \in Threads
<1>4. /\ LoadSoFar(t)'
      /\ pc'[t] = "idle" =>
           \/ model' = Loaded(BookBase, book_config)'
           \/ model' = BookBase' /\ Faults
           \/ model' = EmptyMap /\ (Faults \/ conns' >= MaxConn)
  BY ONLY <1>1, OnlyThread, LoadAlone, Load(t), t \in Threads
<1>5. ~ Faults /\ MaxConn \in Nat
  BY BookServerAssumption, ProcessAssumption
<1>6. Loaded(BookBase, book_config)' = BookBase'
  <2>1. Loaded(BookBase, book_config) = BookBase
    BY <1>1, ConfigAddsNothing
  <2> QED BY <1>3, <2>1
<1>7. BooksFollow(t)'
  <2>1. pc'[t] = "idle" => model' = BookBase' \/ (model' = EmptyMap /\ ~ Room(t)')
    BY <1>3, <1>4, <1>5, <1>6 DEF Room, Fetches
  <2> QED BY <1>3, <1>4, <2>1 DEF BooksFollow, BooksAway
<1>8. Books'
  BY <1>1, <1>3, <1>7, OnlyThread DEF OneThread, Books
<1>9. Counted'
  BY <1>3 DEF Inv, Counted
<1>10. Room(t)' => Room(t)
  BY LoadRoom DEF Inv
<1>11. Users'
  <2>1. pc[t] \notin UsersAway /\ pc'[t] \notin UsersAway
    BY <1>3 DEF UsersAway
  <2> QED BY <1>3, <1>10, <2>1, UsersStay DEF Inv
<1>12. Comms'
  BY <1>3, <1>10, CommsStay DEF Inv, CommsAway
<1>13. Tables'
  BY <1>3, TablesStay DEF Inv, tables, userVars, commVars
<1>14. Locals'
  BY <1>3, ReadyForAnything DEF Inv, Locals
<1> QED BY <1>8, <1>9, <1>11, <1>12, <1>13, <1>14 DEF Inv

-----------------------------------------------------------------------------
(* UserModel::Load().                                                      *)

LEMMA LoadUsersRoom ==
  ASSUME Counted, NEW t \in Threads, LoadUsers(t)
  PROVE  Room(t)' => Room(t)
<1>1. CASE pc[t] = "ufetch"
  BY <1>1 DEF Room, Fetches
<1>2. CASE pc[t] # "ufetch"
  <2>1. conns' = conns \/ (conns < MaxConn /\ conns' = conns + 1)
    BY <1>2 DEF LoadUsers, LoadUsersConnectFails, LoadUsersSelectFails, LoadUsersSelect,
         LoadUsersFetch, LoadUsersClose, LoadUsersConfigLine, LoadUsersReturn, Leak,
         CanConnect, processVars
  <2>2. pc'[t] \in Fetches => conns < MaxConn \/ pc[t] \in Fetches
    BY <1>2 DEF Counted, Fetches, Goto, LoadUsers, LoadUsersConnectFails,
         LoadUsersSelectFails, LoadUsersSelect, LoadUsersFetch, LoadUsersClose,
         LoadUsersConfigLine, LoadUsersReturn, CanConnect, processVars
  <2> QED BY <2>1, <2>2 DEF Room
<1> QED BY <1>1, <1>2

LEMMA AloneWithUsers ==
  ASSUME NEW t \in Threads
  PROVE  /\ \A map : InsertedUser(t, map) = {map}
         /\ ~ UsersRestructured(t)
<1>1. Threads \ {t} = {}
  BY OnlyThread DEF OneThread
<1>2. ~ UsersRestructured(t)
  BY <1>1 DEF UsersRestructured
<1> QED BY <1>2 DEF InsertedUser

(* Only rows are put into the map, and config lines find them there.       *)
LEMMA LoadUsersGrows ==
  ASSUME Users, pc \in [Threads -> Labels], NEW t \in Threads, LoadUsers(t)
  PROVE  /\ PartOf(umodel', user)
         /\ DOMAIN umodel \subseteq DOMAIN umodel'
         /\ pc'[t] = "ufetch" =>
              DOMAIN user \subseteq DOMAIN umodel' \cup DOMAIN uresult'[t]
         /\ pc'[t] = "uconfig" => DOMAIN user \subseteq DOMAIN umodel'
         /\ pc'[t] = "idle" =>
              DOMAIN user \subseteq DOMAIN umodel' \/ conns' >= MaxConn
<1>1. /\ PartOf(umodel, user) /\ UsersFollow(t)
      /\ DOMAIN uresult = Threads /\ ulines \in [Threads -> SUBSET Uids]
      /\ user_config \subseteq DOMAIN user
      /\ ulines[t] \subseteq user_config
      /\ \A u \in DOMAIN uresult[t] : u \in DOMAIN user /\ uresult[t][u] = user[u]
  BY DEF Users, UsersKnown, UserLoadingTypeOK, UserKeysKnown, RowsCurrent
<1>2. \A label : Goto(t, label) => pc'[t] = label
  BY DEF Goto
<1>3. ~ Faults
  BY BookServerAssumption
<1>4. CASE LoadUsersConnectFails(t) \/ LoadUsersSelectFails(t)
  <2>1. pc'[t] = "idle" /\ UNCHANGED umodel /\ conns' >= MaxConn
    BY <1>2, <1>3, <1>4
    DEF LoadUsersConnectFails, LoadUsersSelectFails, ConnectFails, userVars
  <2> QED BY <1>1, <2>1
<1>5. CASE LoadUsersSelect(t)
  <2>1. pc'[t] = "ufetch" /\ UNCHANGED umodel /\ uresult'[t] = user
    BY <1>1, <1>2, <1>5 DEF LoadUsersSelect, userVars
  <2> QED BY <1>1, <2>1
<1>6. CASE \E u \in Uids : LoadUsersFetch(t, u)
  <2>1. PICK u \in Uids : LoadUsersFetch(t, u)
    BY <1>6
  <2>2. /\ pc[t] = "ufetch" /\ pc' = pc /\ u \in DOMAIN uresult[t]
        /\ umodel' \in InsertedUser(t, PutUser(umodel, u, uresult[t][u]))
        /\ uresult' = [uresult EXCEPT ![t] = [v \in DOMAIN uresult[t] \ {u} |-> uresult[t][v]]]
    BY <2>1 DEF LoadUsersFetch, processVars
  <2>3. umodel' = PutUser(umodel, u, uresult[t][u])
    BY <2>2, AloneWithUsers
  <2>4. DOMAIN uresult'[t] = DOMAIN uresult[t] \ {u}
    BY <1>1, <2>2
  <2>5. PartOf(umodel', user) /\ DOMAIN umodel' = DOMAIN umodel \cup {u}
    BY <1>1, <2>2, <2>3 DEF PartOf, PutUser
  <2>6. DOMAIN user \subseteq DOMAIN umodel \cup DOMAIN uresult[t]
    BY <1>1, <2>2 DEF UsersFollow
  <2> QED BY <2>2, <2>4, <2>5, <2>6
<1>7. CASE LoadUsersClose(t)
  <2>1. /\ pc[t] = "ufetch" /\ pc'[t] \in {"uconfig", "idle"} /\ UNCHANGED umodel
        /\ DOMAIN uresult[t] = {}
    BY <1>2, <1>7 DEF LoadUsersClose, userVars
  <2>2. DOMAIN user \subseteq DOMAIN umodel
    BY <1>1, <2>1 DEF UsersFollow
  <2> QED BY <1>1, <2>1, <2>2
<1>8. CASE \E u \in Uids : LoadUsersConfigLine(t, u)
  <2>1. PICK u \in Uids : LoadUsersConfigLine(t, u)
    BY <1>8
  <2>2. /\ pc[t] = "uconfig" /\ pc' = pc /\ u \in ulines[t]
        /\ umodel' \in InsertedUser(t, PutUser(umodel, u, UserEntry(umodel, u)))
    BY <2>1 DEF LoadUsersConfigLine, processVars
  <2>3. umodel' = PutUser(umodel, u, UserEntry(umodel, u))
    BY <2>2, AloneWithUsers
  <2>4. DOMAIN user \subseteq DOMAIN umodel /\ u \in DOMAIN umodel
    BY <1>1, <2>2 DEF UsersFollow
  <2>5. PartOf(umodel', user) /\ DOMAIN umodel' = DOMAIN umodel
    BY <1>1, <2>3, <2>4 DEF PartOf, PutUser, UserEntry
  <2> QED BY <2>2, <2>4, <2>5
<1>9. CASE LoadUsersReturn(t)
  <2>1. pc[t] = "uconfig" /\ pc'[t] = "idle" /\ UNCHANGED umodel
    BY <1>2, <1>9 DEF LoadUsersReturn, userVars
  <2> QED BY <1>1, <2>1 DEF UsersFollow
<1> QED BY <1>4, <1>5, <1>6, <1>7, <1>8, <1>9 DEF LoadUsers

LEMMA LoadUsersStep ==
  ASSUME Inv, NEW t \in Threads, LoadUsers(t),
         UNCHANGED <<bookVars, commVars, req, form, enrol>>
  PROVE  Inv'
<1>1. /\ pc \in [Threads -> Labels] /\ conns \in 0..MaxConn /\ ConnsAccounted
      /\ UsersKnown
  BY DEF Inv, Counted, Users
<1>2. {"idle", "uconnect", "ufetch", "uconfig"} \subseteq Labels
  BY DEF Labels, UsersAway
<1>3. /\ UsersKnown'
      /\ conns' \in 0..MaxConn /\ ConnsAccounted'
      /\ pc' \in [Threads -> Labels]
      /\ pc[t] \in {"uconnect", "ufetch", "uconfig"}
      /\ pc'[t] \in {"idle", "ufetch", "uconfig"}
      /\ UNCHANGED <<server, user, user_config>>
  BY ONLY <1>1, <1>2, LoadUsersKeeps, LoadUsers(t), t \in Threads
<1>4. /\ PartOf(umodel', user)
      /\ pc'[t] = "ufetch" =>
           DOMAIN user \subseteq DOMAIN umodel' \cup DOMAIN uresult'[t]
      /\ pc'[t] = "uconfig" => DOMAIN user \subseteq DOMAIN umodel'
      /\ pc'[t] = "idle" => DOMAIN user \subseteq DOMAIN umodel' \/ conns' >= MaxConn
  BY <1>1, LoadUsersGrows DEF Inv
<1>5. MaxConn \in Nat
  BY ProcessAssumption
<1>6. UsersFollow(t)'
  <2>1. pc'[t] = "idle" => DOMAIN user' \subseteq DOMAIN umodel' \/ ~ Room(t)'
    BY <1>3, <1>4, <1>5 DEF Room, Fetches
  <2> QED BY <1>3, <1>4, <2>1 DEF UsersFollow, UsersAway
<1>7. Users'
  <2>1. (user_config \subseteq DOMAIN user)' /\ PartOf(umodel, user)'
    BY <1>3, <1>4 DEF Inv, Users, PartOf
  <2> QED BY <1>3, <1>6, <2>1, OnlyThread DEF OneThread, Users
<1>8. Counted'
  BY <1>3 DEF Inv, Counted
<1>9. Room(t)' => Room(t)
  BY LoadUsersRoom DEF Inv
<1>10. Books'
  <2>1. pc[t] \notin BooksAway /\ pc'[t] \notin BooksAway
    BY <1>3 DEF BooksAway
  <2> QED BY <1>3, <1>9, <2>1, BooksStay DEF Inv
<1>11. Comms'
  BY <1>3, <1>9, CommsStay DEF Inv, CommsAway
<1>12. Tables'
  BY <1>3, TablesStay DEF Inv, tables, bookVars, commVars
<1>13. Locals'
  BY <1>3, ReadyForAnything DEF Inv, Locals
<1> QED BY <1>7, <1>8, <1>10, <1>11, <1>12, <1>13 DEF Inv

-----------------------------------------------------------------------------
(* The end of the process, and its start.                                  *)

LEMMA EndStep ==
  ASSUME Inv, server' \in {"down", "aborted"}, NoThreads, conns' = 0,
         BookModelGone, UserModelGone, CommModelGone, UNCHANGED user_config,
         \/ UNCHANGED <<uresult, ulines>>
         \/ /\ uresult' = [t \in Threads |-> NoUsers]
            /\ ulines' = [t \in Threads |-> {}],
         DOMAIN req' = Threads, DOMAIN form' = Threads, DOMAIN enrol' = Threads
  PROVE  Inv'
<1>1. Counted'
  <2>1. conns' \in 0..MaxConn
    <3>1. MaxConn \in Nat
      BY ProcessAssumption
    <3> QED BY <3>1
  <2>2. pc' \in [Threads -> Labels] /\ ConnsAccounted'
    BY <2>1, NoThreadsCounted DEF NoThreads, Labels
  <2> QED BY <2>1, <2>2 DEF Counted
<1>2. \A t \in Threads : pc'[t] = "idle"
  BY DEF NoThreads
<1>3. Books'
  <2>1. UNCHANGED <<BookBase, book_config>> /\ model' = EmptyMap
        /\ \A t \in Threads : result'[t] = EmptyMap /\ lines'[t] = {}
    BY DEF BookModelGone
  <2>2. DOMAIN result' = Threads /\ lines' \in [Threads -> SUBSET Bids]
    BY DEF BookModelGone
  <2>3. IsTable(BookBase)' /\ book_config' \subseteq Bids
    BY <2>1 DEF Inv, Books, BookModelTypeOK, IsTable, IsBookMap
  <2>4. IsBookMap(model') /\ \A t \in Threads : IsTable(result'[t])
    BY <2>1, BlankType
  <2>5. BookModelTypeOK'
    BY <2>2, <2>3, <2>4 DEF BookModelTypeOK, IsTable, IsBookMap
  <2>6. KeysKnown'
    BY <2>1 DEF KeysKnown, EmptyMap
  <2>7. book_config' \subseteq DOMAIN BookBase'
    BY <2>1 DEF Inv, Books
  <2>8. ASSUME NEW t \in Threads PROVE BooksFollow(t)'
    BY <1>2 DEF BooksFollow, LoadSoFar
  <2> QED BY <2>5, <2>6, <2>7, <2>8 DEF Books
<1>4. Users'
  <2>1. UNCHANGED <<user, user_config>> /\ umodel' = NoUsers
    BY DEF UserModelGone
  <2>2. DOMAIN umodel' = {} /\ IsUserMap(umodel')
    BY <2>1, BlankUserType
  <2>3. /\ IsUserTable(user) /\ DOMAIN uresult = Threads
        /\ \A t \in Threads : IsUserTable(uresult[t])
        /\ ulines \in [Threads -> SUBSET Uids] /\ user_config \subseteq Uids
        /\ user_config \subseteq DOMAIN user
        /\ \A t \in Threads : ulines[t] \subseteq user_config
        /\ RowsCurrent
    BY DEF Inv, Users, UsersKnown, UserLoadingTypeOK, UserModelTypeOK, UserKeysKnown
  <2>4. /\ DOMAIN uresult' = Threads
        /\ \A t \in Threads : uresult'[t] = uresult[t] \/ uresult'[t] = NoUsers
        /\ ulines' \in [Threads -> SUBSET Uids]
        /\ \A t \in Threads : ulines'[t] = ulines[t] \/ ulines'[t] = {}
    BY <2>3
  <2>5. UserLoadingTypeOK'
    <3>1. \A t \in Threads : IsUserTable(uresult'[t])
      BY <2>3, <2>4, BlankUserType
    <3>2. IsUserTable(user')
      BY <2>1, <2>3 DEF IsUserTable, IsUserMap
    <3> QED BY <2>1, <2>2, <2>3, <2>4, <3>1, <3>2
            DEF UserLoadingTypeOK, UserModelTypeOK, IsUserTable, IsUserMap
  <2>6. UserKeysKnown' /\ MapNamesUsers' /\ PartOf(umodel, user)'
    BY <2>1, <2>2, <2>3, <2>4 DEF UserKeysKnown, MapNamesUsers, PartOf
  <2>7. RowsCurrent'
    BY <2>1, <2>3, <2>4, BlankUserType DEF RowsCurrent
  <2>8. ASSUME NEW t \in Threads PROVE UsersFollow(t)'
    BY <1>2 DEF UsersFollow
  <2> QED BY <2>1, <2>3, <2>5, <2>6, <2>7, <2>8 DEF Users, UsersKnown
<1>5. Comms'
  BY DEF Comms, CommsFollow, CommModelGone
<1>6. Tables'
  BY TablesStay DEF Inv, tables, BookModelGone, UserModelGone, CommModelGone
<1>7. Locals'
  BY <1>2 DEF Locals, Ready, Up!Uploads, E!Enrolling
<1> QED BY <1>1, <1>3, <1>4, <1>5, <1>6, <1>7 DEF Inv

LEMMA CrashStep ==
  ASSUME Inv, Crash
  PROVE  Inv'
<1>1. /\ server' = "down" /\ NoThreads /\ conns' = 0
      /\ BookModelGone /\ UserModelGone /\ CommModelGone /\ UNCHANGED user_config
      /\ uresult' = [t \in Threads |-> NoUsers]
      /\ ulines' = [t \in Threads |-> {}]
  BY DEF Crash, Kill, UserLoadingGone
<1>2. DOMAIN req' = Threads /\ DOMAIN form' = Threads /\ DOMAIN enrol' = Threads
  BY DEF Crash
<1> QED BY <1>1, <1>2, EndStep

(* main() loads all three models before it listens.                        *)
LEMMA StartStep ==
  ASSUME Inv, Start
  PROVE  Inv'
<1>1. Boot("loaded", "loaded", "loaded") /\ server' = "up" /\ NoThreads
  BY DEF Start, Boot
<1>2. \A t \in Threads : pc'[t] = "idle"
  BY <1>1 DEF NoThreads
<1>3. Counted'
  BY <1>1, BootCounted DEF Counted, NoThreads, Labels
<1>4. Books'
  <2>1. BookModelTypeOK /\ KeysKnown /\ book_config \subseteq DOMAIN BookBase
    BY DEF Inv, Books
  <2>2. UNCHANGED <<BookBase, book_config, result, lines>>
        /\ model' = Loaded(BookBase, book_config)
    BY DEF Start, BookModelBooted, BootedModel
  <2>3. model' = BookBase
    BY <2>1, <2>2, ConfigAddsNothing
  <2>4. BookModelTypeOK' /\ KeysKnown'
    BY <2>1, <2>2, <2>3 DEF BookModelTypeOK, IsTable, IsBookMap, KeysKnown
  <2>5. ASSUME NEW t \in Threads PROVE BooksFollow(t)'
    BY <1>2, <2>2, <2>3 DEF BooksFollow, LoadSoFar
  <2> QED BY <2>1, <2>2, <2>4, <2>5 DEF Books
<1>5. Users'
  <2>1. UNCHANGED <<user, userLoadVars>>
        /\ umodel' = [u \in DOMAIN user \cup user_config |-> UserEntry(user, u)]
    BY DEF Start, UserLoadingBooted
  <2>2. /\ IsUserTable(user) /\ IsUserMap(user) /\ user_config \subseteq DOMAIN user
        /\ UserLoadingTypeOK /\ UserKeysKnown /\ RowsCurrent
    BY DEF Inv, Users, UsersKnown, UserLoadingTypeOK, UserModelTypeOK, IsUserTable
  <2>3. umodel' = user
    <3>1. user \in [DOMAIN user -> User] /\ DOMAIN user \cup user_config = DOMAIN user
      BY <2>2 DEF IsUserMap
    <3> QED BY <2>1, <3>1 DEF UserEntry
  <2>4. UserLoadingTypeOK' /\ UserKeysKnown' /\ RowsCurrent'
    <3>1. UNCHANGED <<user_config, uresult, ulines>>
      BY <2>1 DEF userLoadVars
    <3>2. UserModelTypeOK'
      BY <2>1, <2>2, <2>3 DEF UserModelTypeOK, IsUserTable, IsUserMap
    <3>3. UserLoadingTypeOK'
      BY <2>2, <3>1, <3>2 DEF UserLoadingTypeOK
    <3> QED BY <2>1, <2>2, <2>3, <3>1, <3>3 DEF UserKeysKnown, RowsCurrent
  <2>5. MapNamesUsers' /\ PartOf(umodel, user)'
    BY <2>1, <2>3 DEF MapNamesUsers, PartOf
  <2>6. ASSUME NEW t \in Threads PROVE UsersFollow(t)'
    BY <1>2, <2>1, <2>3 DEF UsersFollow
  <2> QED BY <2>1, <2>2, <2>4, <2>5, <2>6 DEF Users, UsersKnown, userLoadVars
<1>6. Comms'
  BY DEF Start, CommModelBooted, Comms, CommsFollow
<1>7. Tables'
  BY TablesStay DEF Inv, tables, Start, BookModelBooted, UserLoadingBooted, CommModelBooted
<1>8. Locals'
  BY <1>2 DEF Inv, Locals, Start, uploadVars, enrolVars, Ready, Up!Uploads, E!Enrolling
<1> QED BY <1>3, <1>4, <1>5, <1>6, <1>7, <1>8 DEF Inv

-----------------------------------------------------------------------------
(* What the handlers find in the maps.                                     *)

LEMMA Lookups ==
  ASSUME NEW t \in Threads
  PROVE  /\ \A b : /\ L!GetBook(t, b) = {Entry(model, b)}
                   /\ Co!GetBook(t, b) = {Entry(model, b)}
         /\ \A u : /\ L!GetUser(u) = GetUser(u)
                   /\ Up!GetUser(u) = GetUser(u)
                   /\ Co!GetUser(u) = GetUser(u)
<1>1. \A b : L!GetBook(t, b) = GetBook(t, b)
  BY DEF L!GetBook, GetBook, L!Entry, Entry, L!Blank, Blank, L!Restructured, Restructured,
         L!EmptyMap, EmptyMap, L!Torn, Torn
<1>2. \A b : Co!GetBook(t, b) = GetBook(t, b)
  BY DEF Co!GetBook, GetBook, Co!Entry, Entry, Co!Blank, Blank, Co!Restructured,
         Restructured, Co!EmptyMap, EmptyMap, Co!Torn, Torn
<1>3. \A b : GetBook(t, b) = {Entry(model, b)}
  BY OnlyThread, Alone
<1>4. \A u : /\ L!GetUser(u) = GetUser(u)
             /\ Up!GetUser(u) = GetUser(u)
             /\ Co!GetUser(u) = GetUser(u)
  BY DEF L!GetUser, Up!GetUser, Co!GetUser, GetUser, L!BlankUser, Up!BlankUser,
         Co!BlankUser, BlankUser
<1> QED BY <1>1, <1>2, <1>3, <1>4

(* A stored book and a stored user are found as they are stored; or they   *)
(* are not found, and there is no connection left.                         *)
LEMMA Found ==
  ASSUME Inv, server = "up", NEW t \in Threads, pc[t] = "idle",
         NEW b \in DOMAIN BookBase, NEW u \in DOMAIN user
  PROVE  /\ Entry(model, b) = BookBase[b] \/ (Entry(model, b) = Blank /\ conns = MaxConn)
         /\ GetUser(u) = user[u] \/ (GetUser(u) = BlankUser /\ conns = MaxConn)
         /\ BookBase[b] \in Row(b)
         /\ user[u] \in User /\ user[u].uid = u /\ user[u].uname \in Names
<1>1. /\ BooksFollow(t) /\ UsersFollow(t) /\ PartOf(umodel, user)
      /\ conns \in 0..MaxConn /\ MaxConn \in Nat
  BY ProcessAssumption DEF Inv, Counted, Books, Users
<1>2. pc[t] \notin BooksAway /\ pc[t] \notin UsersAway /\ pc[t] \notin Fetches
  BY DEF BooksAway, UsersAway, Fetches
<1>3. ~ Room(t) => conns = MaxConn
  BY <1>1 DEF Room
<1>4. Entry(EmptyMap, b) = Blank /\ Entry(BookBase, b) = BookBase[b]
  BY DEF Entry, EmptyMap
<1>5. Entry(model, b) = BookBase[b] \/ (Entry(model, b) = Blank /\ conns = MaxConn)
  BY <1>1, <1>2, <1>3, <1>4 DEF BooksFollow
<1>6. GetUser(u) = user[u] \/ (GetUser(u) = BlankUser /\ conns = MaxConn)
  BY <1>1, <1>2, <1>3 DEF UsersFollow, GetUser, PartOf
<1>7. IsTable(BookBase) /\ IsUserTable(user)
  BY DEF Inv, Books, BookModelTypeOK, Users, UsersKnown, UserLoadingTypeOK, UserModelTypeOK
<1>8. BookBase[b] \in Row(b)
  BY <1>7 DEF IsTable
<1>9. user[u] \in User /\ user[u].uid = u /\ user[u].uname # ""
  BY <1>7 DEF IsUserTable, IsUserMap
<1> QED BY <1>5, <1>6, <1>8, <1>9 DEF User

(* What is not stored is not found.                                        *)
LEMMA Strangers ==
  ASSUME Inv, server = "up", NEW t \in Threads, pc[t] = "idle", NEW b, NEW u
  PROVE  /\ b \notin DOMAIN BookBase => Entry(model, b) = Blank
         /\ u \notin DOMAIN user => GetUser(u) = BlankUser
<1>1. model = BookBase \/ model = EmptyMap
  <2>1. BooksFollow(t) /\ pc[t] \notin BooksAway
    BY DEF Inv, Books, BooksAway
  <2> QED BY <2>1 DEF BooksFollow
<1>2. PartOf(umodel, user)
  BY DEF Inv, Users
<1> QED BY <1>1, <1>2 DEF Entry, EmptyMap, PartOf, GetUser

-----------------------------------------------------------------------------
(* /update and /updateback.                                                *)

LEMMA LendAcceptedStep ==
  ASSUME Inv, NEW t \in Threads, NEW b, NEW u,
         NEW days, L!LendAccepted(t, b, u, days),
         UNCHANGED <<userLoadVars, uploadVars, enrolVars>>
  PROVE  Inv'
<1>1. /\ server = "up" /\ pc[t] = "idle" /\ Goto(t, "lend")
      /\ UNCHANGED <<server, conns, bookVars, userVars, commVars>>
  BY DEF L!LendAccepted, L!Receive, L!Goto, Goto, L!bookVars, bookVars, L!userVars,
         userVars, L!commVars, commVars
<1> DEFINE book == Entry(model, b)
           name == GetUser(u).uname
<1>2. /\ book.islend # "1" /\ book.num # NoNumber
      /\ req' = [req EXCEPT ![t] = [bid |-> b, uname |-> name, num |-> book.num + 1]]
  <2>1. PICK e \in L!GetBook(t, b) :
          /\ L!Lendable(e, L!GetUser(u)) /\ e.num # NoNumber
          /\ L!Keep(t, b, L!GetUser(u).uname, e.num + 1)
    BY DEF L!LendAccepted
  <2>2. e = book /\ L!GetUser(u) = GetUser(u)
    BY <2>1, Lookups
  <2> QED BY <2>1, <2>2 DEF L!Lendable, L!Keep
<1>3. b \in DOMAIN BookBase /\ book = BookBase[b] /\ book.num \in Int
  <2>1. Blank.num = NoNumber
    BY DEF Blank
  <2>2. model = BookBase \/ model = EmptyMap
    <3>1. BooksFollow(t) /\ pc[t] \notin BooksAway
      BY <1>1 DEF Inv, Books, BooksAway
    <3> QED BY <1>1, <3>1 DEF BooksFollow
  <2>3. b \in DOMAIN BookBase /\ book = BookBase[b]
    BY <1>2, <2>1, <2>2 DEF Entry, EmptyMap
  <2>4. BookBase[b] \in Row(b)
    BY <2>3 DEF Inv, Books, BookModelTypeOK, IsTable
  <2> QED BY <2>3, <2>4 DEF Row
<1>4. name = "" \/ (u \in DOMAIN user /\ name = user[u].uname /\ name \in Names)
  <2>1. BlankUser.uname = ""
    BY DEF BlankUser
  <2>2. CASE u \in DOMAIN user
    <3>1. user[u].uname \in Names /\ (GetUser(u) = user[u] \/ GetUser(u) = BlankUser)
      BY <1>1, <1>3, <2>2, Found
    <3> QED BY <2>1, <2>2, <3>1
  <2>3. CASE u \notin DOMAIN user
    BY <1>1, <2>1, <2>3, Strangers
  <2> QED BY <2>2, <2>3
<1>5. name \in Names \cup {""}
  BY <1>4
<1> HIDE DEF book, name
<1>6. DOMAIN req = Threads /\ DOMAIN form = Threads /\ DOMAIN enrol = Threads
  BY DEF Inv, Locals
<1>7. /\ DOMAIN req' = Threads
      /\ req'[t].bid = b /\ req'[t].uname = name /\ req'[t].num = book.num + 1
  BY <1>2, <1>6
<1>8. LendReady(t)'
  <2>1. BookBase'[req'[t].bid].islend # "1"
    BY <1>1, <1>2, <1>3, <1>7 DEF bookVars
  <2>2. req'[t].uname \in Names \cup {""} /\ req'[t].num \in Int
    <3>1. book.num + 1 \in Int
      BY <1>3
    <3> QED BY <1>5, <1>7, <3>1
  <2>3. req'[t].uname = "" \/ \E v \in DOMAIN user' : user'[v].uname = req'[t].uname
    BY <1>1, <1>4, <1>7 DEF userVars
  <2> QED BY <2>1, <2>2, <2>3 DEF LendReady
<1>9. pc'[t] = "lend"
  BY <1>1 DEF Goto, Inv, Counted
<1>10. Ready(t)'
  BY <1>8, <1>9 DEF Ready, Up!Uploads, E!Enrolling
<1>11. /\ "lend" \in Labels \ (BooksAway \cup UsersAway \cup CommsAway)
       /\ pc[t] \notin BooksAway \cup UsersAway \cup CommsAway
  BY <1>1 DEF Labels, BooksAway, UsersAway, CommsAway
<1> QED BY <1>1, <1>6, <1>7, <1>10, <1>11, QuietStep DEF uploadVars, enrolVars

(* A write to a book's row: the map is old until it has been reloaded.     *)
LEMMA LoanStep ==
  ASSUME Inv, NEW t \in Threads, pc[t] \in {"lend", "return"}, Goto(t, "clear"),
         NEW bid, NEW w \in Names \cup {"", "NULL"}, NEW l \in {"0", "1"}, NEW n \in Int,
         L!Write(L!SetLoan(bid, w, l, n)),
         l = "0" => w = "NULL",
         l = "1" /\ conns < MaxConn => w = "" \/ \E u \in DOMAIN user : user[u].uname = w,
         UNCHANGED <<server, book_config, model, result, lines, userVars, commVars,
                     userLoadVars, form, enrol>>,
         DOMAIN req' = Threads
  PROVE  /\ Inv'
         /\ UNCHANGED BookBase \/
              (/\ DOMAIN BookBase' = DOMAIN BookBase
               /\ \A b \in DOMAIN BookBase :
                    IF b = bid THEN BookBase'[b].islend = l ELSE BookBase'[b] = BookBase[b])
<1>0. PICK rows : rows = LoanTable(bid, w, l, n)
  OBVIOUS
<1>1. L!SetLoan(bid, w, l, n) = rows
  <2>1. \A row : L!Lent(row, w, l, n) = Loan(row, w, l, n)
    BY DEF L!Lent, Loan
  <2> QED BY <1>0, <2>1 DEF L!SetLoan, LoanTable
<1>2. IsTable(BookBase)
  BY DEF Inv, Books, BookModelTypeOK
<1>3. /\ IsTable(rows) /\ DOMAIN rows = DOMAIN BookBase
      /\ \A b \in DOMAIN BookBase :
           SameBook(rows[b], BookBase[b]) /\ rows[b].uid = BookBase[b].uid
      /\ bid \in DOMAIN BookBase => IsLent(rows[bid], w, l, n)
      /\ \A b \in DOMAIN BookBase : b # bid => rows[b] = BookBase[b]
  <2>1. Loanable(w, l, n)
    BY DEF Loanable
  <2>2. LoanChanges(rows, bid, w, l, n)
    BY <1>0, <1>2, <2>1, LoanTableType
  <2> QED BY <2>2 DEF LoanChanges
<1>4. \/ UNCHANGED <<conns, BookBase>>
      \/ CanConnect /\ conns' = conns + 1 /\ BookBase' = rows
  BY <1>1, BookServerAssumption DEF L!Write, L!CanConnect, CanConnect, L!Leak
<1>5. /\ Counted' /\ pc'[t] = "clear" /\ (Room(t)' => Room(t))
  <2>1. "clear" \in Labels /\ pc[t] \notin Fetches /\ "clear" \notin Fetches
    BY DEF Labels, BooksAway, Fetches
  <2>2. conns' = conns \/ (CanConnect /\ conns' = conns + 1)
    BY <1>4
  <2> QED BY <2>1, <2>2, CountedStep DEF Inv
<1>6. IsTable(BookBase)' /\ DOMAIN BookBase' = DOMAIN BookBase
  BY <1>2, <1>3, <1>4 DEF IsTable, IsBookMap
<1>7. Books'
  <2>1. BookModelTypeOK' /\ KeysKnown' /\ book_config' \subseteq DOMAIN BookBase'
    BY <1>6 DEF Inv, Books, BookModelTypeOK, KeysKnown, IsTable, IsBookMap
  <2> QED BY <1>5, <2>1, BooksLeft
<1>8. Users'
  <2>1. pc[t] \notin UsersAway /\ pc'[t] \notin UsersAway
    BY <1>5 DEF UsersAway
  <2> QED BY <1>5, <2>1, UsersStay DEF Inv
<1>9. Comms'
  BY <1>5, CommsStay DEF Inv, CommsAway
<1>10. Tables'
  <2>1. CASE BookBase' = BookBase
    BY <2>1, TablesStay DEF Inv, tables, userVars, commVars
  <2>2. CASE conns < MaxConn /\ BookBase' = rows
    <3>1. Tables /\ UNCHANGED <<user, Comments>>
      BY DEF Inv, userVars, commVars
    <3>2. IsbnUnique'
      BY <1>3, <2>2, <3>1, ZenonT(40) DEF Tables, IsbnUnique, SameBook
    <3>3. \A b \in DOMAIN BookBase :
            /\ rows[b].uid = BookBase[b].uid
            /\ rows[b].owner = BookBase[b].owner
            /\ \/ rows[b].islend = l /\ rows[b].borrower = w
               \/ rows[b].islend = BookBase[b].islend /\ rows[b].borrower = BookBase[b].borrower
      BY <1>3 DEF SameBook, IsLent
    <3>4. TablesAgree'
      <4>1. ASSUME NEW b \in DOMAIN BookBase'
            PROVE  /\ BookBase'[b].uid \in DOMAIN user'
                   /\ BookBase'[b].owner = user'[BookBase'[b].uid].uname
        BY <1>3, <2>2, <3>1, <3>3 DEF Tables, TablesAgree
      <4>2. ASSUME NEW b \in DOMAIN BookBase', BookBase'[b].islend = "1"
            PROVE  \/ BookBase'[b].borrower = ""
                   \/ \E u \in DOMAIN user' : user'[u].uname = BookBase'[b].borrower
        <5>1. b \in DOMAIN BookBase /\ rows[b].islend = "1"
              /\ BookBase'[b].borrower = rows[b].borrower
          BY <1>3, <2>2, <4>2
        <5>2. CASE rows[b].islend = l /\ rows[b].borrower = w
          BY <2>2, <3>1, <5>1, <5>2
        <5>3. CASE /\ rows[b].islend = BookBase[b].islend
                   /\ rows[b].borrower = BookBase[b].borrower
          BY <3>1, <5>1, <5>3 DEF Tables, TablesAgree
        <5> QED BY <3>3, <5>1, <5>2, <5>3
      <4>3. \A c \in Comments' : c.bid \in DOMAIN BookBase' /\ c.uid \in DOMAIN user'
        BY <1>6, <3>1 DEF Tables, TablesAgree
      <4> QED BY <4>1, <4>2, <4>3 DEF TablesAgree
    <3>5. \A b \in DOMAIN BookBase' :
            BookBase'[b].islend # "1" => BookBase'[b].borrower = "NULL"
      BY <1>3, <2>2, <3>1, <3>3 DEF Tables
    <3>6. IsFiniteSet(DOMAIN BookBase') /\ IsFiniteSet(DOMAIN user')
      BY <1>6, <3>1 DEF Tables
    <3> QED BY <3>2, <3>4, <3>5, <3>6 DEF Tables
  <2> QED BY <1>4, <2>1, <2>2 DEF CanConnect
<1>11. Locals'
  BY <1>5, ReadyForAnything DEF Inv, Locals
<1>12. BookBase' = BookBase \/
         \A b \in DOMAIN BookBase :
           IF b = bid THEN BookBase'[b].islend = l ELSE BookBase'[b] = BookBase[b]
  BY <1>3, <1>4 DEF IsLent
<1> QED BY <1>5, <1>6, <1>7, <1>8, <1>9, <1>10, <1>11, <1>12 DEF Inv

LEMMA LendWritesStep ==
  ASSUME Inv, NEW t \in Threads, L!LendWrites(t),
         UNCHANGED <<userLoadVars, uploadVars, enrolVars>>
  PROVE  /\ Inv'
         /\ DOMAIN BookBase' = DOMAIN BookBase
         /\ \A b \in DOMAIN BookBase :
              BookBase'[b] = BookBase[b] \/ BookBase[b].islend # "1"
<1>1. /\ pc[t] = "lend" /\ Goto(t, "clear")
      /\ L!Write(L!SetLoan(req[t].bid, req[t].uname, "1", req[t].num))
      /\ UNCHANGED <<server, book_config, model, result, lines, userVars, commVars>>
      /\ req' = [req EXCEPT ![t] = L!NoRequest]
  BY DEF L!LendWrites, L!Goto, Goto, L!Forget, L!userVars, userVars, L!commVars, commVars
<1>2. DOMAIN req = Threads /\ LendReady(t)
  BY <1>1 DEF Inv, Locals, Ready
<1> DEFINE bid == req[t].bid
           w == req[t].uname
           n == req[t].num
<1>3. /\ bid \in DOMAIN BookBase => BookBase[bid].islend # "1"
      /\ w \in Names \cup {""} /\ n \in Int
      /\ conns < MaxConn => w = "" \/ \E u \in DOMAIN user : user[u].uname = w
  BY <1>2 DEF LendReady
<1>4. L!Write(L!SetLoan(bid, w, "1", n)) /\ DOMAIN req' = Threads
      /\ UNCHANGED <<form, enrol>>
  BY <1>1, <1>2 DEF uploadVars, enrolVars
<1> HIDE DEF bid, w, n
<1>5. /\ Inv'
      /\ UNCHANGED BookBase \/
           (/\ DOMAIN BookBase' = DOMAIN BookBase
            /\ \A b \in DOMAIN BookBase :
                 IF b = bid THEN BookBase'[b].islend = "1" ELSE BookBase'[b] = BookBase[b])
  BY <1>1, <1>3, <1>4, LoanStep
<1> QED BY <1>3, <1>5

LEMMA ReturnWritesStep ==
  ASSUME Inv, NEW t \in Threads, L!ReturnWrites(t),
         UNCHANGED <<userLoadVars, uploadVars, enrolVars>>
  PROVE  /\ Inv'
         /\ \A b \in DOMAIN BookBase :
              BookBase'[b] = BookBase[b] \/ BookBase'[b].islend # "1"
<1>1. /\ pc[t] = "return" /\ Goto(t, "clear")
      /\ L!Write(L!SetLoan(req[t].bid, "NULL", "0", req[t].num - 1))
      /\ UNCHANGED <<server, book_config, model, result, lines, userVars, commVars>>
      /\ req' = [req EXCEPT ![t] = L!NoRequest]
  BY DEF L!ReturnWrites, L!Goto, Goto, L!Forget, L!userVars, userVars, L!commVars, commVars
<1>2. DOMAIN req = Threads /\ req[t].num \in Int
  BY <1>1 DEF Inv, Locals, Ready
<1> DEFINE bid == req[t].bid
           n == req[t].num - 1
<1>3. n \in Int /\ L!Write(L!SetLoan(bid, "NULL", "0", n)) /\ DOMAIN req' = Threads
      /\ UNCHANGED <<form, enrol>>
  BY <1>1, <1>2 DEF uploadVars, enrolVars
<1> HIDE DEF bid, n
<1>4. /\ Inv'
      /\ UNCHANGED BookBase \/
           \A b \in DOMAIN BookBase :
             IF b = bid THEN BookBase'[b].islend = "0" ELSE BookBase'[b] = BookBase[b]
  BY <1>1, <1>3, LoanStep
<1> QED BY <1>4

(* A request that finds its book and its user stores the comment under     *)
(* their ids; it may still be without a connection.                        *)
LEMMA CommentStep ==
  ASSUME Inv, server = "up", NEW t \in Threads, pc[t] = "idle",
         NEW label \in CommsAway, Goto(t, label),
         NEW b, NEW u,
         Entry(model, b).id # NoNumber, GetUser(u).uid # NoNumber,
         InsertComments([bid |-> Entry(model, b).id, uid |-> GetUser(u).uid]),
         UNCHANGED <<server, bookVars, userVars, userLoadVars, cmodel, form, enrol>>,
         DOMAIN req' = Threads, label = "comments" => req'[t].num \in Int
  PROVE  Inv'
<1> DEFINE c == [bid |-> Entry(model, b).id, uid |-> GetUser(u).uid]
<1>0. b \in DOMAIN BookBase /\ u \in DOMAIN user
  <2>1. Blank.id = NoNumber /\ BlankUser.uid = NoNumber
    BY DEF Blank, BlankUser
  <2> QED BY <2>1, Strangers
<1>1. c.bid = b /\ c.uid = u
  <2>1. Blank.id = NoNumber /\ BlankUser.uid = NoNumber
    BY DEF Blank, BlankUser
  <2>2. Entry(model, b) = BookBase[b] /\ GetUser(u) = user[u]
    BY <1>0, <2>1, Found
  <2>3. BookBase[b].id = b /\ user[u].uid = u
    <3>1. BookBase[b] \in Row(b) /\ user[u].uid = u
      BY <1>0, Found
    <3> QED BY <3>1 DEF Row
  <2> QED BY <2>2, <2>3
<1> HIDE DEF c
<1>2. /\ conns' = conns \/ (CanConnect /\ conns' = conns + 1)
      /\ Comments' = Comments \/ Comments' = Comments \cup {c}
  BY DEF InsertComments, Leak, c
<1>3. /\ Counted' /\ pc'[t] = label
      /\ Room(t)' => Room(t)
  <2>1. label \in Labels /\ pc[t] \notin Fetches /\ label \notin Fetches
    BY DEF Labels, CommsAway, Fetches
  <2> QED BY <1>2, <2>1, CountedStep DEF Inv
<1>4. Books' /\ Users'
  <2>1. /\ pc[t] \notin BooksAway /\ pc'[t] \notin BooksAway
        /\ pc[t] \notin UsersAway /\ pc'[t] \notin UsersAway
    BY <1>3 DEF BooksAway, UsersAway, CommsAway
  <2> QED BY <1>3, <2>1, BooksStay, UsersStay DEF Inv
<1>5. Comms'
  BY <1>2, <1>3, OnlyThread DEF OneThread, Inv, Comms, CommsFollow
<1>6. Tables'
  <2>1. Tables /\ UNCHANGED <<BookBase, user>>
    BY DEF Inv, bookVars, userVars
  <2>2. \A d \in Comments' : d.bid \in DOMAIN BookBase /\ d.uid \in DOMAIN user
    BY <1>0, <1>1, <1>2, <2>1 DEF Tables, TablesAgree
  <2> QED BY <2>1, <2>2 DEF Tables, IsbnUnique, TablesAgree
<1>7. Locals'
  <2>1. Ready(t)'
    BY <1>3 DEF Ready, CommsAway, Up!Uploads, E!Enrolling
  <2> QED BY <2>1, OnlyThread DEF OneThread, Inv, Locals
<1> QED BY <1>3, <1>4, <1>5, <1>6, <1>7 DEF Inv

LEMMA ReturnCommentsStep ==
  ASSUME Inv, NEW t \in Threads, NEW b, NEW u, L!ReturnComments(t, b, u),
         UNCHANGED <<userLoadVars, uploadVars, enrolVars>>
  PROVE  Inv'
<1>1. /\ server = "up" /\ pc[t] = "idle" /\ Goto(t, "comments")
      /\ UNCHANGED <<server, bookVars, userVars, cmodel, form, enrol>>
  BY DEF L!ReturnComments, L!Receive, L!Goto, Goto, L!bookVars, bookVars,
         L!userVars, userVars, uploadVars, enrolVars
<1>2. PICK e \in L!GetBook(t, b) :
        /\ L!Known(e, L!GetUser(u))
        /\ L!InsertComments([bid |-> e.id, uid |-> L!GetUser(u).uid])
        /\ L!Keep(t, b, "", e.num)
  BY DEF L!ReturnComments
<1>3. e = Entry(model, b) /\ L!GetUser(u) = GetUser(u)
  BY Lookups
<1>4. e.id # NoNumber /\ GetUser(u).uid # NoNumber
  BY <1>2, <1>3 DEF L!Known
<1>5. InsertComments([bid |-> Entry(model, b).id, uid |-> GetUser(u).uid])
  <2>1. \A c : L!InsertComments(c) => InsertComments(c)
    BY DEF L!InsertComments, InsertComments, L!ConnectFails, ConnectFails,
           L!CanConnect, CanConnect, L!Leak, Leak
  <2> QED BY <1>2, <1>3, <2>1
<1>6. e.num \in Int
  <2>1. Blank.id = NoNumber
    BY DEF Blank
  <2>2. b \in DOMAIN BookBase /\ u \in DOMAIN user
    <3>1. BlankUser.uid = NoNumber
      BY DEF BlankUser
    <3> QED BY <1>1, <1>3, <1>4, <2>1, <3>1, Strangers
  <2>3. e = BookBase[b] /\ BookBase[b] \in Row(b)
    BY <1>1, <1>3, <1>4, <2>1, <2>2, Found
  <2> QED BY <2>3 DEF Row
<1>7. DOMAIN req' = Threads /\ req'[t].num \in Int
  BY <1>2, <1>6 DEF Inv, Locals, L!Keep
<1>8. "comments" \in CommsAway
  BY DEF CommsAway
<1> QED BY <1>1, <1>3, <1>4, <1>5, <1>7, <1>8, CommentStep

LEMMA CommentStoredStep ==
  ASSUME Inv, NEW t \in Threads, NEW b, NEW u, Co!CommentStored(t, b, u),
         UNCHANGED <<userLoadVars, req, uploadVars, enrolVars>>
  PROVE  Inv'
<1>1. /\ server = "up" /\ pc[t] = "idle" /\ Goto(t, "loadcomments")
      /\ UNCHANGED <<server, bookVars, userVars, cmodel, form, enrol>>
  BY DEF Co!CommentStored, Co!Goto, Goto, Co!bookVars, bookVars,
         Co!userVars, userVars, uploadVars, enrolVars
<1>2. PICK e \in Co!GetBook(t, b) :
        /\ Co!Named(e, Co!GetUser(u))
        /\ Co!InsertComments([bid |-> e.id, uid |-> Co!GetUser(u).uid])
  BY DEF Co!CommentStored
<1>3. e = Entry(model, b) /\ Co!GetUser(u) = GetUser(u)
  BY Lookups
<1>4. Entry(model, b).id # NoNumber /\ GetUser(u).uid # NoNumber
  BY <1>2, <1>3 DEF Co!Named
<1>5. InsertComments([bid |-> Entry(model, b).id, uid |-> GetUser(u).uid])
  <2>1. \A c : Co!InsertComments(c) => InsertComments(c)
    BY DEF Co!InsertComments, InsertComments, Co!ConnectFails, ConnectFails,
           Co!CanConnect, CanConnect, Co!Leak, Leak
  <2> QED BY <1>2, <1>3, <2>1
<1>6. DOMAIN req' = Threads
  BY DEF Inv, Locals
<1>7. "loadcomments" \in CommsAway /\ "loadcomments" # "comments"
  BY DEF CommsAway
<1> QED BY <1>1, <1>4, <1>5, <1>6, <1>7, CommentStep

(* The comments are loaded again: all of them, or there is no connection.  *)
LEMMA CommentsLoadedStep ==
  ASSUME Inv, NEW t \in Threads, LoadComments,
         \/ pc[t] = "comments" /\ Goto(t, "return")
         \/ pc[t] = "loadcomments" /\ Goto(t, "idle"),
         UNCHANGED <<server, bookVars, userVars, userLoadVars, Comments, req, form, enrol>>
  PROVE  Inv'
<1>0. pc' = [pc EXCEPT ![t] = "return"] \/ pc' = [pc EXCEPT ![t] = "idle"]
  BY DEF Goto
<1>1. /\ conns' = conns
      /\ \/ conns >= MaxConn /\ cmodel' = cmodel
         \/ cmodel' = cmodel \cup Comments
  BY BookServerAssumption DEF LoadComments, ConnectFails
<1>2. /\ Counted'
      /\ pc'[t] \in {"return", "idle"}
      /\ Room(t)' => Room(t)
  <2>1. {"return", "idle"} \subseteq Labels /\ pc[t] \notin Fetches
        /\ "return" \notin Fetches /\ "idle" \notin Fetches
    BY DEF Labels, Fetches
  <2> QED BY <1>1, <2>1, CountedStep DEF Inv
<1>3. Books' /\ Users'
  <2>1. /\ pc[t] \notin BooksAway /\ pc'[t] \notin BooksAway
        /\ pc[t] \notin UsersAway /\ pc'[t] \notin UsersAway
    BY <1>2 DEF BooksAway, UsersAway
  <2> QED BY <1>2, <2>1, BooksStay, UsersStay DEF Inv
<1>4. Comms'
  <2>1. cmodel \subseteq Comments /\ conns \in 0..MaxConn /\ MaxConn \in Nat
    BY ProcessAssumption DEF Inv, Comms, Counted
  <2>2. Room(t)' => cmodel' = Comments
    BY <1>1, <1>2, <2>1 DEF Room, Fetches
  <2>3. cmodel' \subseteq Comments
    BY <1>1, <2>1
  <2> QED BY <2>2, <2>3, OnlyThread DEF OneThread, Comms, CommsFollow
<1>5. Tables'
  BY TablesStay DEF Inv, tables, bookVars, userVars
<1>6. Locals'
  <2>1. Ready(t) /\ UNCHANGED req
    BY DEF Inv, Locals
  <2>2. pc'[t] = "return" => req'[t].num \in Int
    <3>1. pc'[t] = "return" => pc[t] = "comments"
      BY DEF Inv, Counted, Goto
    <3> QED BY <2>1, <3>1 DEF Ready
  <2>3. Ready(t)'
    BY <1>2, <2>2 DEF Ready, Up!Uploads, E!Enrolling
  <2> QED BY <2>3, OnlyThread DEF OneThread, Inv, Locals
<1> QED BY <1>2, <1>3, <1>4, <1>5, <1>6 DEF Inv
(* What is stored is numbered: std::stoi does not throw on it.              *)
LEMMA Numbered ==
  ASSUME Inv, server = "up", NEW t \in Threads, pc[t] = "idle",
         NEW b \in DOMAIN BookBase, NEW u \in DOMAIN user
  PROVE  BookBase[b].num # NoNumber /\ BookBase[b].id # NoNumber /\ user[u].uid # NoNumber
<1>1. BookBase[b] \in Row(b) /\ user[u].uid = u
  BY Found
<1>2. b \in Bids /\ u \in Uids
  BY DEF Inv, Books, BookModelTypeOK, IsTable, IsBookMap, Users, UsersKnown,
         UserLoadingTypeOK, UserModelTypeOK, IsUserTable, IsUserMap
<1>3. Bids \subseteq Nat /\ Uids \subseteq Nat
  BY ProcessAssumption, BookModelAssumption
<1>4. b \in Int /\ u \in Int
  BY ONLY <1>2, <1>3
<1>5. BookBase[b].num \in Int /\ BookBase[b].id = b
  BY <1>1 DEF Row
<1>6. NoNumber \notin Int
  BY ProcessAssumption
<1> QED BY ONLY <1>1, <1>4, <1>5, <1>6

-----------------------------------------------------------------------------
(* A request for a stored book and a stored user aborts when one of them   *)
(* is not found, and then there is no connection left.                     *)

LEMMA StoredAborts ==
  ASSUME Inv, NEW t \in Threads, StoredRequestAborts(t)
  PROVE  conns = MaxConn
<1>1. PICK b \in DOMAIN BookBase, u \in DOMAIN user :
        \/ \E days \in LendTimes \ {NoNumber} : L!LendAborts(t, b, u, days)
        \/ L!ReturnAborts(t, b, u)
        \/ Co!CommentAborts(t, b, u)
  BY DEF StoredRequestAborts
<1>2. server = "up" /\ pc[t] = "idle"
  BY <1>1 DEF L!LendAborts, L!ReturnAborts, L!Receive, Co!CommentAborts, Co!Terminate
<1>3. BookBase[b].num # NoNumber /\ BookBase[b].id # NoNumber /\ user[u].uid # NoNumber
  BY <1>2, Numbered
<1>4. Entry(model, b) # BookBase[b] \/ GetUser(u) # user[u]
  <2>1. CASE \/ \E days \in LendTimes \ {NoNumber} : L!LendAborts(t, b, u, days)
             \/ L!ReturnAborts(t, b, u)
    <3>1. PICK e \in L!GetBook(t, b) :
            e.num = NoNumber \/ ~ L!Known(e, L!GetUser(u))
      BY <2>1 DEF L!LendAborts, L!ReturnAborts
    <3>2. e = Entry(model, b) /\ L!GetUser(u) = GetUser(u)
      BY Lookups
    <3> QED BY <1>3, <3>1, <3>2 DEF L!Known
  <2>2. CASE Co!CommentAborts(t, b, u)
    <3>1. PICK e \in Co!GetBook(t, b) : ~ Co!Named(e, Co!GetUser(u))
      BY <2>2 DEF Co!CommentAborts
    <3>2. e = Entry(model, b) /\ Co!GetUser(u) = GetUser(u)
      BY Lookups
    <3> QED BY <1>3, <3>1, <3>2 DEF Co!Named
  <2> QED BY <1>1, <2>1, <2>2
<1> QED BY <1>2, <1>4, Found

(* A handler that aborts ends the process, at its first step: the maps are *)
(* gone.                                                                   *)

LEMMA LendAbortsStep ==
  ASSUME Inv, NEW t \in Threads, pc[t] = "idle", L!Abort,
         UNCHANGED <<userLoadVars, uploadVars, enrolVars>>
  PROVE  Inv'
<1>1. server' = "aborted" /\ NoThreads /\ conns' = 0
  BY DEF L!Abort, L!Terminate, L!NoThreads, NoThreads
<1>2. BookModelGone /\ UserModelGone /\ CommModelGone
  BY DEF L!Abort, L!Gone, L!BookModelGone, BookModelGone, L!EmptyMap, EmptyMap, L!Blank,
         Blank, L!UserModelGone, UserModelGone, L!NoUsers, NoUsers, L!BlankUser, BlankUser,
         L!CommModelGone, CommModelGone
<1>3. DOMAIN req' = Threads /\ DOMAIN form' = Threads /\ DOMAIN enrol' = Threads
      /\ UNCHANGED userLoadVars
  BY DEF Inv, Locals, L!Abort, L!Gone, uploadVars, enrolVars
<1> QED BY <1>1, <1>2, <1>3, EndStep DEF userLoadVars

LEMMA CommentAbortsStep ==
  ASSUME Inv, NEW t \in Threads, Co!Terminate, Co!CommentingGone,
         UNCHANGED <<userLoadVars, req, uploadVars, enrolVars>>
  PROVE  Inv'
<1>1. server' = "aborted" /\ NoThreads /\ conns' = 0
  BY DEF Co!Terminate, Co!NoThreads, NoThreads
<1>2. BookModelGone /\ UserModelGone /\ CommModelGone
  BY DEF Co!CommentingGone, Co!BookModelGone, BookModelGone, Co!EmptyMap, EmptyMap, Co!Blank,
         Blank, Co!UserModelGone, UserModelGone, Co!NoUsers, NoUsers, Co!BlankUser, BlankUser,
         Co!CommModelGone, CommModelGone
<1>3. DOMAIN req' = Threads /\ DOMAIN form' = Threads /\ DOMAIN enrol' = Threads
  BY DEF Inv, Locals, uploadVars, enrolVars
<1> QED BY <1>1, <1>2, <1>3, EndStep DEF userLoadVars

-----------------------------------------------------------------------------
(* The handlers of loans and of comments.                                  *)

LEMMA StutterStep ==
  ASSUME Inv, UNCHANGED vars
  PROVE  Inv'
<1>1. UNCHANGED <<processVars, bookVars, userVars, userLoadVars, commVars, req, form, enrol>>
  BY DEF vars, uploadVars, enrolVars
<1>2. Counted'
  BY <1>1 DEF Inv, Counted, processVars, ConnsAccounted, Fetching
<1>3. Books'
  BY <1>1
  DEF Inv, Books, BookModelTypeOK, IsTable, IsBookMap, KeysKnown, BooksFollow, LoadSoFar, Room,
      processVars, bookVars
<1>4. Users'
  <2>1. UsersKnown'
    BY <1>1, UsersKnownStays DEF Inv, Users
  <2> QED BY <1>1, <2>1
          DEF Inv, Users, UsersFollow, Room, PartOf, processVars, userVars, userLoadVars
<1>5. Comms'
  BY <1>1 DEF Inv, Comms, CommsFollow, Room, processVars, commVars
<1>6. Tables'
  BY <1>1, TablesStay DEF Inv, tables, bookVars, userVars, commVars
<1>7. Locals'
  BY <1>1
  DEF Inv, Locals, Ready, LendReady, InsertReady, processVars, bookVars, userVars
<1> QED BY <1>2, <1>3, <1>4, <1>5, <1>6, <1>7 DEF Inv

LEMMA LendStep ==
  ASSUME Inv, NEW t \in Threads, Lend(t)
  PROVE  Inv' /\ (server' = "aborted" => pc[t] = "idle")
<1>1. UNCHANGED <<userLoadVars, uploadVars, enrolVars>>
  BY DEF Lend
<1>2. CASE \E b, u, days : L!LendTooLong(t, days) \/ L!LendRefused(t, b, u, days)
  <2>1. server = "up" /\ UNCHANGED L!vars
    BY <1>2 DEF L!LendTooLong, L!LendRefused, L!Receive
  <2>2. UNCHANGED vars
    BY <1>1, <2>1
    DEF L!vars, vars, L!processVars, processVars, L!bookVars, bookVars, L!userVars, userVars,
        L!commVars, commVars
  <2> QED BY <2>1, <2>2, StutterStep DEF vars, processVars
<1>3. CASE \E b, u : (\E days : L!LendAborts(t, b, u, days)) \/ L!ReturnAborts(t, b, u)
  <2>1. pc[t] = "idle" /\ L!Abort
    BY <1>3 DEF L!LendAborts, L!ReturnAborts, L!Receive
  <2> QED BY <1>1, <2>1, LendAbortsStep
<1>4. CASE \E b, u, days : L!LendAccepted(t, b, u, days)
  BY <1>1, <1>4, LendAcceptedStep DEF L!LendAccepted, L!Receive
<1>5. CASE \E b, u : L!ReturnComments(t, b, u)
  BY <1>1, <1>5, ReturnCommentsStep DEF L!ReturnComments, L!Receive
<1>6. CASE L!LendWrites(t)
  BY <1>1, <1>6, LendWritesStep DEF L!LendWrites
<1>7. CASE L!ReturnLoadsComments(t)
  <2>1. /\ server = "up" /\ LoadComments
        /\ pc[t] = "comments" /\ Goto(t, "return")
        /\ UNCHANGED <<server, bookVars, userVars, Comments, req>>
    BY <1>7
    DEF L!ReturnLoadsComments, L!LoadComments, LoadComments, L!ConnectFails, ConnectFails,
        L!CanConnect, CanConnect, L!Leak, Leak, L!Goto, Goto, L!bookVars, bookVars,
        L!userVars, userVars
  <2> QED BY <1>1, <2>1, CommentsLoadedStep DEF uploadVars, enrolVars
<1>8. CASE L!ReturnAbortsLate(t)
  <2>1. pc[t] = "return" /\ req[t].num = NoNumber
    BY <1>8 DEF L!ReturnAbortsLate
  <2>2. req[t].num \in Int
    BY <2>1 DEF Inv, Locals, Ready
  <2> QED BY <2>1, <2>2, ProcessAssumption
<1>9. CASE L!ReturnWrites(t)
  BY <1>1, <1>9, ReturnWritesStep DEF L!ReturnWrites
<1>10. CASE L!Reload(t)
  <2>1. Load(t) /\ UNCHANGED <<userVars, commVars, req>>
    BY <1>10, LoadIsLoad DEF L!Reload, L!userVars, userVars, L!commVars, commVars
  <2>2. server = "up" /\ server' = server
    BY <2>1
    DEF Load, LoadClear, LoadConnectFails, LoadSelectFails, LoadSelect, LoadFetch,
        LoadClose, LoadConfigLine, LoadReturn, processVars
  <2> QED BY <1>1, <2>1, <2>2, LoadStep DEF uploadVars, enrolVars
<1> QED BY <1>2, <1>3, <1>4, <1>5, <1>6, <1>7, <1>8, <1>9, <1>10
       DEF Lend, L!Request, L!Handle

LEMMA CommentingStep ==
  ASSUME Inv, NEW t \in Threads, Comment(t)
  PROVE  Inv' /\ (server' = "aborted" => pc[t] = "idle")
<1>1. UNCHANGED <<userLoadVars, req, uploadVars, enrolVars>>
  BY DEF Comment
<1>2. CASE Co!CommentEmpty(t)
  <2>1. server = "up" /\ UNCHANGED vars
    BY <1>1, <1>2
    DEF Co!CommentEmpty, vars, Co!processVars, processVars, Co!bookVars, bookVars,
        Co!userVars, userVars, Co!commVars, commVars
  <2> QED BY <2>1, StutterStep DEF vars, processVars
<1>3. CASE \E b, u : Co!CommentAborts(t, b, u)
  BY <1>1, <1>3, CommentAbortsStep DEF Co!CommentAborts
<1>4. CASE \E b, u : Co!CommentStored(t, b, u)
  BY <1>1, <1>4, CommentStoredStep DEF Co!CommentStored
<1>5. CASE Co!CommentsLoaded(t)
  <2>1. /\ server = "up" /\ LoadComments
        /\ pc[t] = "loadcomments" /\ Goto(t, "idle")
        /\ UNCHANGED <<server, bookVars, userVars, Comments>>
    BY <1>5
    DEF Co!CommentsLoaded, Co!LoadComments, LoadComments, Co!ConnectFails, ConnectFails,
        Co!CanConnect, CanConnect, Co!Leak, Leak, Co!Goto, Goto, Co!bookVars, bookVars,
        Co!userVars, userVars
  <2> QED BY <1>1, <2>1, CommentsLoadedStep DEF uploadVars, enrolVars
<1> QED BY <1>2, <1>3, <1>4, <1>5 DEF Comment
-----------------------------------------------------------------------------
(* /uploadbook.                                                            *)

LEMMA UploadLookups ==
  ASSUME Inv, server = "up", NEW t \in Threads, pc[t] \notin BooksAway
  PROVE  /\ \A n \in Up!AllBooks(t) : n \in Nat
         /\ \A isbn : FALSE \in Up!GetBookByISBN(t, isbn) /\ Room(t) =>
              \A b \in DOMAIN BookBase : BookBase[b].isbn # isbn
<1>1. ~ Up!Restructured(t)
  BY OnlyThread DEF OneThread, Up!Restructured
<1>2. model = BookBase \/ (model = EmptyMap /\ ~ Room(t))
  BY DEF Inv, Books, BooksFollow
<1>3. Cardinality(DOMAIN model) \in Nat
  <2>1. IsFiniteSet(DOMAIN BookBase) /\ DOMAIN EmptyMap = {}
    BY DEF Inv, Tables, EmptyMap
  <2>2. IsFiniteSet(DOMAIN model)
    BY <1>2, <2>1, FS_EmptySet
  <2> QED BY <2>2, FS_CardinalityType
<1>4. \A n \in Up!AllBooks(t) : n = Cardinality(DOMAIN model)
  <2>1. Up!Cardinality(DOMAIN model) = Cardinality(DOMAIN model)
    BY DEF Up!Cardinality, Cardinality
  <2> QED BY <1>1, <2>1 DEF Up!AllBooks
<1>5. ASSUME NEW isbn, FALSE \in Up!GetBookByISBN(t, isbn), Room(t)
      PROVE  \A b \in DOMAIN BookBase : BookBase[b].isbn # isbn
  <2>1. ~ \E b \in DOMAIN model : model[b].isbn = isbn
    BY <1>1, <1>5 DEF Up!GetBookByISBN
  <2> QED BY <1>2, <1>5, <2>1
<1> QED BY <1>3, <1>4, <1>5

(* Until it stores the row an upload changes its form alone.               *)
LEMMA UploadQuietStep ==
  ASSUME Inv, NEW t \in Threads,
         \/ Up!Request(t)
         \/ Up!UploadRefused(t) \/ Up!UploadChecked(t) \/ Up!UploadNotInserted(t),
         UNCHANGED <<userLoadVars, commVars, req, enrolVars>>
  PROVE  Inv' /\ server = "up" /\ UNCHANGED <<server, BookBase, umodel>>
<1>1. DOMAIN req = Threads /\ DOMAIN form = Threads /\ DOMAIN enrol = Threads
      /\ Ready(t)
  BY DEF Inv, Locals
<1>2. pc[t] \in Up!Uploads => form[t] \in Up!Forms
  BY <1>1 DEF Ready
<1>3. \A label : Goto(t, label) => pc'[t] = label
  BY DEF Inv, Counted, Goto
<1>4. CASE Up!Request(t)
  <2>1. PICK isbn \in Isbns, u \in Uids : Up!UploadReceived(t, isbn, u)
    BY <1>4 DEF Up!Request
  <2>2. /\ server = "up" /\ pc[t] = "idle" /\ Goto(t, "check")
        /\ UNCHANGED <<server, conns, bookVars, userVars>>
    BY <2>1 DEF Up!UploadReceived, Up!Goto, Goto, Up!bookVars, bookVars, Up!userVars, userVars
  <2>3. PICK n \in Up!AllBooks(t) :
          /\ n + 1 <= MaxBooks
          /\ form' = [form EXCEPT ![t] = [bid |-> n + 1, isbn |-> isbn, uid |-> u]]
    BY <2>1 DEF Up!UploadReceived
  <2>4. n + 1 \in 1..MaxBooks
    <3>1. n \in Nat
      BY <2>2, UploadLookups DEF BooksAway
    <3>2. MaxBooks \in Nat
      BY RequestsAssumption
    <3> QED BY <2>3, <3>1, <3>2
  <2>5. DOMAIN form' = Threads /\ form'[t] \in Up!Forms
    BY <1>1, <2>3, <2>4 DEF Up!Forms
  <2>6. Ready(t)'
    BY <1>3, <2>2, <2>5 DEF Ready, E!Enrolling
  <2>7. "check" \in Labels \ (BooksAway \cup UsersAway \cup CommsAway)
        /\ pc[t] \notin BooksAway \cup UsersAway \cup CommsAway
    BY <2>2 DEF Labels, BooksAway, UsersAway, CommsAway
  <2> QED BY <1>1, <2>2, <2>5, <2>6, <2>7, QuietStep DEF bookVars, userVars, enrolVars
<1>5. CASE Up!UploadChecked(t)
  <2>1. /\ server = "up" /\ pc[t] = "check" /\ Goto(t, "insert")
        /\ UNCHANGED <<server, conns, bookVars, userVars, form>>
        /\ form[t].uid \in DOMAIN umodel
        /\ FALSE \in Up!GetBookByISBN(t, form[t].isbn)
    BY <1>5 DEF Up!UploadChecked, Up!Goto, Goto, Up!bookVars, bookVars, Up!userVars, userVars
  <2>2. conns < MaxConn => \A b \in DOMAIN BookBase : BookBase[b].isbn # form[t].isbn
    BY <2>1, UploadLookups DEF BooksAway, Room
  <2>3. InsertReady(t)'
    BY <2>1, <2>2 DEF InsertReady, bookVars, userVars
  <2>4. Ready(t)'
    BY <1>2, <1>3, <2>1, <2>3 DEF Ready, Up!Uploads, E!Enrolling
  <2>5. "insert" \in Labels \ (BooksAway \cup UsersAway \cup CommsAway)
        /\ pc[t] \notin BooksAway \cup UsersAway \cup CommsAway
    BY <2>1 DEF Labels, BooksAway, UsersAway, CommsAway
  <2> QED BY <1>1, <2>1, <2>4, <2>5, QuietStep DEF bookVars, userVars, enrolVars
<1>6. CASE Up!UploadRefused(t) \/ Up!UploadNotInserted(t)
  <2>1. /\ server = "up" /\ pc[t] \in {"check", "insert"} /\ Goto(t, "idle")
        /\ UNCHANGED <<server, bookVars, userVars>>
        /\ form' = [form EXCEPT ![t] = Up!NoForm]
        /\ conns' = conns \/ (CanConnect /\ conns' = conns + 1)
    BY <1>6, BookServerAssumption
    DEF Up!UploadRefused, Up!UploadNotInserted, Up!Goto, Goto, Up!Forget, Up!Leak,
        Up!CanConnect, CanConnect, Up!bookVars, bookVars, Up!userVars, userVars
  <2>2. DOMAIN form' = Threads
    BY <1>1, <2>1
  <2>3. Ready(t)'
    BY <1>3, <2>1 DEF Ready, Up!Uploads, E!Enrolling
  <2>4. "idle" \in Labels \ (BooksAway \cup UsersAway \cup CommsAway)
        /\ pc[t] \notin BooksAway \cup UsersAway \cup CommsAway
    BY <2>1 DEF Labels, BooksAway, UsersAway, CommsAway
  <2> QED BY <1>1, <2>1, <2>2, <2>3, <2>4, QuietStep DEF bookVars, userVars, enrolVars
<1> QED BY <1>4, <1>5, <1>6

(* From then on the map is behind the table, until it is loaded.           *)
LEMMA UploadGoesOn ==
  ASSUME Inv, NEW t \in Threads, pc[t] \in {"insert", "describe", "register"},
         NEW label \in {"describe", "register", "clear"}, Goto(t, label),
         conns' = conns \/ (CanConnect /\ conns' = conns + 1),
         BookModelTypeOK', KeysKnown', book_config' \subseteq DOMAIN BookBase', Tables',
         UNCHANGED <<server, userVars, userLoadVars, commVars, req, enrol>>,
         DOMAIN form' = Threads,
         label # "clear" => form'[t] \in Up!Forms /\ form'[t].bid \in DOMAIN BookBase'
  PROVE  Inv'
<1>1. /\ Counted' /\ pc'[t] = label
      /\ Room(t)' => Room(t)
  <2>1. label \in Labels /\ pc[t] \notin Fetches /\ label \notin Fetches
    BY DEF Labels, BooksAway, Fetches
  <2> QED BY <2>1, CountedStep DEF Inv
<1>2. Books'
  BY <1>1, BooksLeft
<1>3. Users' /\ Comms'
  <2>1. pc[t] \notin UsersAway /\ pc'[t] \notin UsersAway /\ pc[t] \notin CommsAway
    BY <1>1 DEF UsersAway, CommsAway
  <2> QED BY <1>1, <2>1, UsersStay, CommsStay DEF Inv
<1>4. Locals'
  <2>1. Ready(t)'
    BY <1>1 DEF Ready, E!Enrolling, Up!Uploads
  <2> QED BY <2>1, OnlyThread DEF OneThread, Inv, Locals
<1> QED BY <1>1, <1>2, <1>3, <1>4 DEF Inv
LEMMA NewRowType ==
  ASSUME NEW b \in Bids, NEW isbn \in Isbns, NEW n \in Names, NEW u \in Uids,
         NEW k \in Int, NEW row,
         row = [id |-> b, isbn |-> isbn, owner |-> n, borrower |-> "NULL",
                islend |-> "0", num |-> k, uid |-> u]
  PROVE  /\ row \in Row(b) /\ row.isbn = isbn /\ row.uid = u /\ row.islend = "0"
         /\ row.owner = n /\ row.borrower = "NULL"
<1>1. isbn # "" /\ "0" # ""
  BY BookModelAssumption
<1>2. row \in Book
  <2>1. [id |-> b, isbn |-> isbn, owner |-> n, borrower |-> "NULL",
         islend |-> "0", num |-> k, uid |-> u] \in Book
    BY DEF Book
  <2> QED BY <2>1
<1>3. row.id = b /\ row.num = k /\ row.uid = u /\ row.isbn = isbn /\ row.islend = "0"
  OBVIOUS
<1>4. row.owner = n /\ row.borrower = "NULL"
  OBVIOUS
<1> QED BY <1>1, <1>2, <1>3, <1>4 DEF Row

(* A new row has a new isbn, and its owner's name is that of a user.       *)
LEMMA UploadInsertedStep ==
  ASSUME Inv, NEW t \in Threads, Up!UploadInserted(t),
         UNCHANGED <<userLoadVars, commVars, req, enrolVars>>
  PROVE  Inv' /\ \A b \in DOMAIN BookBase : BookBase'[b] = BookBase[b]
<1>1. /\ pc[t] = "insert" /\ Goto(t, "describe")
      /\ conns < MaxConn /\ conns' = conns + 1
      /\ form[t].bid \notin DOMAIN BookBase
      /\ BookBase' = Put(BookBase, form[t].bid, Up!NewRow(form[t]))
      /\ UNCHANGED <<server, book_config, model, result, lines, userVars, form>>
  BY DEF Up!UploadInserted, Up!Goto, Goto, Up!CanConnect, Up!Leak, Up!Put, Put,
         Up!userVars, userVars
<1> DEFINE f == form[t]
           b == f.bid
           row == Up!NewRow(f)
<1>2. f \in Up!Forms /\ InsertReady(t) /\ DOMAIN form = Threads
  BY <1>1 DEF Inv, Locals, Ready, Up!Uploads
<1>3. b \in Bids /\ f.isbn \in Isbns /\ f.uid \in Uids
  BY <1>2, RequestsAssumption DEF Up!Forms
<1>4. /\ f.uid \in DOMAIN user /\ GetUser(f.uid) = user[f.uid]
      /\ user[f.uid].uname \in Names
  <2>1. f.uid \in DOMAIN umodel /\ PartOf(umodel, user) /\ IsUserTable(user)
    BY <1>2 DEF InsertReady, Inv, Users, UsersKnown, UserLoadingTypeOK, UserModelTypeOK
  <2> QED BY <2>1 DEF PartOf, GetUser, IsUserTable, IsUserMap, User
<1>5. row = [id |-> b, isbn |-> f.isbn, owner |-> user[f.uid].uname,
             borrower |-> "NULL", islend |-> "0", num |-> 0, uid |-> f.uid]
  BY <1>4, UploadLookups, Lookups DEF Up!NewRow
<1>6. /\ row \in Row(b) /\ row.isbn = f.isbn /\ row.uid = f.uid /\ row.islend = "0"
      /\ row.owner = user[f.uid].uname /\ row.borrower = "NULL"
  <2>1. 0 \in Int
    OBVIOUS
  <2> HIDE DEF row
  <2> QED BY <1>3, <1>4, <1>5, <2>1, NewRowType
<1>7. conns < MaxConn => \A c \in DOMAIN BookBase : BookBase[c].isbn # f.isbn
  BY <1>2 DEF InsertReady
<1>8. b \notin DOMAIN BookBase /\ BookBase' = Put(BookBase, b, row)
  BY <1>1
<1>9. form'[t] \in Up!Forms /\ form'[t].bid = b
  BY <1>1, <1>2
<1> HIDE DEF row, b, f
<1>10. /\ BookModelTypeOK' /\ KeysKnown'
       /\ DOMAIN BookBase' = DOMAIN BookBase \cup {b} /\ BookBase'[b] = row
       /\ \A c \in DOMAIN BookBase : BookBase'[c] = BookBase[c]
  BY <1>1, <1>3, <1>6, <1>8, OneMoreBook DEF Inv, Books
<1>11. Tables'
  <2>1. Tables /\ UNCHANGED <<user, Comments>>
    BY <1>1 DEF Inv, userVars, commVars
  <2>2. IsbnUnique'
    BY <1>1, <1>6, <1>7, <1>10, <2>1 DEF Tables, IsbnUnique
  <2>3. TablesAgree'
    BY <1>4, <1>6, <1>10, <2>1 DEF Tables, TablesAgree
  <2>4. \A c \in DOMAIN BookBase' :
          BookBase'[c].islend # "1" => BookBase'[c].borrower = "NULL"
    BY <1>6, <1>10, <2>1 DEF Tables
  <2>5. IsFiniteSet(DOMAIN BookBase') /\ IsFiniteSet(DOMAIN user')
    BY <1>10, <2>1, FS_AddElement DEF Tables
  <2> QED BY <2>2, <2>3, <2>4, <2>5 DEF Tables
<1>12. book_config' \subseteq DOMAIN BookBase'
  BY <1>1, <1>10 DEF Inv, Books
<1>13. conns' = conns \/ (CanConnect /\ conns' = conns + 1)
  BY <1>1 DEF CanConnect
<1> QED BY <1>1, <1>2, <1>9, <1>10, <1>11, <1>12, <1>13, UploadGoesOn DEF enrolVars

LEMMA UploadDescribesStep ==
  ASSUME Inv, NEW t \in Threads,
         Up!UploadDescribes(t) \/ Up!UploadRegisters(t),
         UNCHANGED <<userLoadVars, commVars, req, enrolVars>>
  PROVE  Inv' /\ server = "up" /\ UNCHANGED <<server, BookBase, umodel>>
<1>1. /\ server = "up"
      /\ pc[t] \in {"describe", "register"}
      /\ UNCHANGED <<server, conns, BookBase, model, result, lines, userVars>>
      /\ \/ Goto(t, "register") /\ UNCHANGED <<form, book_config>>
         \/ /\ Goto(t, "clear") /\ form' = [form EXCEPT ![t] = Up!NoForm]
            /\ book_config' \in {book_config, book_config \cup {form[t].bid}}
  BY DEF Up!UploadDescribes, Up!UploadRegisters, Up!Goto, Goto, Up!Forget, Up!bookVars,
         Up!userVars, userVars
<1>2. DOMAIN form = Threads /\ form[t] \in Up!Forms /\ form[t].bid \in DOMAIN BookBase
  BY <1>1 DEF Inv, Locals, Ready, Up!Uploads
<1>3. BookModelTypeOK /\ KeysKnown /\ book_config \subseteq DOMAIN BookBase
  BY DEF Inv, Books
<1>4. book_config \subseteq book_config' /\ book_config' \subseteq DOMAIN BookBase'
  BY <1>1, <1>2, <1>3
<1>5. BookModelTypeOK' /\ KeysKnown'
  <2>1. DOMAIN BookBase \subseteq Bids
    BY <1>3 DEF BookModelTypeOK, IsTable, IsBookMap
  <2>2. BookModelTypeOK'
    BY <1>1, <1>3, <1>4, <2>1 DEF BookModelTypeOK, IsTable, IsBookMap
  <2> QED BY <1>1, <1>3, <1>4, <2>2 DEF KeysKnown
<1>6. Tables'
  BY <1>1, TablesStay DEF Inv, tables, userVars, commVars
<1>7. CASE Goto(t, "register") /\ UNCHANGED <<form, book_config>>
  BY <1>1, <1>2, <1>4, <1>5, <1>6, <1>7, UploadGoesOn DEF enrolVars, userVars
<1>8. CASE Goto(t, "clear") /\ form' = [form EXCEPT ![t] = Up!NoForm]
  <2>1. DOMAIN form' = Threads
    BY <1>2, <1>8
  <2> QED BY <1>1, <1>4, <1>5, <1>6, <1>8, <2>1, UploadGoesOn DEF enrolVars, userVars
<1> QED BY <1>1, <1>7, <1>8

LEMMA UploadStep ==
  ASSUME Inv, NEW t \in Threads, Upload(t)
  PROVE  Inv' /\ server' # "aborted"
<1>1. UNCHANGED <<userLoadVars, commVars, req, enrolVars>>
  BY DEF Upload
<1>2. CASE \/ Up!Request(t)
           \/ Up!UploadRefused(t) \/ Up!UploadChecked(t) \/ Up!UploadNotInserted(t)
  BY <1>1, <1>2, UploadQuietStep
<1>3. CASE Up!UploadInserted(t)
  BY <1>1, <1>3, UploadInsertedStep DEF Up!UploadInserted
<1>4. CASE Up!UploadAborts(t)
  BY <1>4, BookServerAssumption DEF Up!UploadAborts
<1>5. CASE Up!UploadDescribes(t) \/ Up!UploadRegisters(t)
  BY <1>1, <1>5, UploadDescribesStep
<1>6. CASE Up!Reload(t)
  <2>1. Load(t) /\ UNCHANGED <<userVars, form>>
    BY <1>6, LoadIsLoad DEF Up!Reload, Up!userVars, userVars
  <2>2. server = "up" /\ server' = server
    BY <2>1
    DEF Load, LoadClear, LoadConnectFails, LoadSelectFails, LoadSelect, LoadFetch,
        LoadClose, LoadConfigLine, LoadReturn, processVars
  <2> QED BY <1>1, <2>1, <2>2, LoadStep DEF enrolVars
<1> QED BY <1>2, <1>3, <1>4, <1>5, <1>6 DEF Upload, Up!Handle
-----------------------------------------------------------------------------
(* /enroll.                                                                *)

LEMMA EnrolLookups ==
  ASSUME Inv, NEW t \in Threads
  PROVE  \A n \in E!AllUsers(t) : n \in Nat
<1>1. ~ E!UsersRestructured(t)
  BY OnlyThread DEF OneThread, E!UsersRestructured
<1>2. Cardinality(DOMAIN umodel) \in Nat
  <2>1. IsFiniteSet(DOMAIN user) /\ DOMAIN umodel \in SUBSET DOMAIN user
    BY DEF Inv, Tables, Users, PartOf
  <2>2. IsFiniteSet(DOMAIN umodel)
    BY <2>1, FS_Subset
  <2> QED BY <2>2, FS_CardinalityType
<1>3. E!Cardinality(DOMAIN umodel) = Cardinality(DOMAIN umodel)
  BY DEF E!Cardinality, Cardinality
<1> QED BY <1>1, <1>2, <1>3 DEF E!AllUsers

LEMMA EnrolQuietStep ==
  ASSUME Inv, NEW t \in Threads,
         \/ E!Request(t)
         \/ E!EnrolRefused(t) \/ E!EnrolChecked(t) \/ E!EnrolNotInserted(t),
         UNCHANGED <<bookVars, commVars, req, uploadVars>>
  PROVE  Inv' /\ server = "up" /\ UNCHANGED <<server, BookBase, umodel>>
<1>1. DOMAIN req = Threads /\ DOMAIN form = Threads /\ DOMAIN enrol = Threads
      /\ (pc[t] \in E!Enrolling => enrol[t] \in E!Enrols)
  BY DEF Inv, Locals, Ready
<1>2. \A label : Goto(t, label) => pc'[t] = label
  BY DEF Inv, Counted, Goto
<1>3. PICK label \in {"idle", "ucheck", "uinsert"} :
        /\ Goto(t, label)
        /\ server = "up" /\ pc[t] \in {"idle", "ucheck", "uinsert"}
        /\ UNCHANGED <<server, userVars, userLoadVars>>
        /\ conns' = conns \/ (CanConnect /\ conns' = conns + 1)
        /\ DOMAIN enrol' = Threads
        /\ label # "idle" => enrol'[t] \in E!Enrols
  <2>1. CASE E!Request(t)
    <3>1. PICK who \in Newcomers : E!EnrolReceived(t, who)
      BY <2>1 DEF E!Request
    <3>2. PICK n \in E!AllUsers(t) :
            /\ n + 1 <= MaxUsers
            /\ enrol' = [enrol EXCEPT ![t] =
                           [uid |-> n + 1, uname |-> who.uname, passwd |-> who.passwd]]
      BY <3>1 DEF E!EnrolReceived
    <3>3. n + 1 \in 1..MaxUsers
      <4>1. n \in Nat
        BY EnrolLookups
      <4>2. MaxUsers \in Nat
        BY RequestsAssumption
      <4> QED BY <3>2, <4>1, <4>2
    <3>4. who.uname \in Names /\ who.passwd \in Passwds
      BY RequestsAssumption
    <3>5. DOMAIN enrol' = Threads /\ enrol'[t] \in E!Enrols
      BY <1>1, <3>2, <3>3, <3>4 DEF E!Enrols
    <3>6. /\ server = "up" /\ pc[t] = "idle" /\ Goto(t, "ucheck")
          /\ UNCHANGED <<server, conns, userVars, userLoadVars>>
      BY <3>1 DEF E!EnrolReceived, E!Goto, Goto, E!userVars, userVars, E!userLoadVars,
                  userLoadVars
    <3> QED BY <3>5, <3>6
  <2>2. CASE E!EnrolChecked(t)
    <3>1. /\ server = "up" /\ pc[t] = "ucheck" /\ Goto(t, "uinsert")
          /\ UNCHANGED <<server, conns, userVars, userLoadVars, enrol>>
      BY <2>2 DEF E!EnrolChecked, E!Goto, Goto, E!userVars, userVars, E!userLoadVars,
                  userLoadVars
    <3> QED BY <1>1, <3>1 DEF E!Enrolling
  <2>3. CASE E!EnrolRefused(t) \/ E!EnrolNotInserted(t)
    <3>1. /\ server = "up" /\ pc[t] \in {"ucheck", "uinsert"} /\ Goto(t, "idle")
          /\ UNCHANGED <<server, userVars, userLoadVars>>
          /\ enrol' = [enrol EXCEPT ![t] = E!NoEnrol]
          /\ conns' = conns \/ (CanConnect /\ conns' = conns + 1)
      BY <2>3, BookServerAssumption
      DEF E!EnrolRefused, E!EnrolNotInserted, E!Goto, Goto, E!ForgetEnrol, E!Leak,
          E!CanConnect, CanConnect, E!userVars, userVars, E!userLoadVars, userLoadVars
    <3> QED BY <1>1, <3>1
  <2> QED BY <2>1, <2>2, <2>3
<1>4. Ready(t)'
  BY <1>2, <1>3 DEF Ready, Up!Uploads, E!Enrolling
<1>5. label \in Labels \ (BooksAway \cup UsersAway \cup CommsAway)
      /\ pc[t] \notin BooksAway \cup UsersAway \cup CommsAway
  BY <1>3 DEF Labels, BooksAway, UsersAway, CommsAway
<1> QED BY <1>1, <1>3, <1>4, <1>5, QuietStep DEF bookVars, userVars, uploadVars

(* From the new row on the map is behind the table, until it is loaded.    *)
LEMMA EnrolGoesOn ==
  ASSUME Inv, NEW t \in Threads, pc[t] \in {"uinsert", "udescribe", "uregister"},
         NEW label \in {"udescribe", "uregister", "uconnect"}, Goto(t, label),
         conns' = conns \/ (CanConnect /\ conns' = conns + 1),
         UsersKnown', user_config' \subseteq DOMAIN user', PartOf(umodel', user'), Tables',
         UNCHANGED <<server, bookVars, commVars, req, form>>,
         DOMAIN enrol' = Threads,
         label # "uconnect" => enrol'[t] \in E!Enrols /\ enrol'[t].uid \in DOMAIN user'
  PROVE  Inv'
<1>1. /\ Counted' /\ pc'[t] = label
      /\ Room(t)' => Room(t)
  <2>1. label \in Labels /\ pc[t] \notin Fetches /\ label \notin Fetches
    BY DEF Labels, UsersAway, Fetches
  <2> QED BY <2>1, CountedStep DEF Inv
<1>2. Users'
  BY <1>1, UsersLeft
<1>3. Books' /\ Comms'
  <2>1. pc[t] \notin BooksAway /\ pc'[t] \notin BooksAway /\ pc[t] \notin CommsAway
    BY <1>1 DEF BooksAway, CommsAway
  <2> QED BY <1>1, <2>1, BooksStay, CommsStay DEF Inv
<1>4. Locals'
  <2>1. Ready(t)'
    BY <1>1 DEF Ready, E!Enrolling, Up!Uploads
  <2> QED BY <2>1, OnlyThread DEF OneThread, Inv, Locals
<1> QED BY <1>1, <1>2, <1>3, <1>4 DEF Inv

LEMMA EnrolInsertedStep ==
  ASSUME Inv, NEW t \in Threads, E!EnrolInserted(t),
         UNCHANGED <<bookVars, commVars, req, uploadVars>>
  PROVE  Inv'
<1>1. /\ pc[t] = "uinsert" /\ Goto(t, "udescribe")
      /\ conns < MaxConn /\ conns' = conns + 1
      /\ enrol[t].uid \notin DOMAIN user
      /\ user' = PutUser(user, enrol[t].uid, E!EnrolRow(enrol[t]))
      /\ UNCHANGED <<server, umodel, userLoadVars, enrol>>
  BY DEF E!EnrolInserted, E!Goto, Goto, E!CanConnect, E!Leak, E!PutUser, PutUser,
         E!userLoadVars, userLoadVars
<1> DEFINE f == enrol[t]
           u == f.uid
           row == E!EnrolRow(f)
<1>2. f \in E!Enrols /\ DOMAIN enrol = Threads
  BY <1>1 DEF Inv, Locals, Ready, E!Enrolling
<1>3. u \in Uids /\ f.uname \in Names /\ f.passwd \in Passwds
  BY <1>2, RequestsAssumption DEF E!Enrols
<1>4. row \in User /\ row.uid = u /\ row.uname # "" /\ row.passwd # ""
  <2>1. f.uname # "" /\ f.passwd # ""
    BY <1>3, ProcessAssumption, UserModelAssumption
  <2> QED BY <1>3, <2>1 DEF E!EnrolRow, User
<1>5. u \notin DOMAIN user /\ user' = PutUser(user, u, row)
  BY <1>1
<1>6. enrol'[t] \in E!Enrols /\ enrol'[t].uid = u
  BY <1>1, <1>2
<1> HIDE DEF row, u, f
<1>7. /\ UsersKnown'
      /\ DOMAIN user' = DOMAIN user \cup {u}
      /\ \A v \in DOMAIN user : user'[v] = user[v]
  BY <1>1, <1>3, <1>4, <1>5, OneMoreUser DEF Inv, Users
<1>8. Tables'
  <2>1. Tables /\ UNCHANGED <<BookBase, Comments>>
    BY DEF Inv, bookVars, commVars
  <2>2. TablesAgree'
    <3>1. ASSUME NEW b \in DOMAIN BookBase'
          PROVE  /\ BookBase'[b].uid \in DOMAIN user'
                 /\ BookBase'[b].owner = user'[BookBase'[b].uid].uname
      BY <1>7, <2>1 DEF Tables, TablesAgree
    <3>2. ASSUME NEW b \in DOMAIN BookBase', BookBase'[b].islend = "1"
          PROVE  \/ BookBase'[b].borrower = ""
                 \/ \E v \in DOMAIN user' : user'[v].uname = BookBase'[b].borrower
      BY <1>7, <2>1, <3>2 DEF Tables, TablesAgree
    <3>3. \A c \in Comments' : c.bid \in DOMAIN BookBase' /\ c.uid \in DOMAIN user'
      BY <1>7, <2>1 DEF Tables, TablesAgree
    <3> QED BY <3>1, <3>2, <3>3 DEF TablesAgree
  <2>3. IsFiniteSet(DOMAIN BookBase') /\ IsFiniteSet(DOMAIN user')
    BY <1>7, <2>1, FS_AddElement DEF Tables
  <2> QED BY <2>1, <2>2, <2>3 DEF Tables, IsbnUnique
<1>9. user_config' \subseteq DOMAIN user' /\ PartOf(umodel', user')
  BY <1>1, <1>7 DEF Inv, Users, PartOf, userLoadVars
<1>10. conns' = conns \/ (CanConnect /\ conns' = conns + 1)
  BY <1>1 DEF CanConnect
<1> QED BY <1>1, <1>2, <1>6, <1>7, <1>8, <1>9, <1>10, EnrolGoesOn DEF uploadVars

LEMMA EnrolDescribesStep ==
  ASSUME Inv, NEW t \in Threads,
         E!EnrolDescribes(t) \/ E!EnrolRegisters(t),
         UNCHANGED <<bookVars, commVars, req, uploadVars>>
  PROVE  Inv' /\ server = "up" /\ UNCHANGED <<server, umodel>>
<1>1. /\ server = "up"
      /\ pc[t] \in {"udescribe", "uregister"}
      /\ UNCHANGED <<server, conns, userVars, uresult, ulines>>
      /\ \/ Goto(t, "uregister") /\ UNCHANGED <<enrol, user_config>>
         \/ /\ Goto(t, "uconnect") /\ enrol' = [enrol EXCEPT ![t] = E!NoEnrol]
            /\ user_config' \in {user_config, user_config \cup {enrol[t].uid}}
  BY DEF E!EnrolDescribes, E!EnrolRegisters, E!Goto, Goto, E!ForgetEnrol, E!userVars,
         userVars, E!userLoadVars
<1>2. DOMAIN enrol = Threads /\ enrol[t] \in E!Enrols /\ enrol[t].uid \in DOMAIN user
  BY <1>1 DEF Inv, Locals, Ready, E!Enrolling
<1>3. UsersKnown /\ user_config \subseteq DOMAIN user /\ PartOf(umodel, user)
  BY DEF Inv, Users
<1>4. user_config \subseteq user_config' /\ user_config' \subseteq DOMAIN user'
  BY <1>1, <1>2, <1>3 DEF userVars
<1>5. UsersKnown'
  <2>1. UNCHANGED <<user, umodel, uresult, ulines>>
    BY <1>1 DEF userVars
  <2>2. UserModelTypeOK'
    BY <1>3, <2>1 DEF UsersKnown, UserLoadingTypeOK, UserModelTypeOK, IsUserTable, IsUserMap
  <2>3. user_config' \subseteq Uids
    BY <1>4, <2>2 DEF UserModelTypeOK, IsUserTable, IsUserMap
  <2>4. UserLoadingTypeOK'
    BY <1>3, <2>1, <2>2, <2>3 DEF UsersKnown, UserLoadingTypeOK
  <2> QED BY <1>3, <1>4, <2>1, <2>4
          DEF UsersKnown, UserKeysKnown, RowsCurrent, MapNamesUsers
<1>6. PartOf(umodel', user')
  BY <1>1, <1>3 DEF PartOf, userVars
<1>7. Tables'
  BY <1>1, TablesStay DEF Inv, tables, bookVars, userVars, commVars
<1>8. CASE Goto(t, "uregister") /\ UNCHANGED <<enrol, user_config>>
  BY <1>1, <1>2, <1>4, <1>5, <1>6, <1>7, <1>8, EnrolGoesOn DEF uploadVars, userVars
<1>9. CASE Goto(t, "uconnect") /\ enrol' = [enrol EXCEPT ![t] = E!NoEnrol]
  <2>1. DOMAIN enrol' = Threads
    BY <1>2, <1>9
  <2> QED BY <1>1, <1>4, <1>5, <1>6, <1>7, <1>9, <2>1, EnrolGoesOn DEF uploadVars, userVars
<1> QED BY <1>1, <1>8, <1>9

LEMMA EnrolStep ==
  ASSUME Inv, NEW t \in Threads, Enrol(t)
  PROVE  Inv' /\ server' # "aborted"
<1>1. UNCHANGED <<bookVars, commVars, req, uploadVars>>
  BY DEF Enrol
<1>2. CASE \/ E!Request(t)
           \/ E!EnrolRefused(t) \/ E!EnrolChecked(t) \/ E!EnrolNotInserted(t)
  BY <1>1, <1>2, EnrolQuietStep
<1>3. CASE E!EnrolInserted(t)
  BY <1>1, <1>3, EnrolInsertedStep DEF E!EnrolInserted
<1>4. CASE E!EnrolAborts(t)
  BY <1>4, BookServerAssumption DEF E!EnrolAborts
<1>5. CASE E!EnrolDescribes(t) \/ E!EnrolRegisters(t)
  BY <1>1, <1>5, EnrolDescribesStep
<1>6. CASE E!Reload(t)
  <2>1. LoadUsers(t) /\ UNCHANGED enrol
    BY <1>6, LoadUsersIsLoadUsers DEF E!Reload
  <2>2. server = "up" /\ server' = server
    BY <2>1
    DEF LoadUsers, LoadUsersConnectFails, LoadUsersSelectFails, LoadUsersSelect,
        LoadUsersFetch, LoadUsersClose, LoadUsersConfigLine, LoadUsersReturn, processVars
  <2> QED BY <1>1, <2>1, <2>2, LoadUsersStep DEF uploadVars
<1> QED BY <1>2, <1>3, <1>4, <1>5, <1>6 DEF Enrol, E!Handle
-----------------------------------------------------------------------------
(* The invariant.                                                          *)

LEMMA InitInv == Init => Inv
<1> SUFFICES ASSUME Init PROVE Inv
  OBVIOUS
<1>1. /\ server = "down" /\ conns = 0 /\ pc = [t \in Threads |-> "idle"]
      /\ BookBase = InitialBooks /\ book_config = InitialConfig /\ model = EmptyMap
      /\ result = [t \in Threads |-> EmptyMap] /\ lines = [t \in Threads |-> {}]
      /\ user = InitialUsers /\ umodel = NoUsers /\ Comments = {} /\ cmodel = {}
  BY DEF Init, L!Init, L!EmptyMap, EmptyMap, L!Blank, Blank, L!NoUsers, NoUsers,
         L!BlankUser, BlankUser
<1>2. /\ user_config = InitialUserConfig
      /\ uresult = [t \in Threads |-> NoUsers] /\ ulines = [t \in Threads |-> {}]
  BY DEF Init, E!Init, E!InitUsers, E!NoUsers, NoUsers, E!BlankUser, BlankUser
<1>3. DOMAIN req = Threads /\ DOMAIN form = Threads /\ DOMAIN enrol = Threads
  BY DEF Init, L!Init, Up!Init, E!Init, E!InitUsers
<1>4. \A t \in Threads : pc[t] = "idle"
  BY <1>1
<1>5. Counted
  <2>1. Fetching = {}
    BY <1>4 DEF Fetching, Fetches
  <2>2. Cardinality(Fetching) = 0
    BY <2>1, FS_EmptySet
  <2>3. 0 \in 0..MaxConn
    <3>1. MaxConn \in Nat
      BY ProcessAssumption
    <3> QED BY <3>1
  <2> QED BY <1>1, <2>2, <2>3 DEF Counted, ConnsAccounted, Labels
<1>6. Books
  <2>1. IsTable(BookBase) /\ book_config \subseteq DOMAIN BookBase
    BY <1>1, StoredTablesAssumption
  <2>2. \A t \in Threads : result[t] = EmptyMap /\ lines[t] = {}
    BY <1>1
  <2>3. BookModelTypeOK
    BY <1>1, <2>1, <2>2, BlankType DEF BookModelTypeOK, IsTable, IsBookMap
  <2>4. KeysKnown
    BY <1>1, <2>2 DEF KeysKnown, EmptyMap
  <2> QED BY <1>1, <1>4, <2>1, <2>3, <2>4 DEF Books, BooksFollow, LoadSoFar
<1>7. Users
  <2>1. IsUserTable(user) /\ user_config \subseteq DOMAIN user
    BY <1>1, <1>2, StoredTablesAssumption
  <2>2. \A t \in Threads : uresult[t] = NoUsers /\ ulines[t] = {}
    BY <1>2
  <2>3. UserLoadingTypeOK
    BY <1>1, <1>2, <2>1, <2>2, BlankUserType
    DEF UserLoadingTypeOK, UserModelTypeOK, IsUserTable, IsUserMap
  <2>4. UserKeysKnown /\ RowsCurrent /\ MapNamesUsers /\ PartOf(umodel, user)
    BY <1>1, <2>2, BlankUserType DEF UserKeysKnown, RowsCurrent, MapNamesUsers, PartOf
  <2> QED BY <1>1, <1>4, <2>1, <2>3, <2>4 DEF Users, UsersKnown, UsersFollow
<1>8. Comms
  BY <1>1 DEF Comms, CommsFollow
<1>9. Tables
  BY <1>1, StoredTablesAssumption DEF Tables, IsbnUnique, TablesAgree
<1>10. Locals
  BY <1>3, <1>4 DEF Locals, Ready, Up!Uploads, E!Enrolling
<1> QED BY <1>5, <1>6, <1>7, <1>8, <1>9, <1>10 DEF Inv

(* It is kept; and a handler that aborts has just begun.                   *)
LEMMA NextInv ==
  ASSUME Inv, [Next]_vars
  PROVE  /\ Inv'
         /\ UNCHANGED vars \/ \A t \in Threads : server' = "aborted" => pc[t] = "idle"
<1>1. CASE Start
  BY <1>1, StartStep DEF Start, Boot
<1>2. CASE Crash
  BY <1>2, CrashStep DEF Crash, Kill
<1>3. ASSUME NEW t \in Threads, Lend(t) \/ Upload(t) \/ Enrol(t) \/ Comment(t)
      PROVE  Inv' /\ \A s \in Threads : server' = "aborted" => pc[s] = "idle"
  <2>1. Inv' /\ (server' = "aborted" => pc[t] = "idle")
    BY <1>3, LendStep, UploadStep, EnrolStep, CommentingStep
  <2>2. \A s \in Threads : s = t
    BY OnlyThread DEF OneThread
  <2> QED BY <2>1, <2>2
<1>4. CASE UNCHANGED vars
  BY <1>4, StutterStep
<1> QED BY <1>1, <1>2, <1>3, <1>4 DEF Next

LEMMA Invariant == Spec => []Inv
<1>1. Inv /\ [Next]_vars => Inv'
  BY NextInv
<1> QED BY InitInv, <1>1, PTL DEF Spec
-----------------------------------------------------------------------------
(* Between two requests.                                                   *)

(* The maps of the books and of the users are the tables, the first unless *)
(* it is empty, the second while there is a connection left.               *)
LEMMA MapsAtRest ==
  ASSUME Inv, Quiescent
  PROVE  /\ model = BookBase \/ (model = EmptyMap /\ ~ (conns < MaxConn))
         /\ conns < MaxConn => umodel = user /\ cmodel = Comments
<1>1. PICK t : t \in Threads
  <2>1. Cardinality(Threads) = 1
    BY BookServerAssumption
  <2> QED BY <2>1, FS_EmptySet
<1>2. server = "up" /\ pc[t] = "idle"
  BY <1>1 DEF Quiescent
<1>3. pc[t] \notin BooksAway \cup UsersAway \cup CommsAway \cup Fetches
  BY <1>2 DEF BooksAway, UsersAway, CommsAway, Fetches
<1>4. BooksFollow(t) /\ UsersFollow(t) /\ CommsFollow(t)
  BY <1>1 DEF Inv, Books, Users, Comms
<1>5. conns < MaxConn => umodel = user
  <2>1. PartOf(umodel, user) /\ IsUserMap(umodel) /\ IsUserMap(user)
    BY DEF Inv, Users, UsersKnown, UserLoadingTypeOK, UserModelTypeOK, IsUserTable
  <2>2. umodel = [u \in DOMAIN umodel |-> umodel[u]] /\ user = [u \in DOMAIN user |-> user[u]]
    BY <2>1 DEF IsUserMap
  <2>3. conns < MaxConn => DOMAIN umodel = DOMAIN user
    BY <1>2, <1>3, <1>4, <2>1 DEF UsersFollow, Room, PartOf
  <2>4. \A u \in DOMAIN umodel : umodel[u] = user[u]
    BY <2>1 DEF PartOf
  <2> QED BY <2>2, <2>3, <2>4
<1> QED BY <1>2, <1>3, <1>4, <1>5 DEF BooksFollow, CommsFollow, Room

(* What the pages of borrower and owner show, from a full map.             *)
LEMMA LoansAreShown ==
  ASSUME Inv, model = BookBase
  PROVE  LoansShown
<1> SUFFICES ASSUME NEW b \in DOMAIN BookBase, NEW u \in DOMAIN umodel
             PROVE  /\ umodel[u].uname # "NULL" =>
                         (b \in Personal(u).my_borrow <=>
                            BookBase[b].islend = "1" /\ BookBase[b].borrower = umodel[u].uname)
                    /\ b \in Personal(u).my_lend
                         <=> BookBase[b].islend = "1" /\ BookBase[b].uid = u
  BY DEF LoansShown
<1>1. umodel[u].uid = u /\ GetUser(u) = umodel[u]
  <2>1. u \in DOMAIN user /\ umodel[u] = user[u] /\ IsUserTable(user)
    BY DEF Inv, Users, PartOf, UsersKnown, UserLoadingTypeOK, UserModelTypeOK
  <2>2. user[u].uid = u
    BY <2>1 DEF IsUserTable
  <2> QED BY <2>1, <2>2 DEF GetUser
<1>2. BookBase[b].islend # "1" => BookBase[b].borrower = "NULL"
  BY DEF Inv, Tables
<1> QED BY <1>1, <1>2 DEF Personal, GetMyBorrow, GetMyLend

(* What the other pages show, from full maps.                              *)
LEMMA OffersAreShown ==
  ASSUME Inv, model = BookBase, cmodel = Comments
  PROVE  OffersShown
<1> SUFFICES ASSUME NEW b \in DOMAIN BookBase
             PROVE  /\ b \in Personal(BookBase[b].uid).my_books
                    /\ b \in GetMyBooksByUname(BookBase[b].owner)
                    /\ GetUserSearchResult("isbn", BookBase[b].isbn) = {b}
                    /\ b \in GetUserSearchResult("owner", user[BookBase[b].uid].uname)
                    /\ BookPage(b).book = BookBase[b]
                    /\ BookPage(b).book_comm = {c \in Comments : c.bid = b}
  BY DEF OffersShown
<1>1. BookBase[b].owner = user[BookBase[b].uid].uname /\ IsbnUnique
  BY DEF Inv, Tables, TablesAgree
<1>2. Entry(model, b) = BookBase[b] /\ BookBase[b].id = b
  BY DEF Inv, Books, BookModelTypeOK, IsTable, Row, Entry
<1>3. GetUserSearchResult("isbn", BookBase[b].isbn) = {b}
  BY <1>1 DEF GetUserSearchResult, IsbnUnique
<1>4. b \in GetUserSearchResult("owner", user[BookBase[b].uid].uname)
  BY <1>1 DEF GetUserSearchResult
<1>5. BookPage(b).book = BookBase[b] /\ BookPage(b).book_comm = {c \in Comments : c.bid = b}
  BY <1>2 DEF BookPage, GetCommsByBid
<1>6. b \in Personal(BookBase[b].uid).my_books /\ b \in GetMyBooksByUname(BookBase[b].owner)
  BY DEF Personal, GetMyBooksById, GetMyBooksByUname
<1> QED BY <1>3, <1>4, <1>5, <1>6

-----------------------------------------------------------------------------
(* What no step of a running server does.                                  *)

LoansKept ==
  \A b \in DOMAIN BookBase :
    BookBase[b].islend = "1" /\ BookBase'[b].islend = "1"
      => BookBase'[b].borrower = BookBase[b].borrower

LEMMA LoansKeptStep ==
  ASSUME Inv, [Next]_vars
  PROVE  LoansKept
<1>1. CASE UNCHANGED vars \/ Start \/ Crash
  <2>1. BookBase' = BookBase
    BY <1>1 DEF vars, bookVars, Start, Crash, BookModelBooted, BookModelGone
  <2> QED BY <2>1 DEF LoansKept
<1>2. ASSUME NEW t \in Threads, Lend(t) PROVE LoansKept
  <2>1. CASE L!LendWrites(t) \/ L!ReturnWrites(t)
    BY <1>2, <2>1, LendWritesStep, ReturnWritesStep DEF Lend, LoansKept
  <2>2. CASE ~ (L!LendWrites(t) \/ L!ReturnWrites(t))
    <3>1. BookBase' = BookBase
      <4>1. Load(t) => BookBase' = BookBase
        BY DEF Load, LoadClear, LoadConnectFails, LoadSelectFails, LoadSelect, LoadFetch,
               LoadClose, LoadConfigLine, LoadReturn, bookVars
      <4> QED BY <1>2, <2>2, <4>1, LoadIsLoad
          DEF Lend, L!Request, L!Handle, L!LendTooLong, L!LendRefused, L!LendAborts,
              L!LendAccepted, L!ReturnAborts, L!ReturnComments, L!ReturnLoadsComments, L!ReturnAbortsLate,
              L!Reload, L!Abort, L!Gone, L!BookModelGone, L!bookVars, L!vars
    <3> QED BY <3>1 DEF LoansKept
  <2> QED BY <2>1, <2>2
<1>3. ASSUME NEW t \in Threads, Upload(t) PROVE LoansKept
  <2>1. \A b \in DOMAIN BookBase : BookBase'[b] = BookBase[b]
    <3>1. UNCHANGED <<userLoadVars, commVars, req, enrolVars>>
      BY <1>3 DEF Upload
    <3>2. CASE Up!UploadInserted(t)
      BY <3>1, <3>2, UploadInsertedStep
    <3>3. CASE Up!UploadAborts(t)
      BY <3>3, BookServerAssumption DEF Up!UploadAborts
    <3>4. CASE Up!Reload(t)
      <4>1. Load(t)
        BY <3>4, LoadIsLoad DEF Up!Reload
      <4> QED BY <4>1
          DEF Load, LoadClear, LoadConnectFails, LoadSelectFails, LoadSelect, LoadFetch,
              LoadClose, LoadConfigLine, LoadReturn, bookVars
    <3> QED BY <1>3, <3>1, <3>2, <3>3, <3>4, UploadQuietStep, UploadDescribesStep
            DEF Upload, Up!Handle
  <2> QED BY <2>1 DEF LoansKept
<1>4. ASSUME NEW t \in Threads, Enrol(t) \/ Comment(t) PROVE LoansKept
  <2>1. BookBase' = BookBase
    BY <1>4
    DEF Enrol, Comment, bookVars, Co!CommentEmpty, Co!CommentAborts, Co!CommentStored,
        Co!CommentsLoaded, Co!CommentingGone, Co!BookModelGone, Co!bookVars
  <2> QED BY <2>1 DEF LoansKept
<1> QED BY <1>1, <1>2, <1>3, <1>4 DEF Next

-----------------------------------------------------------------------------
(* Between two requests every map is its table, until the connections that *)
(* InsertBook, UpDateBook and InsertComments never close are all there is. *)
THEOREM BookServerServedUntilFull == Spec => []ServedUntilFull
<1>1. Inv => ServedUntilFull
  <2>1. Inv => (~ (conns < MaxConn) => conns = MaxConn)
    <3>1. Inv => conns \in 0..MaxConn
      BY DEF Inv, Counted
    <3>2. MaxConn \in Nat
      BY ProcessAssumption
    <3> QED BY <3>1, <3>2
  <2> QED BY <2>1, MapsAtRest DEF ServedUntilFull
<1> QED BY Invariant, <1>1, PTL

(* No two rows of the table of the books have one isbn, though /uploadbook *)
(* looks it up in the map.                                                 *)
THEOREM BookServerIsbnUnique == Spec => []IsbnUnique
<1>1. Inv => IsbnUnique
  BY DEF Inv, Tables
<1> QED BY Invariant, <1>1, PTL

(* Every book has the id and the name of a user, every loan the name of    *)
(* one or none at all, every comment the ids of a book and of a user,      *)
(* whatever ids were asked for, whatever the maps were that the handlers   *)
(* took them from, and whenever the process died.                          *)
THEOREM BookServerTablesAgree == Spec => []TablesAgree
<1>1. Inv => TablesAgree
  BY DEF Inv, Tables
<1> QED BY Invariant, <1>1, PTL

(* Between two requests the personal pages show the loans of the table and *)
(* no others (to a user called NULL, those he has lent), and every book is *)
(* found where it has to be.                                               *)
THEOREM BookServerPagesAgree == Spec => []PagesAgree
<1>1. Inv => PagesAgree
  <2>1. ASSUME Inv, Quiescent PROVE model # EmptyMap => LoansShown
    BY <2>1, MapsAtRest, LoansAreShown
  <2>2. ASSUME Inv, Quiescent PROVE conns < MaxConn => OffersShown
    BY <2>2, MapsAtRest, OffersAreShown
  <2> QED BY <2>1, <2>2 DEF PagesAgree
<1> QED BY Invariant, <1>1, PTL

(* A request that names a stored book and a stored user ends the process   *)
(* in std::stoi only when no connection is left; and no handler does once  *)
(* it has written anything.                                                *)
THEOREM BookServerAbortsOnlyWhenFull == Spec => AbortsOnlyWhenFull
<1>1. Inv /\ [Next]_vars =>
        [\A t \in Threads : /\ StoredRequestAborts(t) => conns = MaxConn
                            /\ server' = "aborted" => pc[t] = "idle"]_vars
  BY NextInv, StoredAborts
<1> QED BY Invariant, <1>1, PTL DEF Spec, AbortsOnlyWhenFull

(* A book that is out is lent to nobody else, whatever other requests come *)
(* in between.                                                             *)
THEOREM BookServerLentOnce == Spec => LentOnce
<1>1. Inv /\ [Next]_vars =>
        [\A b \in DOMAIN BookBase :
           BookBase[b].islend = "1" /\ BookBase'[b].islend = "1"
             => BookBase'[b].borrower = BookBase[b].borrower]_(L!vars)
  BY LoansKeptStep DEF LoansKept
<1> QED BY Invariant, <1>1, PTL DEF Spec, LentOnce, L!LentOnce
=============================================================================
