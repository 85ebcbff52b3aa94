----------------------------- MODULE BookModel -----------------------------
(***************************************************************************)
(* BookModel: the std::map the server answers from, the table BookBase it  *)
(* mirrors, and Load(), which rebuilds the map in place, in the thread of  *)
(* the request that called it, while the other threads keep reading it.    *)
(*                                                                         *)
(* Load() is always the last call of a handler that makes it, so its last  *)
(* step leaves the thread idle.                                            *)
(***************************************************************************)
EXTENDS Process

CONSTANTS
  Bids,      \* book ids a row, a config line or a request may name
  Isbns      \* isbn strings of rows and forms

ASSUME BookModelAssumption ==
  /\ Bids \subseteq Nat
  /\ "" \notin Isbns

VARIABLES
  BookBase,     \* table BookBase: bid -> row
  book_config,  \* ids with a line in ./book_data/book_config.cfg
  model,        \* std::map<int,Book> model
  result,       \* result[t]: rows the Load() of thread t has still to fetch
  lines         \* lines[t]: config lines it has still to read

bookVars == <<BookBase, book_config, model, result, lines>>

-----------------------------------------------------------------------------
Book == [id : Bids \cup {NoNumber}, isbn : Isbns \cup {""},
         owner : Names \cup {""}, borrower : Names \cup {"", "NULL"},
         islend : {"0", "1", ""}, num : Int \cup {NoNumber},
         uid : Uids \cup {NoNumber}]

(* A default constructed Book: every string is empty.                      *)
Blank == [id |-> NoNumber, isbn |-> "", owner |-> "", borrower |-> "",
          islend |-> "", num |-> NoNumber, uid |-> NoNumber]

(* A row of the table: id is the primary key, and no column is null.       *)
Row(b) ==
  {r \in Book : /\ r.id = b /\ r.isbn # "" /\ r.islend # ""
                /\ r.num \in Int /\ r.uid \in Uids}

IsBookMap(map) == DOMAIN map \subseteq Bids /\ map \in [DOMAIN map -> Book]
IsTable(map) == IsBookMap(map) /\ \A b \in DOMAIN map : map[b] \in Row(b)
EmptyMap == [b \in {} |-> Blank]

(* model[b] = entry, or one more row of the table                          *)
Put(map, b, entry) ==
  [c \in DOMAIN map \cup {b} |-> IF c = b THEN entry ELSE map[c]]

(* map[b], as operator[] or find() gives it                                *)
Entry(map, b) == IF b \in DOMAIN map THEN map[b] ELSE Blank

(* The map a Load() that nothing disturbs builds: the rows, and a blank    *)
(* entry for a config line whose id has no row.                            *)
Loaded(rows, ids) == [b \in DOMAIN rows \cup ids |-> Entry(rows, b)]

(* The map main() starts to serve from.                                    *)
BootedModel(how) ==
  CASE how = "loaded"   -> Loaded(BookBase, book_config)
    [] how = "noconfig" -> Loaded(BookBase, {})
    [] OTHER            -> EmptyMap

-----------------------------------------------------------------------------
(* Reads.  They take no lock, so what they return while another thread     *)
(* changes the map is a choice over what the build can produce.            *)

(* Another thread clears the map, or inserts a node into its tree.         *)
Restructured(t) ==
  \E s \in Threads \ {t} :
    \/ pc[s] = "clear" /\ model # EmptyMap
    \/ pc[s] = "fetch" /\ ~ (DOMAIN result[s] \subseteq DOMAIN model)
    \/ pc[s] = "config" /\ ~ (lines[s] \subseteq DOMAIN model)

(* What is left of the map once a thread has put a node into its tree: a   *)
(* thread that restructures it at the same time may cut any of its nodes   *)
(* off.                                                                    *)
Inserted(t, map) ==
  {map} \cup {[b \in D |-> map[b]] : D \in {D \in SUBSET DOMAIN map : Restructured(t)}}

(* A Book copied while another is assigned to it, string by string.        *)
Torn(old, new) ==
  [id : {old.id, new.id}, isbn : {old.isbn, new.isbn},
   owner : {old.owner, new.owner}, borrower : {old.borrower, new.borrower},
   islend : {old.islend, new.islend}, num : {old.num, new.num},
   uid : {old.uid, new.uid}]

(* What GetBook may leave in its out-parameter: the callers ignore its     *)
(* result, so an absent book is a Blank one to them.                       *)
GetBook(t, b) ==
  {Entry(model, b)}
    \cup {e \in {Blank} : Restructured(t)}
    \cup UNION {Torn(Entry(model, b), result[s][b]) :
                s \in {s \in Threads \ {t} :
                         pc[s] = "fetch" /\ b \in DOMAIN result[s]}}

(* The number of books GetAllBooks returns.                                *)
AllBooks(t) ==
  {Cardinality(DOMAIN model)}
    \cup {n \in 0..Cardinality(DOMAIN model) : Restructured(t)}

(* Whether GetBookByISBN finds a book.                                     *)
GetBookByISBN(t, isbn) ==
  {\E b \in DOMAIN model : model[b].isbn = isbn}
    \cup {found \in {FALSE} : Restructured(t)}

-----------------------------------------------------------------------------
(* Load(): clear, connect and query, fetch row by row, close, read the     *)
(* config file line by line.                                               *)

(* Mutant: empty() where clear() is meant, as in UserModel and CommModel.  *)
LoadClearKeeps(t) ==
  /\ server = "up"
  /\ pc[t] = "clear"
  /\ Goto(t, "connect")
  /\ UNCHANGED <<server, conns, bookVars>>

LoadClear(t) ==
  /\ server = "up"
  /\ pc[t] = "clear"
  /\ model' = EmptyMap
  /\ Goto(t, "connect")
  /\ UNCHANGED <<server, conns, BookBase, book_config, result, lines>>

(* Mutant: mysql_close on a connection that was never opened.              *)
LoadConnectFailsCloses(t) ==
  /\ server = "up"
  /\ pc[t] = "connect"
  /\ ConnectFails
  /\ conns' = conns - 1
  /\ Goto(t, "idle")
  /\ UNCHANGED <<server, bookVars>>

LoadConnectFails(t) ==
  /\ server = "up"
  /\ pc[t] = "connect"
  /\ ConnectFails
  /\ Goto(t, "idle")
  /\ UNCHANGED <<server, conns, bookVars>>

LoadSelectFails(t) ==
  /\ server = "up"
  /\ pc[t] = "connect"
  /\ CanConnect /\ Faults
  /\ Leak
  /\ Goto(t, "idle")
  /\ UNCHANGED <<server, bookVars>>

LoadSelect(t) ==
  /\ server = "up"
  /\ pc[t] = "connect"
  /\ CanConnect
  /\ conns' = conns + 1
  /\ result' = [result EXCEPT ![t] = BookBase]
  /\ Goto(t, "fetch")
  /\ UNCHANGED <<server, BookBase, book_config, model, lines>>

LoadFetch(t, b) ==
  /\ server = "up"
  /\ pc[t] = "fetch"
  /\ b \in DOMAIN result[t]
  /\ model' \in Inserted(t, Put(model, b, result[t][b]))
  /\ result' = [result EXCEPT ![t] =
                  [c \in DOMAIN result[t] \ {b} |-> result[t][c]]]
  /\ UNCHANGED <<processVars, BookBase, book_config, lines>>

(* Mutant: if (row = mysql_fetch_row()) for while.                         *)
LoadCloseEarly(t) ==
  /\ server = "up"
  /\ pc[t] = "fetch"
  /\ Cardinality(DOMAIN result[t]) < Cardinality(DOMAIN BookBase)
  /\ conns' = conns - 1
  /\ lines' = [lines EXCEPT ![t] = book_config]
  /\ result' = [result EXCEPT ![t] = EmptyMap]
  /\ Goto(t, "config")
  /\ UNCHANGED <<server, BookBase, book_config, model>>

LoadClose(t) ==
  /\ server = "up"
  /\ pc[t] = "fetch"
  /\ DOMAIN result[t] = {}
  /\ conns' = conns - 1
  /\ \/ lines' = [lines EXCEPT ![t] = book_config] /\ Goto(t, "config")
     \/ Faults /\ UNCHANGED lines /\ Goto(t, "idle")
  /\ UNCHANGED <<server, BookBase, book_config, model, result>>

(* Mutant: model[id] = b for model[id].dir = b.dir, with what is left in b *)
(* of the row read last.                                                   *)
LoadConfigLineAssigns(t, b) ==
  /\ server = "up"
  /\ pc[t] = "config"
  /\ b \in lines[t]
  /\ \E c \in DOMAIN model : model' = Put(model, b, [model[c] EXCEPT !.id = b])
  /\ lines' = [lines EXCEPT ![t] = @ \ {b}]
  /\ UNCHANGED <<processVars, BookBase, book_config, result>>

(* Mutant: the loop does not take the next line.                           *)
LoadConfigLineAgain(t, b) ==
  /\ server = "up"
  /\ pc[t] = "config"
  /\ b \in lines[t]
  /\ model' = Put(model, b, Entry(model, b))
  /\ UNCHANGED <<processVars, BookBase, book_config, result, lines>>

(* model[id].dir = ... keeps the entry, or creates a blank one.            *)
LoadConfigLine(t, b) ==
  /\ server = "up"
  /\ pc[t] = "config"
  /\ b \in lines[t]
  /\ model' \in Inserted(t, Put(model, b, Entry(model, b)))
  /\ lines' = [lines EXCEPT ![t] = @ \ {b}]
  /\ UNCHANGED <<processVars, BookBase, book_config, result>>

LoadReturn(t) ==
  /\ server = "up"
  /\ pc[t] = "config"
  /\ lines[t] = {}
  /\ Goto(t, "idle")
  /\ UNCHANGED <<server, conns, bookVars>>

Load(t) ==
  \/ LoadClear(t)
  \/ LoadConnectFails(t)
  \/ LoadSelectFails(t)
  \/ LoadSelect(t)
  \/ \E b \in Bids : LoadFetch(t, b)
  \/ LoadClose(t)
  \/ \E b \in Bids : LoadConfigLine(t, b)
  \/ LoadReturn(t)

(* UpDateBook and InsertBook: the statement runs, or it does not; the      *)
(* connection is never closed.                                             *)
Write(rows) ==
  \/ /\ ConnectFails
     /\ UNCHANGED <<conns, BookBase>>
  \/ /\ CanConnect
     /\ Leak
     /\ \/ BookBase' = rows
        \/ Faults /\ UNCHANGED BookBase

-----------------------------------------------------------------------------
(* The map is gone with the process; the table and the file are not.       *)
BookModelGone ==
  /\ model' = EmptyMap
  /\ result' = [t \in Threads |-> EmptyMap]
  /\ lines' = [t \in Threads |-> {}]
  /\ UNCHANGED <<BookBase, book_config>>

BookModelBooted(how) ==
  /\ model' = BootedModel(how)
  /\ UNCHANGED <<BookBase, book_config, result, lines>>

BookModelTypeOK ==
  /\ IsTable(BookBase)
  /\ book_config \subseteq Bids
  /\ IsBookMap(model)
  /\ DOMAIN result = Threads
  /\ \A t \in Threads : IsTable(result[t])
  /\ lines \in [Threads -> SUBSET Bids]
=============================================================================
