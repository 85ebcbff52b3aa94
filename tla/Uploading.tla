----------------------------- MODULE Uploading -----------------------------
(***************************************************************************)
(* Offering a book: the handler of POST /uploadbook/<uid>.  The new book's *)
(* id is the number of books in the map plus one; whether its isbn is      *)
(* there already is looked up in the map too; then the row is inserted and *)
(* the files of ./book_data are written, under that id.                    *)
(***************************************************************************)
EXTENDS BookModel, UserModel

CONSTANTS
  MaxBooks,      \* bound: no id above it is given out
  InitialBooks,  \* table BookBase when the server is first started
  InitialConfig, \* ids in book_config.cfg at that time
  InitialUsers   \* table user at that time

ASSUME UploadingAssumption ==
  /\ MaxBooks \in Nat /\ 1..MaxBooks \subseteq Bids
  /\ IsTable(InitialBooks)
  /\ InitialConfig \subseteq Bids
  /\ IsUserTable(InitialUsers)

(* book_config.cfg and the table hold what the program itself has stored.  *)
ASSUME StoredBooksAssumption ==
  \E n \in 0..MaxBooks : DOMAIN InitialBooks \cup InitialConfig = 1..n

VARIABLES
  form,          \* form[t]: the new book thread t is storing
  desc_txt       \* desc_txt[b]: isbns of the books described in book_data/b

vars == <<processVars, bookVars, userVars, form, desc_txt>>

Forms == [bid : 1..MaxBooks, isbn : Isbns, uid : Uids]

NoForm == [bid |-> NoNumber, isbn |-> "", uid |-> NoNumber]

Forget(t) == form' = [form EXCEPT ![t] = NoForm]

Init ==
  /\ server = "down"
  /\ pc = [t \in Threads |-> "idle"]
  /\ conns = 0
  /\ BookBase = InitialBooks
  /\ book_config = InitialConfig
  /\ model = EmptyMap
  /\ result = [t \in Threads |-> EmptyMap]
  /\ lines = [t \in Threads |-> {}]
  /\ user = InitialUsers
  /\ umodel = NoUsers
  /\ form = [t \in Threads |-> NoForm]
  /\ desc_txt = [b \in Bids |-> {Entry(InitialBooks, b).isbn} \ {""}]

Gone ==
  /\ BookModelGone
  /\ UserModelGone
  /\ form' = [t \in Threads |-> NoForm]
  /\ UNCHANGED desc_txt

Start ==
  \E how \in LoadResults, uhow \in LoadResults, chow \in LoadResults \ {"noconfig"} :
    /\ Boot(how, uhow, chow)
    /\ BookModelBooted(how)
    /\ UserModelBooted(uhow)
    /\ UNCHANGED <<form, desc_txt>>

Crash == Kill /\ Gone

-----------------------------------------------------------------------------
(* Mutant: the id after the next one.                                      *)
UploadReceivedSkips(t, isbn, u) ==
  /\ server = "up"
  /\ pc[t] = "idle"
  /\ \E n \in AllBooks(t) :
       /\ n + 2 <= MaxBooks
       /\ form' = [form EXCEPT ![t] = [bid |-> n + 2, isbn |-> isbn, uid |-> u]]
  /\ Goto(t, "check")
  /\ UNCHANGED <<server, conns, bookVars, userVars, desc_txt>>

(* int bid = all_books.size() + 1.  (A form that lacks a field is answered *)
(* before, with return 9, and changes nothing.)                            *)
UploadReceived(t, isbn, u) ==
  /\ server = "up"
  /\ pc[t] = "idle"
  /\ \E n \in AllBooks(t) :
       /\ n + 1 <= MaxBooks
       /\ form' = [form EXCEPT ![t] = [bid |-> n + 1, isbn |-> isbn, uid |-> u]]
  /\ Goto(t, "check")
  /\ UNCHANGED <<server, conns, bookVars, userVars, desc_txt>>

(* return 1: no such user.  return 2: the map has a book with that isbn.   *)
UploadRefused(t) ==
  /\ server = "up"
  /\ pc[t] = "check"
  /\ form[t].uid \notin DOMAIN umodel \/ TRUE \in GetBookByISBN(t, form[t].isbn)
  /\ Goto(t, "idle")
  /\ Forget(t)
  /\ UNCHANGED <<server, conns, bookVars, userVars, desc_txt>>

(* Mutant: the isbn is not looked up.                                      *)
UploadUnchecked(t) ==
  /\ server = "up"
  /\ pc[t] = "check"
  /\ form[t].uid \in DOMAIN umodel
  /\ Goto(t, "insert")
  /\ UNCHANGED <<server, conns, bookVars, userVars, form, desc_txt>>

UploadChecked(t) ==
  /\ server = "up"
  /\ pc[t] = "check"
  /\ form[t].uid \in DOMAIN umodel /\ FALSE \in GetBookByISBN(t, form[t].isbn)
  /\ Goto(t, "insert")
  /\ UNCHANGED <<server, conns, bookVars, userVars, form, desc_txt>>

NewRow(f) ==
  [id |-> f.bid, isbn |-> f.isbn, owner |-> GetUser(f.uid).uname,
   borrower |-> "NULL", islend |-> "0", num |-> 0, uid |-> f.uid]

(* Mutant: the result of InsertBook is ignored, as that of UpDateBook is.  *)
UploadNotInsertedGoesOn(t) ==
  /\ server = "up"
  /\ pc[t] = "insert"
  /\ ConnectFails \/ form[t].bid \in DOMAIN BookBase
  /\ Goto(t, "describe")
  /\ UNCHANGED <<server, conns, bookVars, userVars, form, desc_txt>>

(* return 3: there is no connection, the key is taken or the query fails,  *)
(* be it after the row was stored.  Nothing is reloaded then.              *)
UploadNotInserted(t) ==
  /\ server = "up"
  /\ pc[t] = "insert"
  /\ \/ ConnectFails /\ UNCHANGED <<conns, BookBase>>
     \/ /\ CanConnect
        /\ form[t].bid \in DOMAIN BookBase \/ Faults
        /\ Leak
        /\ UNCHANGED BookBase
     \/ /\ CanConnect
        /\ form[t].bid \notin DOMAIN BookBase /\ Faults
        /\ Leak
        /\ BookBase' = Put(BookBase, form[t].bid, NewRow(form[t]))
  /\ Goto(t, "idle")
  /\ Forget(t)
  /\ UNCHANGED <<server, book_config, model, result, lines, userVars, desc_txt>>

UploadInserted(t) ==
  /\ server = "up"
  /\ pc[t] = "insert"
  /\ CanConnect
  /\ form[t].bid \notin DOMAIN BookBase
  /\ Leak
  /\ BookBase' = Put(BookBase, form[t].bid, NewRow(form[t]))
  /\ Goto(t, "describe")
  /\ UNCHANGED <<server, book_config, model, result, lines, userVars, form, desc_txt>>

(* CreateDir returns std::string(nullptr) when mkdir fails: it throws.     *)
UploadAborts(t) ==
  /\ pc[t] = "describe"
  /\ Faults
  /\ Terminate
  /\ Gone

(* FileUtil::Write appends; that it cannot open the file is ignored.       *)
UploadDescribes(t) ==
  /\ server = "up"
  /\ pc[t] = "describe"
  /\ \/ desc_txt' = [desc_txt EXCEPT ![form[t].bid] = @ \cup {form[t].isbn}]
     \/ Faults /\ UNCHANGED desc_txt
  /\ Goto(t, "register")
  /\ UNCHANGED <<server, conns, bookVars, userVars, form>>

(* Mutant: the map is not reloaded.                                        *)
UploadRegistersOnly(t) ==
  /\ server = "up"
  /\ pc[t] = "register"
  /\ book_config' = book_config \cup {form[t].bid}
  /\ Goto(t, "idle")
  /\ Forget(t)
  /\ UNCHANGED <<server, conns, BookBase, model, result, lines, userVars, desc_txt>>

UploadRegisters(t) ==
  /\ server = "up"
  /\ pc[t] = "register"
  /\ \/ book_config' = book_config \cup {form[t].bid}
     \/ Faults /\ UNCHANGED book_config
  /\ Goto(t, "clear")
  /\ Forget(t)
  /\ UNCHANGED <<server, conns, BookBase, model, result, lines, userVars, desc_txt>>

-----------------------------------------------------------------------------
Request(t) == \E isbn \in Isbns, u \in Uids : UploadReceived(t, isbn, u)

Reload(t) == Load(t) /\ UNCHANGED <<userVars, form, desc_txt>>

Handle(t) ==
  \/ UploadRefused(t)
  \/ UploadChecked(t)
  \/ UploadNotInserted(t)
  \/ UploadInserted(t)
  \/ UploadAborts(t)
  \/ UploadDescribes(t)
  \/ UploadRegisters(t)
  \/ Reload(t)

Next ==
  \/ Start
  \/ Crash
  \/ \E t \in Threads : Request(t) \/ Handle(t)

Spec == Init /\ [][Next]_vars

-----------------------------------------------------------------------------
(* Properties.                                                             *)

PcLabels == {"idle", "check", "insert", "describe", "register",
             "clear", "connect", "fetch", "config"}

Uploads == {"check", "insert", "describe", "register"}

(* Every variable keeps its type; a thread that stores a book has its form *)
(* (the handler of /uploadbook).                                           *)
TypeOK ==
  /\ server \in {"up", "down", "aborted"}
  /\ pc \in [Threads -> PcLabels]
  /\ conns \in 0..MaxConn
  /\ BookModelTypeOK
  /\ UserModelTypeOK
  /\ form \in [Threads -> Forms \cup {NoForm}]
  /\ \A t \in Threads : pc[t] \in Uploads => form[t] \in Forms
  /\ desc_txt \in [Bids -> SUBSET Isbns]

Ids == DOMAIN BookBase \cup book_config

(* Ids are given out without a gap, though they are computed from a map    *)
(* that other threads empty and refill, that may be empty after a failed   *)
(* Load() and that has entries for config lines: an id too small is taken, *)
(* and the primary key refuses it.                                         *)
IdsContiguous == Ids = 1..Cardinality(Ids)

(* The description under an id is that of the book in the row: of two      *)
(* uploads that computed the same id only one writes its files.            *)
DescribesRow ==
  \A b \in DOMAIN BookBase : desc_txt[b] \subseteq {BookBase[b].isbn}

(* A config line is written after the row, so no Load() that starts later  *)
(* makes a blank book of it.                                               *)
ConfiguredHasRow == book_config \subseteq DOMAIN BookBase
=============================================================================
