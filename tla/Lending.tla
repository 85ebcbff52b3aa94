------------------------------ MODULE Lending ------------------------------
(***************************************************************************)
(* Borrowing and giving back: the handlers of POST /update/<bid>/<uid> and *)
(* POST /updateback/<bid>/<uid>.  A handler reads the maps, decides, and   *)
(* writes to the table with what it has read; between any two of its steps *)
(* other threads run theirs, and the process may die.                      *)
(***************************************************************************)
EXTENDS BookModel, UserModel, CommModel

CONSTANTS
  Asked,         \* the book ids that requests name
  LendTimes,     \* the values of the form field lendtime, in days
  MaxWait,       \* bound: waitnum stays in -MaxWait..MaxWait + 1
  InitialBooks,  \* table BookBase when the server is first started
  InitialConfig, \* ids in book_config.cfg at that time
  InitialUsers   \* table user at that time

ASSUME LendingAssumption ==
  /\ Asked \subseteq Bids
  /\ LendTimes \subseteq Int \cup {NoNumber}
  /\ MaxWait \in Nat
  /\ IsTable(InitialBooks)
  /\ InitialConfig \subseteq Bids
  /\ IsUserTable(InitialUsers)

VARIABLE req     \* req[t]: the locals of thread t its next write is made of

vars == <<processVars, bookVars, userVars, commVars, req>>

NoRequest == [bid |-> NoNumber, uname |-> "", num |-> NoNumber]

Requests == [bid : Bids \cup {NoNumber}, uname : Names \cup {""},
             num : Int \cup {NoNumber}]

Keep(t, b, n, k) == req' = [req EXCEPT ![t] = [bid |-> b, uname |-> n, num |-> k]]
Forget(t) == req' = [req EXCEPT ![t] = NoRequest]

Init ==
  /\ server = "down"
  /\ pc = [t \in Threads |-> "idle"]
  /\ conns = 0
  /\ BookBase = InitialBooks
  /\ book_config = InitialConfig
  /\ model = EmptyMap
  /\ result = [t \in Threads |-> EmptyMap]
  /\ lines = [t \in Threads |-> {}]
  /\ user = InitialUsers
  /\ umodel = NoUsers
  /\ Comments = {}
  /\ cmodel = {}
  /\ req = [t \in Threads |-> NoRequest]

Gone ==
  /\ BookModelGone
  /\ UserModelGone
  /\ CommModelGone
  /\ req' = [t \in Threads |-> NoRequest]

Start ==
  \E how \in LoadResults, uhow \in LoadResults, chow \in LoadResults \ {"noconfig"} :
    /\ Boot(how, uhow, chow)
    /\ BookModelBooted(how)
    /\ UserModelBooted(uhow)
    /\ CommModelBooted(chow)
    /\ UNCHANGED req

Crash == Kill /\ Gone

(* std::stoi throws on a string that is no number.                         *)
Abort == Terminate /\ Gone

-----------------------------------------------------------------------------
(* POST /update/<b>/<u>: borrow.                                           *)

Receive(t) == server = "up" /\ pc[t] = "idle"

(* Mutant: step 4 is forgotten.                                            *)
LendableTwice(book, borrower) == book.owner # borrower.uname

(* Mutant: step 5 is forgotten.                                            *)
LendableToOwner(book, borrower) == book.islend # "1"

(* 4. is it lent already?  5. is it the user's own?                        *)
Lendable(book, borrower) ==
  book.islend # "1" /\ book.owner # borrower.uname

Allowed(days) == days # NoNumber /\ days <= 90

(* return 1: more than 90 days.                                            *)
LendTooLong(t, days) ==
  /\ Receive(t)
  /\ days # NoNumber /\ days > 90
  /\ UNCHANGED vars

(* return 2, return 3.                                                     *)
LendRefused(t, b, u, days) ==
  /\ Receive(t)
  /\ Allowed(days)
  /\ \E book \in GetBook(t, b) : ~ Lendable(book, GetUser(u))
  /\ UNCHANGED vars

LendAborts(t, b, u, days) ==
  /\ Receive(t)
  /\ \/ days = NoNumber
     \/ /\ Allowed(days)
        /\ \E book \in GetBook(t, b) :
             Lendable(book, GetUser(u)) /\ book.num = NoNumber
  /\ Abort

LendAccepted(t, b, u, days) ==
  /\ Receive(t)
  /\ Allowed(days)
  /\ \E book \in GetBook(t, b) :
       /\ Lendable(book, GetUser(u))
       /\ book.num # NoNumber /\ book.num <= MaxWait
       /\ Keep(t, b, GetUser(u).uname, book.num + 1)
  /\ Goto(t, "lend")
  /\ UNCHANGED <<server, conns, bookVars, userVars, commVars>>

(* One row of the table, with another borrower, islend and waitnum.        *)
Lent(row, name, lent, k) ==
  [row EXCEPT !.borrower = name, !.islend = lent, !.num = k]

(* update BookBase set boworrer = ..., islend = ..., waitnum = ...         *)
(* where bid = ...                                                         *)
SetLoan(bid, name, lent, k) ==
  [b \in DOMAIN BookBase |->
     IF b = bid THEN Lent(BookBase[b], name, lent, k) ELSE BookBase[b]]

(* The result of UpDateBook is ignored; Load() follows.                    *)
LendWrites(t) ==
  /\ server = "up"
  /\ pc[t] = "lend"
  /\ Write(SetLoan(req[t].bid, req[t].uname, "1", req[t].num))
  /\ Goto(t, "clear")
  /\ Forget(t)
  /\ UNCHANGED <<server, book_config, model, result, lines, userVars, commVars>>

-----------------------------------------------------------------------------
(* POST /updateback/<b>/<u>: give back, with a comment.  Nothing is        *)
(* checked: neither that the book is lent nor that the user has it.        *)

(* stoi(book.id) and stoi(user.uid).                                       *)
Known(book, reader) == book.id # NoNumber /\ reader.uid # NoNumber

ReturnAborts(t, b, u) ==
  /\ Receive(t)
  /\ \E book \in GetBook(t, b) : ~ Known(book, GetUser(u))
  /\ Abort

(* The look-ups in the maps and the insert of the comment are one step: no *)
(* handler takes a book or a user away.                                    *)
ReturnComments(t, b, u) ==
  /\ Receive(t)
  /\ \E book \in GetBook(t, b) :
       /\ Known(book, GetUser(u))
       /\ book.num # NoNumber => book.num > - MaxWait
       /\ InsertComments([bid |-> book.id, uid |-> GetUser(u).uid])
       /\ Keep(t, b, "", book.num)
  /\ Goto(t, "comments")
  /\ UNCHANGED <<server, BookBase, book_config, model, result, lines, userVars, cmodel>>

ReturnLoadsComments(t) ==
  /\ server = "up"
  /\ pc[t] = "comments"
  /\ LoadComments
  /\ Goto(t, "return")
  /\ UNCHANGED <<server, bookVars, userVars, Comments, req>>

(* stoi(book.num) comes after the comment is stored.                       *)
ReturnAbortsLate(t) ==
  /\ pc[t] = "return"
  /\ req[t].num = NoNumber
  /\ Abort

(* Mutant: only islend and waitnum are set, the borrower stays.            *)
ReturnWritesKeepsBorrower(t) ==
  /\ server = "up"
  /\ pc[t] = "return"
  /\ req[t].num # NoNumber
  /\ Write(SetLoan(req[t].bid, Entry(BookBase, req[t].bid).borrower, "0", req[t].num - 1))
  /\ Goto(t, "clear")
  /\ Forget(t)
  /\ UNCHANGED <<server, book_config, model, result, lines, userVars, commVars>>

ReturnWrites(t) ==
  /\ server = "up"
  /\ pc[t] = "return"
  /\ req[t].num # NoNumber
  /\ Write(SetLoan(req[t].bid, "NULL", "0", req[t].num - 1))
  /\ Goto(t, "clear")
  /\ Forget(t)
  /\ UNCHANGED <<server, book_config, model, result, lines, userVars, commVars>>

-----------------------------------------------------------------------------
(* A request arrives at an idle thread, or a handler takes its next step.  *)
Request(t) ==
  \/ \E days \in LendTimes : LendTooLong(t, days)
  \/ \E b \in Asked, u \in Uids :
       \/ \E days \in LendTimes :
            \/ LendRefused(t, b, u, days)
            \/ LendAborts(t, b, u, days)
            \/ LendAccepted(t, b, u, days)
       \/ ReturnAborts(t, b, u)
       \/ ReturnComments(t, b, u)

Reload(t) == Load(t) /\ UNCHANGED <<userVars, commVars, req>>

Handle(t) ==
  \/ LendWrites(t)
  \/ ReturnLoadsComments(t)
  \/ ReturnAbortsLate(t)
  \/ ReturnWrites(t)
  \/ Reload(t)

Next ==
  \/ Start
  \/ Crash
  \/ \E t \in Threads : Request(t) \/ Handle(t)

Spec == Init /\ [][Next]_vars

(* A thread whose handler is under way keeps being scheduled; nothing says *)
(* that a client sends a request, or that anybody starts or kills it.      *)
FairSpec == Spec /\ \A t \in Threads : WF_vars(Handle(t))

-----------------------------------------------------------------------------
(* Properties.                                                             *)

PcLabels == {"idle", "lend", "comments", "return",
             "clear", "connect", "fetch", "config"}

(* Every variable keeps its type; a thread about to write has the locals   *)
(* its statement is built from, and the process never holds more           *)
(* connections than MySQL grants (UpDateBook, InsertComments, Load).       *)
TypeOK ==
  /\ server \in {"up", "down", "aborted"}
  /\ pc \in [Threads -> PcLabels]
  /\ conns \in 0..MaxConn
  /\ BookModelTypeOK
  /\ UserModelTypeOK
  /\ Comments \subseteq [bid : Bids, uid : Uids]
  /\ cmodel \subseteq Comments
  /\ req \in [Threads -> Requests]
  /\ \A t \in Threads : pc[t] = "lend" => req[t].num \in Int

Quiescent == server = "up" /\ \A t \in Threads : pc[t] = "idle"

(* Whatever fails while BookModel::Load() runs, and whenever the process   *)
(* died before: between two requests the map is the whole table, or it is  *)
(* empty.  It never keeps some of the books, and never an old row.         *)
MapAllOrNothing ==
  Quiescent => model \in {EmptyMap, Loaded(BookBase, book_config), BookBase}

(* waitnum counts the loan of the book and nothing else: the handlers add  *)
(* one from a cached row and take one off without looking, and still it is *)
(* at most 1, and at most 0 while the book is in.                          *)
WaitnumBound ==
  \A b \in DOMAIN BookBase :
    BookBase[b].num <= IF BookBase[b].islend = "1" THEN 1 ELSE 0

(* Between two requests or in the middle of a Load(), however many run:    *)
(* an entry of the map is a book of the table under its own id, or blank.  *)
(* Only its loan may be an old one.                                        *)
MapNamesBooks ==
  \A b \in DOMAIN model :
    \/ model[b] = Blank
    \/ /\ b \in DOMAIN BookBase
       /\ model[b].id = b
       /\ model[b].isbn = BookBase[b].isbn
       /\ model[b].owner = BookBase[b].owner

(* A handler that has begun ends, or the process does.                     *)
Answered == \A t \in Threads : pc[t] # "idle" ~> pc[t] = "idle"

(* Who has which book, by the table: islend tells whether the name counts. *)
Holder ==
  [b \in DOMAIN BookBase |->
     IF BookBase[b].islend = "1" THEN BookBase[b].borrower ELSE NoNumber]

(* The desk the two handlers stand for.                                    *)
Desk == INSTANCE LendingDesk WITH
          Books   <- DOMAIN InitialBooks,
          owner   <- [b \in DOMAIN InitialBooks |-> InitialBooks[b].owner],
          Readers <- Names \cup {"", "NULL"},
          Nobody  <- NoNumber,
          holder  <- Holder

(* A server that handles one request at a time is such a desk, whatever    *)
(* fails and whenever it dies: a book that is out is lent to nobody else,  *)
(* and never to its owner.                                                 *)
ImplementsDesk == Desk!Spec

-----------------------------------------------------------------------------
(* What the comments of the code say, and the code does not do.            *)

(* "4.验证是否可借" (check that it can be borrowed): a book that is out is *)
(* not lent to a second user.                                              *)
LentOnce ==
  [][\A b \in DOMAIN BookBase :
       BookBase[b].islend = "1" /\ BookBase'[b].islend = "1"
         => BookBase'[b].borrower = BookBase[b].borrower]_vars

(* "将书库表中的信息加载到内存" (loads the table into memory): between two *)
(* requests an entry of the map is the row of the table.                   *)
MapFresh == Quiescent =>
  \A b \in DOMAIN model \cap DOMAIN BookBase : model[b] = BookBase[b]
=============================================================================
