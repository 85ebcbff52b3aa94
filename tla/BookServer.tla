----------------------------- MODULE BookServer -----------------------------
(***************************************************************************)
(* The whole program: main() loads the three models and registers every    *)
(* handler on them.  Here Lending, Uploading, Enrolment and Commenting     *)
(* share one process, its maps and its tables.  One request is handled at  *)
(* a time and MySQL and the disk do what they are asked: what is left to   *)
(* go wrong is that connections run out, and that the process is killed.   *)
(***************************************************************************)
EXTENDS Pages, UserLoading

CONSTANTS
  LendTimes, MaxWait,               \* of Lending
  MaxBooks,                         \* of Uploading
  MaxUsers, Newcomers,              \* of Enrolment
  MaxComments,                      \* bound: comments the table may have
  InitialBooks, InitialConfig, InitialUsers, InitialUserConfig

VARIABLES
  req,                    \* of Lending
  form, desc_txt,         \* of Uploading
  enrol, user_desc_txt    \* of Enrolment

ASSUME BookServerAssumption ==
  /\ Cardinality(Threads) = 1 /\ ~ Faults
  /\ MaxComments \in Nat

(* What requests bring, and the ids that there is room for.                *)
ASSUME RequestsAssumption ==
  /\ LendTimes \subseteq Int \cup {NoNumber}
  /\ MaxBooks \in Nat /\ 1..MaxBooks \subseteq Bids
  /\ MaxUsers \in Nat /\ 1..MaxUsers \subseteq Uids
  /\ Newcomers \subseteq [uname : Names, passwd : Passwds]

(* The tables and the config files hold what the program itself has stored.*)
ASSUME StoredTablesAssumption ==
  /\ IsTable(InitialBooks) /\ InitialConfig \subseteq DOMAIN InitialBooks
  /\ IsUserTable(InitialUsers) /\ InitialUserConfig \subseteq DOMAIN InitialUsers
  /\ IsFiniteSet(DOMAIN InitialBooks) /\ IsFiniteSet(DOMAIN InitialUsers)
  /\ \A b, c \in DOMAIN InitialBooks :
       InitialBooks[b].isbn = InitialBooks[c].isbn => b = c
  /\ \A b \in DOMAIN InitialBooks :
       LET row == InitialBooks[b]
       IN  /\ row.uid \in DOMAIN InitialUsers
           /\ row.owner = InitialUsers[row.uid].uname
           /\ IF row.islend = "1"
                THEN \/ row.borrower = ""
                     \/ \E u \in DOMAIN InitialUsers : InitialUsers[u].uname = row.borrower
                ELSE row.borrower = "NULL"

L == INSTANCE Lending WITH Asked <- Bids
Up == INSTANCE Uploading
E == INSTANCE Enrolment
Co == INSTANCE Commenting

uploadVars == <<form, desc_txt>>
enrolVars == <<enrol, user_desc_txt>>
tables == <<BookBase, user, Comments>>

vars == <<processVars, bookVars, userVars, userLoadVars, commVars, req,
          uploadVars, enrolVars>>

Init ==
  /\ L!Init
  /\ Up!Init
  /\ E!Init

Start ==
  /\ Boot("loaded", "loaded", "loaded")
  /\ BookModelBooted("loaded")
  /\ UserLoadingBooted("loaded")
  /\ CommModelBooted("loaded")
  /\ UNCHANGED <<req, uploadVars, enrolVars>>

(* The locals of the request under way are gone with it.                   *)
Crash ==
  /\ Kill
  /\ BookModelGone
  /\ UserLoadingGone
  /\ CommModelGone
  /\ req' = [t \in Threads |-> L!NoRequest]
  /\ form' = [t \in Threads |-> Up!NoForm]
  /\ enrol' = [t \in Threads |-> E!NoEnrol]
  /\ UNCHANGED <<desc_txt, user_desc_txt>>

-----------------------------------------------------------------------------
(* The ids in a path may be anybody's: any digits match the routes.  (With *)
(* one thread the others' locals are at rest when a handler aborts.)       *)
Lend(t) ==
  /\ L!Request(t) \/ L!Handle(t)
  /\ UNCHANGED <<userLoadVars, uploadVars, enrolVars>>

Upload(t) ==
  /\ Up!Request(t) \/ Up!Handle(t)
  /\ UNCHANGED <<userLoadVars, commVars, req, enrolVars>>

Enrol(t) ==
  /\ E!Request(t) \/ E!Handle(t)
  /\ UNCHANGED <<bookVars, commVars, req, uploadVars>>

Comment(t) ==
  /\ \/ Co!CommentEmpty(t)
     \/ \E b \in Bids, u \in Uids :
          Co!CommentAborts(t, b, u) \/ Co!CommentStored(t, b, u)
     \/ Co!CommentsLoaded(t)
  /\ UNCHANGED <<userLoadVars, req, uploadVars, enrolVars>>

Next ==
  \/ Start
  \/ Crash
  \/ \E t \in Threads :
       /\ Lend(t) \/ Upload(t) \/ Enrol(t) \/ Comment(t)
       /\ Cardinality(Comments') <= MaxComments

Spec == Init /\ [][Next]_vars

-----------------------------------------------------------------------------
(* Properties.                                                             *)

Quiescent == server = "up" /\ \A t \in Threads : pc[t] = "idle"

(* Between two requests every map is its table: each handler reloads what  *)
(* it has written, and nothing else, until the connections that InsertBook,*)
(* UpDateBook and InsertComments never close have used MySQL up.           *)
ServedUntilFull ==
  Quiescent =>
    conns = MaxConn \/ (model = BookBase /\ umodel = user /\ cmodel = Comments)

(* The handlers that call std::stoi on what GetBook and GetUser left:      *)
(* here of a request that names a stored book and a stored user, and, if   *)
(* it borrows, a number of days.                                           *)
StoredRequestAborts(t) ==
  \E b \in DOMAIN BookBase, u \in DOMAIN user :
    \/ \E days \in LendTimes \ {NoNumber} : L!LendAborts(t, b, u, days)
    \/ L!ReturnAborts(t, b, u)
    \/ Co!CommentAborts(t, b, u)

(* Only then does such a request end the process, and it does so before   *)
(* it has written anything: /updateback has stored its comment when it     *)
(* comes to std::stoi(book.num), and never throws there.  (A request for   *)
(* what was never stored ends the process at once.)                        *)
AbortsOnlyWhenFull ==
  [][\A t \in Threads : /\ StoredRequestAborts(t) => conns = MaxConn
                        /\ server' = "aborted" => pc[t] = "idle"]_vars

(* "查找书籍是否已经存在" (look up whether the book exists already): no    *)
(* two rows have one isbn, though the map /uploadbook looks it up in may   *)
(* be empty after any of the other handlers has used up the connections.   *)
IsbnUnique ==
  \A b, c \in DOMAIN BookBase : BookBase[b].isbn = BookBase[c].isbn => b = c

(* What no foreign key enforces: a book has the id and the name of a user, *)
(* a loan the name of one, a comment the ids of a book and of a user, also *)
(* when the maps the handlers took them from were older than the tables.   *)
(* One loan is nobody's: /update ignores that GetUser finds no user, and   *)
(* lends to the empty name.                                                *)
TablesAgree ==
  /\ \A b \in DOMAIN BookBase :
       LET row == BookBase[b]
       IN  /\ row.uid \in DOMAIN user
           /\ row.owner = user[row.uid].uname
           /\ row.islend = "1" =>
                row.borrower = "" \/ \E u \in DOMAIN user : user[u].uname = row.borrower
  /\ \A c \in Comments : c.bid \in DOMAIN BookBase /\ c.uid \in DOMAIN user

(* A book that is out is on the personal page of its borrower and among    *)
(* the lent ones on its owner's; one that is in is on neither page of      *)
(* anybody.  A user may call himself NULL, though, which /updateback       *)
(* writes for nobody: the first half is about the others.                  *)
LoansShown ==
  \A b \in DOMAIN BookBase, u \in DOMAIN umodel :
    LET row == BookBase[b]
        out == row.islend = "1"
    IN  /\ umodel[u].uname # "NULL" =>
             (b \in Personal(u).my_borrow <=> out /\ row.borrower = umodel[u].uname)
        /\ b \in Personal(u).my_lend <=> out /\ row.uid = u

(* A book is found under its owner's id, under his name and by its isbn,   *)
(* and its page has its comments.                                          *)
OffersShown ==
  \A b \in DOMAIN BookBase :
    LET row == BookBase[b]
    IN  /\ b \in Personal(row.uid).my_books
        /\ b \in GetMyBooksByUname(row.owner)
        /\ GetUserSearchResult("isbn", row.isbn) = {b}
        /\ b \in GetUserSearchResult("owner", user[row.uid].uname)
        /\ BookPage(b).book = row
        /\ BookPage(b).book_comm = {c \in Comments : c.bid = b}

(* Between two requests the pages of borrower and owner agree with the     *)
(* tables and each other as long as books are served at all, and every     *)
(* other page until the last connection is gone.                           *)
PagesAgree ==
  Quiescent => /\ model # EmptyMap => LoansShown
               /\ conns < MaxConn => OffersShown

(* "4.验证是否可借" (check that it can be borrowed): while requests come   *)
(* one at a time, a book that is out is lent to nobody else, whatever is   *)
(* uploaded, enrolled and commented on in between.                         *)
LentOnce == L!LentOnce
=============================================================================
