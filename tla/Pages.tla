------------------------------- MODULE Pages -------------------------------
(***************************************************************************)
(* The pages: what the GET handlers and the search pick from the maps for  *)
(* their templates, as a thread sees it while no other changes the maps.   *)
(* A page is the ids of the books, or the comments, that it lists.         *)
(***************************************************************************)
EXTENDS BookModel, UserModel, CommModel

(* The books a user has offered, by the user's name and by his id.         *)
GetMyBooksByUname(uname) == {b \in DOMAIN model : model[b].owner = uname}
GetMyBooksById(u) == {b \in DOMAIN model : model[b].uid = u}

(* Those of them that are out.                                             *)
GetMyLend(u) == {b \in DOMAIN model : model[b].uid = u /\ model[b].islend = "1"}

(* The books a user has borrowed: the name in the loan decides.            *)
GetMyBorrow(uname) == {b \in DOMAIN model : model[b].borrower = uname}

GetCommsByBid(b) == {c \in cmodel : c.bid = b}

(* POST /search: the column and the words searched for.  A column the      *)
(* server does not know finds nothing.                                     *)
GetUserSearchResult(sfrom, search) ==
  {b \in DOMAIN model : \/ sfrom = "isbn" /\ model[b].isbn = search
                        \/ sfrom = "owner" /\ model[b].owner = search}

(* GET /personal/<u>.  For a user the map lacks the id and the name are    *)
(* empty: GetUser's result is ignored.                                     *)
Personal(u) ==
  [my_books  |-> GetMyBooksById(u),
   my_borrow |-> GetMyBorrow(GetUser(u).uname),
   my_lend   |-> GetMyLend(GetUser(u).uid)]

(* GET /book/<b>/<u>: the book with its comments.                          *)
BookPage(b) ==
  [book |-> Entry(model, b), book_comm |-> GetCommsByBid(Entry(model, b).id)]
=============================================================================
