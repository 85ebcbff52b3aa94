----------------------------- MODULE Commenting -----------------------------
(***************************************************************************)
(* Comments and messages: the handlers of POST /comment/<bid>/<uid>,       *)
(* POST /comment/<bid>/<uid>/<uname> and POST /communicate/<bid>/<uid>.    *)
(* They store a row that names the book and the user, and load the         *)
(* comments again.  What differs between the three is whom the row is      *)
(* addressed to, which, like its text, nothing depends on.                 *)
(***************************************************************************)
EXTENDS BookModel, UserModel, CommModel

(* All threads' data is gone, that of the tables is not.                   *)
CommentingGone ==
  /\ BookModelGone
  /\ UserModelGone
  /\ CommModelGone

(* return 1: the form has no text.                                         *)
CommentEmpty(t) ==
  /\ server = "up"
  /\ pc[t] = "idle"
  /\ UNCHANGED <<processVars, bookVars, userVars, commVars>>

(* std::stoi(book.id) and std::stoi(user.uid): GetBook and GetUser leave   *)
(* both empty when the maps lack the book or the user.                     *)
Named(book, writer) == book.id # NoNumber /\ writer.uid # NoNumber

CommentAborts(t, b, u) ==
  /\ pc[t] = "idle"
  /\ \E book \in GetBook(t, b) : ~ Named(book, GetUser(u))
  /\ Terminate
  /\ CommentingGone

(* Mutant: the two ids of the path are swapped.                            *)
CommentStoredSwapped(t, b, u) ==
  /\ server = "up"
  /\ pc[t] = "idle"
  /\ InsertComments([bid |-> u, uid |-> b])
  /\ Goto(t, "loadcomments")
  /\ UNCHANGED <<server, bookVars, userVars, cmodel>>

(* The look-ups in the maps and the insert are one step: no handler takes  *)
(* a book or a user away, so what they found is still stored.              *)
CommentStored(t, b, u) ==
  /\ server = "up"
  /\ pc[t] = "idle"
  /\ \E book \in GetBook(t, b) :
       /\ Named(book, GetUser(u))
       /\ InsertComments([bid |-> book.id, uid |-> GetUser(u).uid])
  /\ Goto(t, "loadcomments")
  /\ UNCHANGED <<server, bookVars, userVars, cmodel>>

(* The result of InsertComments is ignored; Load() follows.                *)
CommentsLoaded(t) ==
  /\ server = "up"
  /\ pc[t] = "loadcomments"
  /\ LoadComments
  /\ Goto(t, "idle")
  /\ UNCHANGED <<server, bookVars, userVars, Comments>>
=============================================================================
