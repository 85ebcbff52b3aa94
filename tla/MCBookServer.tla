---------------------------- MODULE MCBookServer ----------------------------
(* A small instance of BookServer: one book and two users at first.        *)
EXTENDS BookServer, TLC

CONSTANTS ann, bob, cid, pw, isbn1, isbn2

OneBook == 1 :> [id |-> 1, isbn |-> isbn1, owner |-> ann,
                 borrower |-> "NULL", islend |-> "0", num |-> 0, uid |-> 1]
TwoUsers == (1 :> [uid |-> 1, uname |-> ann, passwd |-> pw])
              @@ (2 :> [uid |-> 2, uname |-> bob, passwd |-> pw])

(* One of those who enrol calls himself what /updateback writes for nobody.*)
CidOrNull == {[uname |-> name, passwd |-> pw] : name \in {cid, "NULL"}}
=============================================================================
