----------------------------- MODULE MCLending -----------------------------
(* Small instances of Lending: two books of two owners, three users.       *)
EXTENDS Lending, TLC

CONSTANTS ann, pw, bob, cid, isbn1, isbn2

MCBook(b, i, o) == [id |-> b, isbn |-> i, owner |-> o,
                    borrower |-> "NULL", islend |-> "0", num |-> 0, uid |-> b]

TwoBooks == (1 :> MCBook(1, isbn1, ann)) @@ (2 :> MCBook(2, isbn2, bob))
OneBook == 1 :> MCBook(1, isbn1, ann)
ThreeUsers == (1 :> [uid |-> 1, uname |-> ann, passwd |-> pw]) @@ (2 :> [uid |-> 2, uname |-> bob, passwd |-> pw])
                @@ (3 :> [uid |-> 3, uname |-> cid, passwd |-> pw])
TwoUsers == (1 :> [uid |-> 1, uname |-> ann, passwd |-> pw]) @@ (2 :> [uid |-> 2, uname |-> bob, passwd |-> pw])
=============================================================================
