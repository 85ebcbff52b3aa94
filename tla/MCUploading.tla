---------------------------- MODULE MCUploading ----------------------------
(* Small instances of Uploading: one book at first, one user.              *)
EXTENDS Uploading, TLC

CONSTANTS ann, pw, isbn1, isbn2, isbn3, t1, t2

OneBook == 1 :> [id |-> 1, isbn |-> isbn1, owner |-> ann,
                 borrower |-> "NULL", islend |-> "0", num |-> 0, uid |-> 1]
OneUser == 1 :> [uid |-> 1, uname |-> ann, passwd |-> pw]
(* The threads only differ by name.                                       *)
ThreadSymmetry == Permutations({t1, t2})
=============================================================================
