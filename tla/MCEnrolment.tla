---------------------------- MODULE MCEnrolment ----------------------------
(* Small instances of Enrolment: one user at first.                        *)
EXTENDS Enrolment, TLC

CONSTANTS ann, bob, pw1, pw2, t1, t2

OneUser == 1 :> [uid |-> 1, uname |-> ann, passwd |-> pw1]
(* A second ann with a password of her own, and bob with ann's.            *)
AnnAndBob == {[uname |-> ann, passwd |-> pw2], [uname |-> bob, passwd |-> pw1]}
(* The threads only differ by name.                                        *)
ThreadSymmetry == Permutations({t1, t2})
=============================================================================
