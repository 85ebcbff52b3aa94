---------------------------- MODULE LendingDesk ----------------------------
(***************************************************************************)
(* What lending promises, with no table, no map, no thread: a book is in,  *)
(* or one reader has it.  It is lent only while it is in and never to its  *)
(* owner, and giving it back makes it available again.                     *)
(***************************************************************************)
CONSTANTS
  Books,     \* the books of the library
  owner,     \* owner[b]: who it belongs to
  Readers,   \* who may have a book
  Nobody     \* the holder of a book that is in

VARIABLE holder    \* holder[b]: who has book b

Init == holder \in [Books -> Readers \cup {Nobody}]

Lend(b, reader) ==
  /\ holder[b] = Nobody
  /\ reader # owner[b]
  /\ holder' = [holder EXCEPT ![b] = reader]

GiveBack(b) == holder' = [holder EXCEPT ![b] = Nobody]

Next == \E b \in Books : (\E reader \in Readers : Lend(b, reader)) \/ GiveBack(b)

Spec == Init /\ [][Next]_holder
=============================================================================
