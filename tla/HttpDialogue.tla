---------------------------- MODULE HttpDialogue ----------------------------
(***************************************************************************)
(* What a keep-alive connection promises: an answer comes after something  *)
(* was asked that no earlier answer was for, the first one that says close *)
(* is the last, and one of the first Most answers says it.                 *)
(***************************************************************************)
EXTENDS Naturals, Sequences

CONSTANTS Conns, Most

VARIABLES
  asked,      \* asked[c]: lines the client has sent on connection c
  answers     \* answers[c]: per answer, the lines read by then; says it close?

(* Lines read when the answers so far were given.                          *)
Heard(c) == IF answers[c] = <<>> THEN 0 ELSE answers[c][Len(answers[c])].at

Last(c) == answers[c] # <<>> /\ answers[c][Len(answers[c])].close

Init ==
  /\ asked = [c \in Conns |-> 0]
  /\ answers = [c \in Conns |-> <<>>]

Ask(c) ==
  /\ asked' = [asked EXCEPT ![c] = @ + 1]
  /\ UNCHANGED answers

Answer(c) ==
  /\ ~ Last(c)
  /\ \E at \in Heard(c) + 1 .. asked[c], close \in BOOLEAN :
       /\ Len(answers[c]) + 1 = Most => close
       /\ answers' = [answers EXCEPT ![c] = Append(@, [at |-> at, close |-> close])]
  /\ UNCHANGED asked

Next == \E c \in Conns : Ask(c) \/ Answer(c)

Spec == Init /\ [][Next]_<<asked, answers>>
=============================================================================
