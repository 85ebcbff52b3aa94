----------------------------- MODULE CommModel -----------------------------
(***************************************************************************)
(* CommModel: the comments, and the std::map they are shown from.  cid is  *)
(* assigned by the table, the text does not matter: a comment is the book  *)
(* and the user it names, and equal ones are one.  Load() never clears the *)
(* map.  No handler that changes state reads the map, so the rows are      *)
(* fetched in one step.                                                    *)
(***************************************************************************)
EXTENDS Process

VARIABLES
  Comments,     \* table Comments
  cmodel        \* std::map<int,Comm> model of CommModel

commVars == <<Comments, cmodel>>

(* InsertComments: like every write it leaves its connection open.         *)
InsertComments(c) ==
  \/ /\ ConnectFails
     /\ UNCHANGED <<conns, Comments>>
  \/ /\ CanConnect
     /\ Leak
     /\ \/ Comments' = Comments \cup {c}
        \/ Faults /\ UNCHANGED Comments

(* CommModel::Load(): a failed query leaks the connection.                 *)
LoadComments ==
  \/ /\ ConnectFails
     /\ UNCHANGED <<conns, cmodel>>
  \/ /\ CanConnect /\ Faults
     /\ Leak
     /\ UNCHANGED cmodel
  \/ /\ CanConnect
     /\ cmodel' = cmodel \cup Comments
     /\ UNCHANGED conns

CommModelGone ==
  /\ cmodel' = {}
  /\ UNCHANGED Comments

CommModelBooted(how) ==
  /\ cmodel' = IF how \in {"loaded", "noconfig"} THEN Comments ELSE {}
  /\ UNCHANGED Comments
=============================================================================
