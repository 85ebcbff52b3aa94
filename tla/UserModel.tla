----------------------------- MODULE UserModel -----------------------------
(***************************************************************************)
(* UserModel: the std::map of the users and the table "user" it is loaded  *)
(* from, as the handlers that only read them see them.  UserLoading has    *)
(* its Load() step by step.                                                *)
(***************************************************************************)
EXTENDS Process

CONSTANT Passwds    \* passwords

ASSUME UserModelAssumption == "" \notin Passwds

VARIABLES
  user,         \* table user: uid -> row
  umodel        \* std::map<int,User> model of UserModel

userVars == <<user, umodel>>

User == [uid : Uids \cup {NoNumber}, uname : Names \cup {""},
         passwd : Passwds \cup {""}]

BlankUser == [uid |-> NoNumber, uname |-> "", passwd |-> ""]

IsUserMap(map) == DOMAIN map \subseteq Uids /\ map \in [DOMAIN map -> User]
IsUserTable(map) ==
  /\ IsUserMap(map)
  /\ \A u \in DOMAIN map : map[u].uid = u /\ map[u].uname # "" /\ map[u].passwd # ""
NoUsers == [u \in {} |-> BlankUser]

(* What GetUser leaves in its out-parameter: a caller that ignores its     *)
(* result works with a default constructed User when there is none.        *)
GetUser(u) == IF u \in DOMAIN umodel THEN umodel[u] ELSE BlankUser

UserModelGone ==
  /\ umodel' = NoUsers
  /\ UNCHANGED user

UserModelBooted(how) ==
  /\ umodel' = IF how \in {"loaded", "noconfig"} THEN user ELSE NoUsers
  /\ UNCHANGED user

UserModelTypeOK ==
  /\ IsUserTable(user)
  /\ IsUserMap(umodel)
=============================================================================
