---------------------------- MODULE UserLoading ----------------------------
(***************************************************************************)
(* UserModel::Load() as a handler calls it, step by step: connect and      *)
(* query, fetch row by row, close, read the config file line by line.  It  *)
(* begins with model.empty(), which asks whether the map is empty and      *)
(* changes nothing: the map only grows, and keeps what it has when the     *)
(* Load() fails.                                                           *)
(***************************************************************************)
EXTENDS UserModel

VARIABLES
  user_config,  \* ids with a line in ./user_data/user_config.cfg
  uresult,      \* uresult[t]: rows the Load() of thread t has still to fetch
  ulines        \* ulines[t]: config lines it has still to read

userLoadVars == <<user_config, uresult, ulines>>

(* model[u] = entry, or one more row of the table                          *)
PutUser(map, u, entry) ==
  [v \in DOMAIN map \cup {u} |-> IF v = u THEN entry ELSE map[v]]

UserEntry(map, u) == IF u \in DOMAIN map THEN map[u] ELSE BlankUser

-----------------------------------------------------------------------------
(* Reads.  As for the books, what a look-up returns while another thread   *)
(* inserts a node is a choice over what the build can produce.             *)

UsersRestructured(t) ==
  \E s \in Threads \ {t} :
    \/ pc[s] = "ufetch" /\ ~ (DOMAIN uresult[s] \subseteq DOMAIN umodel)
    \/ pc[s] = "uconfig" /\ ~ (ulines[s] \subseteq DOMAIN umodel)

(* Two insertions at a time may cut any node off.                          *)
InsertedUser(t, map) ==
  {map} \cup {[u \in D |-> map[u]] :
                D \in {D \in SUBSET DOMAIN map : UsersRestructured(t)}}

(* A User copied while another is assigned to it, string by string.        *)
TornUser(old, new) ==
  [uid : {old.uid, new.uid}, uname : {old.uname, new.uname},
   passwd : {old.passwd, new.passwd}]

(* The threads that may be assigning to the entry of u: model[u] = row     *)
(* first makes a node with a blank User, if there is none.                 *)
Assigning(t, u) ==
  {s \in Threads \ {t} : pc[s] = "ufetch" /\ u \in DOMAIN uresult[s]}

(* What a thread may read of the entry of u, or of the node made for it.   *)
UserReads(t, u) ==
  {e \in {UserEntry(umodel, u)} : u \in DOMAIN umodel}
    \cup UNION {TornUser(UserEntry(umodel, u), uresult[s][u]) : s \in Assigning(t, u)}

(* The number of users GetAllUsers returns.                                *)
AllUsers(t) ==
  {Cardinality(DOMAIN umodel)}
    \cup {n \in 0..Cardinality(DOMAIN umodel) : UsersRestructured(t)}

(* Whether GetUser finds u.                                                *)
UserFound(t, u) ==
  {u \in DOMAIN umodel} \cup {found \in {FALSE} : UsersRestructured(t)}

(* Mutant: the password is not compared.                                   *)
PasswdIgnored(t, uname, passwd) ==
  {e \in UNION {UserReads(t, u) : u \in Uids} : e.uname = uname}

(* GetUserVerify: the users it may return for a name and a password, which *)
(* /login takes as they come, empty ones too.  In the order of their ids,  *)
(* the first one of that name decides.  A race may hide any entry before   *)
(* it, and is what shows a new node.                                       *)
GetUserVerify(t, uname, passwd) ==
  {e \in UNION {UserReads(t, u) : u \in Uids} :
     /\ e.uname = uname /\ e.passwd = passwd
     /\ \/ UsersRestructured(t)
        \/ \E u \in DOMAIN umodel :
             /\ e \in UserReads(t, u)
             /\ \A v \in DOMAIN umodel :
                  v < u => \E f \in UserReads(t, v) : f.uname # uname}

-----------------------------------------------------------------------------
(* Load().                                                                 *)

LoadUsersConnectFails(t) ==
  /\ server = "up"
  /\ pc[t] = "uconnect"
  /\ ConnectFails
  /\ Goto(t, "idle")
  /\ UNCHANGED <<server, conns, userVars, userLoadVars>>

LoadUsersSelectFails(t) ==
  /\ server = "up"
  /\ pc[t] = "uconnect"
  /\ CanConnect /\ Faults
  /\ Leak
  /\ Goto(t, "idle")
  /\ UNCHANGED <<server, userVars, userLoadVars>>

LoadUsersSelect(t) ==
  /\ server = "up"
  /\ pc[t] = "uconnect"
  /\ CanConnect
  /\ conns' = conns + 1
  /\ uresult' = [uresult EXCEPT ![t] = user]
  /\ Goto(t, "ufetch")
  /\ UNCHANGED <<server, userVars, user_config, ulines>>

LoadUsersFetch(t, u) ==
  /\ server = "up"
  /\ pc[t] = "ufetch"
  /\ u \in DOMAIN uresult[t]
  /\ umodel' \in InsertedUser(t, PutUser(umodel, u, uresult[t][u]))
  /\ uresult' = [uresult EXCEPT ![t] =
                   [v \in DOMAIN uresult[t] \ {u} |-> uresult[t][v]]]
  /\ UNCHANGED <<processVars, user, user_config, ulines>>

LoadUsersClose(t) ==
  /\ server = "up"
  /\ pc[t] = "ufetch"
  /\ DOMAIN uresult[t] = {}
  /\ conns' = conns - 1
  /\ \/ ulines' = [ulines EXCEPT ![t] = user_config] /\ Goto(t, "uconfig")
     \/ Faults /\ UNCHANGED ulines /\ Goto(t, "idle")
  /\ UNCHANGED <<server, userVars, user_config, uresult>>

(* Mutant: model[uid] = u for model[uid].dir = u.dir, with what is left in *)
(* u of the row read last.                                                 *)
LoadUsersConfigLineAssigns(t, u) ==
  /\ server = "up"
  /\ pc[t] = "uconfig"
  /\ u \in ulines[t]
  /\ \E v \in DOMAIN umodel : umodel' = PutUser(umodel, u, [umodel[v] EXCEPT !.uid = u])
  /\ ulines' = [ulines EXCEPT ![t] = @ \ {u}]
  /\ UNCHANGED <<processVars, user, user_config, uresult>>

(* model[uid].dir = ... keeps the entry, or creates a blank one.           *)
LoadUsersConfigLine(t, u) ==
  /\ server = "up"
  /\ pc[t] = "uconfig"
  /\ u \in ulines[t]
  /\ umodel' \in InsertedUser(t, PutUser(umodel, u, UserEntry(umodel, u)))
  /\ ulines' = [ulines EXCEPT ![t] = @ \ {u}]
  /\ UNCHANGED <<processVars, user, user_config, uresult>>

LoadUsersReturn(t) ==
  /\ server = "up"
  /\ pc[t] = "uconfig"
  /\ ulines[t] = {}
  /\ Goto(t, "idle")
  /\ UNCHANGED <<server, conns, userVars, userLoadVars>>

LoadUsers(t) ==
  \/ LoadUsersConnectFails(t)
  \/ LoadUsersSelectFails(t)
  \/ LoadUsersSelect(t)
  \/ \E u \in Uids : LoadUsersFetch(t, u)
  \/ LoadUsersClose(t)
  \/ \E u \in Uids : LoadUsersConfigLine(t, u)
  \/ LoadUsersReturn(t)

-----------------------------------------------------------------------------
UserLoadingGone ==
  /\ UserModelGone
  /\ uresult' = [t \in Threads |-> NoUsers]
  /\ ulines' = [t \in Threads |-> {}]
  /\ UNCHANGED user_config

(* The map main() starts with: here config lines make blank entries too.   *)
UserLoadingBooted(how) ==
  /\ umodel' = CASE how = "loaded"   ->
                      [u \in DOMAIN user \cup user_config |-> UserEntry(user, u)]
                 [] how = "noconfig" -> user
                 [] OTHER            -> NoUsers
  /\ UNCHANGED <<user, userLoadVars>>

UserLoadingTypeOK ==
  /\ UserModelTypeOK
  /\ user_config \subseteq Uids
  /\ DOMAIN uresult = Threads
  /\ \A t \in Threads : IsUserTable(uresult[t])
  /\ ulines \in [Threads -> SUBSET Uids]

(* Between two requests or in the middle of a Load(), however many run: an *)
(* entry of the map is the row of the table under its id, or blank.        *)
MapNamesUsers ==
  \A u \in DOMAIN umodel :
    umodel[u] = BlankUser \/ (u \in DOMAIN user /\ umodel[u] = user[u])
=============================================================================
