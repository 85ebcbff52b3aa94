----------------------------- MODULE Enrolment -----------------------------
(***************************************************************************)
(* New users: the handler of POST /enroll.  The new user's id is the size  *)
(* of the user map plus one; the row is inserted, the files of ./user_data *)
(* are written under that id, and the map is reloaded, if the insert       *)
(* succeeded.  POST /login only reads the map: GetUserVerify.              *)
(***************************************************************************)
EXTENDS UserLoading

CONSTANTS
  MaxUsers,          \* bound: no id above it is given out
  Newcomers,         \* the names and passwords that requests bring
  InitialUsers,      \* table user when the server is first started
  InitialUserConfig  \* ids in user_config.cfg at that time

ASSUME EnrolmentAssumption ==
  /\ MaxUsers \in Nat /\ 1..MaxUsers \subseteq Uids
  /\ Newcomers \subseteq [uname : Names, passwd : Passwds]
  /\ IsUserTable(InitialUsers)
  /\ InitialUserConfig \subseteq Uids

(* user_config.cfg and the table hold what the program itself has stored.  *)
ASSUME StoredUsersAssumption ==
  \E n \in 0..MaxUsers : DOMAIN InitialUsers \cup InitialUserConfig = 1..n

VARIABLES
  enrol,          \* enrol[t]: the new user thread t is storing
  user_desc_txt   \* user_desc_txt[u]: whom the description in user_data/u is of

vars == <<processVars, userVars, userLoadVars, enrol, user_desc_txt>>

(* Forms with a short phone, address or password are answered with         *)
(* return 5 and change nothing: these are the others.                      *)
Enrols == [uid : 1..MaxUsers, uname : Names, passwd : Passwds]

NoEnrol == [uid |-> NoNumber, uname |-> "", passwd |-> ""]

ForgetEnrol(t) == enrol' = [enrol EXCEPT ![t] = NoEnrol]

InitUsers ==
  /\ user = InitialUsers
  /\ umodel = NoUsers
  /\ user_config = InitialUserConfig
  /\ uresult = [t \in Threads |-> NoUsers]
  /\ ulines = [t \in Threads |-> {}]
  /\ enrol = [t \in Threads |-> NoEnrol]
  /\ user_desc_txt = [u \in Uids |-> {UserEntry(InitialUsers, u).uname} \ {""}]

Init ==
  /\ server = "down"
  /\ pc = [t \in Threads |-> "idle"]
  /\ conns = 0
  /\ InitUsers

Gone ==
  /\ UserLoadingGone
  /\ enrol' = [t \in Threads |-> NoEnrol]
  /\ UNCHANGED user_desc_txt

Start ==
  \E how \in LoadResults, uhow \in LoadResults, chow \in LoadResults \ {"noconfig"} :
    /\ Boot(how, uhow, chow)
    /\ UserLoadingBooted(uhow)
    /\ UNCHANGED <<enrol, user_desc_txt>>

Crash == Kill /\ Gone

-----------------------------------------------------------------------------
(* Mutant: the id after the next one.                                      *)
EnrolReceivedSkips(t, who) ==
  /\ server = "up"
  /\ pc[t] = "idle"
  /\ \E n \in AllUsers(t) :
       /\ n + 2 <= MaxUsers
       /\ enrol' = [enrol EXCEPT ![t] =
                     [uid |-> n + 2, uname |-> who.uname, passwd |-> who.passwd]]
  /\ Goto(t, "ucheck")
  /\ UNCHANGED <<server, conns, userVars, userLoadVars, user_desc_txt>>

(* int uid = all_users.size() + 1.                                         *)
EnrolReceived(t, who) ==
  /\ server = "up"
  /\ pc[t] = "idle"
  /\ \E n \in AllUsers(t) :
       /\ n + 1 <= MaxUsers
       /\ enrol' = [enrol EXCEPT ![t] =
                     [uid |-> n + 1, uname |-> who.uname, passwd |-> who.passwd]]
  /\ Goto(t, "ucheck")
  /\ UNCHANGED <<server, conns, userVars, userLoadVars, user_desc_txt>>

(* return 1: the map has a user under that id already.                     *)
EnrolRefused(t) ==
  /\ server = "up"
  /\ pc[t] = "ucheck"
  /\ TRUE \in UserFound(t, enrol[t].uid)
  /\ Goto(t, "idle")
  /\ ForgetEnrol(t)
  /\ UNCHANGED <<server, conns, userVars, userLoadVars, user_desc_txt>>

EnrolChecked(t) ==
  /\ server = "up"
  /\ pc[t] = "ucheck"
  /\ FALSE \in UserFound(t, enrol[t].uid)
  /\ Goto(t, "uinsert")
  /\ UNCHANGED <<server, conns, userVars, userLoadVars, enrol, user_desc_txt>>

EnrolRow(f) == [uid |-> f.uid, uname |-> f.uname, passwd |-> f.passwd]

(* Mutant: the result of InsertBook is ignored, as that of UpDateBook is.  *)
EnrolNotInsertedGoesOn(t) ==
  /\ server = "up"
  /\ pc[t] = "uinsert"
  /\ ConnectFails \/ enrol[t].uid \in DOMAIN user
  /\ Goto(t, "udescribe")
  /\ UNCHANGED <<server, conns, userVars, userLoadVars, enrol, user_desc_txt>>

(* return 2: there is no connection, the key is taken or the query fails,  *)
(* be it after the row was stored.  Nothing is reloaded then.              *)
EnrolNotInserted(t) ==
  /\ server = "up"
  /\ pc[t] = "uinsert"
  /\ \/ ConnectFails /\ UNCHANGED <<conns, user>>
     \/ /\ CanConnect
        /\ enrol[t].uid \in DOMAIN user \/ Faults
        /\ Leak
        /\ UNCHANGED user
     \/ /\ CanConnect
        /\ enrol[t].uid \notin DOMAIN user /\ Faults
        /\ Leak
        /\ user' = PutUser(user, enrol[t].uid, EnrolRow(enrol[t]))
  /\ Goto(t, "idle")
  /\ ForgetEnrol(t)
  /\ UNCHANGED <<server, umodel, userLoadVars, user_desc_txt>>

EnrolInserted(t) ==
  /\ server = "up"
  /\ pc[t] = "uinsert"
  /\ CanConnect
  /\ enrol[t].uid \notin DOMAIN user
  /\ Leak
  /\ user' = PutUser(user, enrol[t].uid, EnrolRow(enrol[t]))
  /\ Goto(t, "udescribe")
  /\ UNCHANGED <<server, umodel, userLoadVars, enrol, user_desc_txt>>

(* CreateDir returns std::string(nullptr) when mkdir fails: it throws.     *)
EnrolAborts(t) ==
  /\ pc[t] = "udescribe"
  /\ Faults
  /\ Terminate
  /\ Gone

(* FileUtil::Write appends; that it cannot open the file is ignored.       *)
EnrolDescribes(t) ==
  /\ server = "up"
  /\ pc[t] = "udescribe"
  /\ \/ user_desc_txt' = [user_desc_txt EXCEPT ![enrol[t].uid] = @ \cup {enrol[t].uname}]
     \/ Faults /\ UNCHANGED user_desc_txt
  /\ Goto(t, "uregister")
  /\ UNCHANGED <<server, conns, userVars, userLoadVars, enrol>>

EnrolRegisters(t) ==
  /\ server = "up"
  /\ pc[t] = "uregister"
  /\ \/ user_config' = user_config \cup {enrol[t].uid}
     \/ Faults /\ UNCHANGED user_config
  /\ Goto(t, "uconnect")
  /\ ForgetEnrol(t)
  /\ UNCHANGED <<server, conns, userVars, uresult, ulines, user_desc_txt>>

-----------------------------------------------------------------------------
Request(t) == \E who \in Newcomers : EnrolReceived(t, who)

Reload(t) == LoadUsers(t) /\ UNCHANGED <<enrol, user_desc_txt>>

Handle(t) ==
  \/ EnrolRefused(t)
  \/ EnrolChecked(t)
  \/ EnrolNotInserted(t)
  \/ EnrolInserted(t)
  \/ EnrolAborts(t)
  \/ EnrolDescribes(t)
  \/ EnrolRegisters(t)
  \/ Reload(t)

Next ==
  \/ Start
  \/ Crash
  \/ \E t \in Threads : Request(t) \/ Handle(t)

Spec == Init /\ [][Next]_vars

-----------------------------------------------------------------------------
(* Properties.                                                             *)

PcLabels == {"idle", "ucheck", "uinsert", "udescribe", "uregister",
             "uconnect", "ufetch", "uconfig"}

Enrolling == {"ucheck", "uinsert", "udescribe", "uregister"}

(* Every variable keeps its type, and a thread that stores a user has its  *)
(* form (the handler of /enroll).                                          *)
TypeOK ==
  /\ server \in {"up", "down", "aborted"}
  /\ pc \in [Threads -> PcLabels]
  /\ conns \in 0..MaxConn
  /\ UserLoadingTypeOK
  /\ enrol \in [Threads -> Enrols \cup {NoEnrol}]
  /\ \A t \in Threads : pc[t] \in Enrolling => enrol[t] \in Enrols
  /\ user_desc_txt \in [Uids -> SUBSET Names]

UserIds == DOMAIN user \cup user_config

(* User ids are given out without a gap, though they are computed from a   *)
(* map that other threads are filling, that a failed Load() left behind    *)
(* the table, and that has entries for config lines.                       *)
UidsContiguous == UserIds = 1..Cardinality(UserIds)

(* The description under an id is that of the user in the row, and a       *)
(* config line is only written after the row: of two enrolments that       *)
(* computed the same id only one writes its files.                         *)
DescribesUser ==
  /\ \A u \in Uids : user_desc_txt[u] \subseteq {UserEntry(user, u).uname}
  /\ user_config \subseteq DOMAIN user

StoredAs(n, p) == \E u \in DOMAIN user : user[u].uname = n /\ user[u].passwd = p

(* Somebody is assigning a row to a blank or new entry, and one of the two *)
(* strings asked for is that of the row, or both are still empty.          *)
HalfStoredAs(t, n, p) ==
  \E u \in Uids :
    /\ UserEntry(umodel, u) = BlankUser
    /\ \E s \in Assigning(t, u) :
         n \in {"", uresult[s][u].uname} /\ p \in {"", uresult[s][u].passwd}

(* However the Load()s of several enrolments overlap, a name and a         *)
(* password log in nobody but a user of the table who has both             *)
(* (GetUserVerify), if neither is empty.  /login takes empty ones too, and *)
(* an entry that is blank, or whose name is assigned and whose password is *)
(* not, matches them: nothing else does.                                   *)
LoginVerified ==
  \A t \in Threads, n \in Names \cup {""}, p \in Passwds \cup {""} :
    GetUserVerify(t, n, p) # {}
      => \/ StoredAs(n, p)
         \/ n = "" /\ p = "" /\ \E u \in DOMAIN umodel : umodel[u] = BlankUser
         \/ "" \in {n, p} /\ HalfStoredAs(t, n, p)

Quiescent == server = "up" /\ \A t \in Threads : pc[t] = "idle"

-----------------------------------------------------------------------------
(* What a comment of the code says, and the code does not do.              *)

(* "按照uid和 名字 和 密码查找用户" (find the user by uid, name and       *)
(* password): every user of the map logs in with his name and password.    *)
UsersLogIn ==
  Quiescent =>
    \A u \in DOMAIN umodel :
      umodel[u] # BlankUser =>
        \A t \in Threads :
          GetUserVerify(t, umodel[u].uname, umodel[u].passwd) # {}
=============================================================================
