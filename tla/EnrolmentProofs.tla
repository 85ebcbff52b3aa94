-------------------------- MODULE EnrolmentProofs --------------------------
(* Enrolment, proved for any number of threads, users and faults.          *)
EXTENDS Enrolment, ModelProofs

-----------------------------------------------------------------------------
(* The inductive invariant.                                                *)

(* The ids in use are 1..n.                                                *)
UidsInterval == \E n \in 0..MaxUsers : UserIds = 1..n

(* Every id below the one a handler has computed is in use: it has counted *)
(* entries of the map, and each of them is a row or a config line.         *)
EnrolsNext ==
  \A t \in Threads : pc[t] \in Enrolling => 1..(enrol[t].uid - 1) \subseteq UserIds

(* A handler that writes files has stored its row.                         *)
EnrolsStored ==
  \A t \in Threads : pc[t] \in {"udescribe", "uregister"} =>
    /\ enrol[t].uid \in DOMAIN user
    /\ user[enrol[t].uid].uname = enrol[t].uname

(* Nothing is described before it is stored, or under another's id.        *)
DescribesRow ==
  \A u \in Uids : user_desc_txt[u] \subseteq {UserEntry(user, u).uname}

Inv ==
  /\ TypeOK
  /\ ConnsAccounted
  /\ UsersKnown
  /\ UidsInterval
  /\ EnrolsNext
  /\ EnrolsStored
  /\ DescribesRow

-----------------------------------------------------------------------------
(* However a race goes, no more users are counted than there are ids.      *)
LEMMA UsersCountedBelow ==
  ASSUME UserKeysKnown, NEW n \in Nat, UserIds = 1..n,
         NEW t, NEW k \in AllUsers(t)
  PROVE  k \in Nat /\ k <= n
<1>1. IsFiniteSet(1..n) /\ Cardinality(1..n) = n
  <2>1. \A a, b \in Int : /\ IsFiniteSet(a..b)
                          /\ Cardinality(a..b) = IF a > b THEN 0 ELSE b - a + 1
    BY FS_Interval
  <2>2. 1 \in Int /\ n \in Int /\ (IF 1 > n THEN 0 ELSE n - 1 + 1) = n
    OBVIOUS
  <2> QED BY <2>1, <2>2
<1>2. DOMAIN umodel \in SUBSET (1..n)
  BY DEF UserKeysKnown, UserIds
<1>3. Cardinality(DOMAIN umodel) \in Nat /\ Cardinality(DOMAIN umodel) <= n
  BY <1>1, <1>2, FS_Subset, FS_CardinalityType
<1>4. k \in 0..Cardinality(DOMAIN umodel)
  BY <1>3 DEF AllUsers
<1> QED BY <1>3, <1>4

-----------------------------------------------------------------------------
(* The steps.                                                              *)

LEMMA InitInv == Init => Inv
<1> SUFFICES ASSUME Init PROVE Inv
  OBVIOUS
<1>1. IsUserTable(InitialUsers) /\ IsUserMap(InitialUsers)
      /\ InitialUserConfig \in SUBSET Uids
  BY EnrolmentAssumption DEF IsUserTable
<1>2. /\ user = InitialUsers /\ umodel = NoUsers /\ user_config = InitialUserConfig
      /\ uresult = [t \in Threads |-> NoUsers]
      /\ ulines = [t \in Threads |-> {}]
      /\ enrol = [t \in Threads |-> NoEnrol]
      /\ user_desc_txt = [u \in Uids |-> {UserEntry(InitialUsers, u).uname} \ {""}]
      /\ server = "down" /\ pc = [t \in Threads |-> "idle"] /\ conns = 0
  BY DEF Init, InitUsers
<1>3. MaxConn \in Nat
  BY ProcessAssumption
<1>4. conns \in 0..MaxConn /\ ConnsAccounted
  <2>1. Fetching = {}
    BY <1>2 DEF Fetching, Fetches
  <2>2. conns = 0 /\ Cardinality({}) = 0
    BY <1>2, FS_EmptySet
  <2> QED BY ONLY <1>3, <2>1, <2>2 DEF ConnsAccounted
<1>5. UsersKnown
  <2>1. UserLoadingTypeOK
    BY <1>1, <1>2, BlankUserType DEF UserLoadingTypeOK, UserModelTypeOK
  <2>2. UserKeysKnown /\ RowsCurrent /\ MapNamesUsers
    BY <1>2, BlankUserType DEF UserKeysKnown, RowsCurrent, MapNamesUsers
  <2> QED BY <2>1, <2>2 DEF UsersKnown
<1>6. user_desc_txt \in [Uids -> SUBSET Names]
  <2>1. \A u \in Uids : UserEntry(InitialUsers, u) \in User
    BY <1>1, UserEntryType
  <2>2. \A u \in Uids : UserEntry(InitialUsers, u).uname \in Names \cup {""}
    BY <2>1 DEF User
  <2> QED BY <1>2, <2>2
<1>7. TypeOK
  BY <1>2, <1>4, <1>5, <1>6 DEF UsersKnown, TypeOK, PcLabels, Enrolling
<1>8. UidsInterval
  BY <1>2, StoredUsersAssumption DEF UidsInterval, UserIds
<1>9. EnrolsNext /\ EnrolsStored
  BY <1>2 DEF EnrolsNext, EnrolsStored, Enrolling
<1>10. DescribesRow
  BY <1>2 DEF DescribesRow
<1> QED BY <1>4, <1>5, <1>7, <1>8, <1>9, <1>10 DEF Inv

(* The process ends, or starts: the files and the table stay, and no       *)
(* handler runs.                                                           *)
LEMMA NoHandlerInv ==
  ASSUME Inv, NoThreads, conns' \in 0..MaxConn,
         server' \in {"up", "down", "aborted"},
         UserLoadingTypeOK', UserKeysKnown', RowsCurrent', MapNamesUsers',
         enrol' \in [Threads -> Enrols \cup {NoEnrol}],
         UNCHANGED <<user, user_config, user_desc_txt>>
  PROVE  Inv'
<1>1. ConnsAccounted'
  BY NoThreadsCounted
<1>2. TypeOK'
  BY DEF Inv, TypeOK, NoThreads, PcLabels, Enrolling
<1>3. UidsInterval' /\ DescribesRow'
  BY DEF Inv, UidsInterval, UserIds, DescribesRow
<1>4. EnrolsNext' /\ EnrolsStored'
  BY DEF NoThreads, EnrolsNext, EnrolsStored, Enrolling
<1> QED BY <1>1, <1>2, <1>3, <1>4 DEF Inv, UsersKnown

LEMMA GoneInv ==
  ASSUME Inv, NoThreads, Gone, conns' = 0, server' \in {"down", "aborted"}
  PROVE  Inv'
<1>1. /\ UNCHANGED <<user, user_config, user_desc_txt>>
      /\ umodel' = NoUsers
      /\ uresult' = [t \in Threads |-> NoUsers]
      /\ ulines' = [t \in Threads |-> {}]
      /\ enrol' = [t \in Threads |-> NoEnrol]
  BY DEF Gone, UserLoadingGone, UserModelGone
<1>2. UserLoadingTypeOK'
  BY <1>1, BlankUserType
  DEF Inv, UsersKnown, UserLoadingTypeOK, UserModelTypeOK, IsUserTable, IsUserMap
<1>3. UserKeysKnown' /\ RowsCurrent' /\ MapNamesUsers'
  BY <1>1, BlankUserType DEF UserKeysKnown, RowsCurrent, MapNamesUsers
<1>4. conns' \in 0..MaxConn
  <2>1. MaxConn \in Nat
    BY ProcessAssumption
  <2> QED BY <2>1
<1>5. enrol' \in [Threads -> Enrols \cup {NoEnrol}]
  BY <1>1
<1> QED BY <1>1, <1>2, <1>3, <1>4, <1>5, NoHandlerInv

LEMMA StartInv == ASSUME Inv, Start PROVE Inv'
<1>1. PICK how, uhow, chow :
        /\ uhow \in {"loaded", "noconn", "noquery", "noconfig"}
        /\ Boot(how, uhow, chow)
        /\ UserLoadingBooted(uhow)
        /\ UNCHANGED <<enrol, user_desc_txt>>
  BY DEF Start, LoadResults
<1>2. conns' \in 0..MaxConn
  BY <1>1, BootCounted
<1>3. NoThreads /\ server' = "up"
  BY <1>1 DEF Boot
<1>4. UNCHANGED <<user, user_config, uresult, ulines, user_desc_txt, enrol>>
  BY <1>1 DEF UserLoadingBooted, userLoadVars
<1>5. IsUserMap(user) /\ user_config \subseteq Uids /\ DOMAIN user \subseteq Uids
  BY DEF Inv, UsersKnown, UserLoadingTypeOK, UserModelTypeOK, IsUserTable, IsUserMap
<1> DEFINE all == [u \in DOMAIN user \cup user_config |-> UserEntry(user, u)]
<1>6. /\ IsUserMap(all)
      /\ \A u \in DOMAIN all :
           all[u] = BlankUser \/ (u \in DOMAIN user /\ all[u] = user[u])
  <2>1. \A u : UserEntry(user, u) \in User
    BY <1>5, UserEntryType
  <2>2. IsUserMap(all)
    BY <1>5, <2>1 DEF IsUserMap
  <2> QED BY <2>2 DEF UserEntry
<1>7. umodel' = all \/ umodel' = user \/ umodel' = NoUsers
  BY <1>1 DEF UserLoadingBooted
<1>8. DOMAIN all = UserIds
  BY DEF UserIds
<1> HIDE DEF all
<1>9. /\ IsUserMap(umodel')
      /\ DOMAIN umodel' \subseteq UserIds
      /\ \A u \in DOMAIN umodel' :
           umodel'[u] = BlankUser \/ (u \in DOMAIN user /\ umodel'[u] = user[u])
  BY <1>5, <1>6, <1>7, <1>8, BlankUserType DEF UserIds
<1>10. UserLoadingTypeOK'
  <2>1. UserLoadingTypeOK /\ UserModelTypeOK
    BY DEF Inv, UsersKnown, UserLoadingTypeOK
  <2>2. UserModelTypeOK'
    BY <1>4, <1>9, <2>1 DEF UserModelTypeOK
  <2> QED BY <1>4, <2>1, <2>2 DEF UserLoadingTypeOK
<1>11. UserKeysKnown' /\ RowsCurrent' /\ MapNamesUsers'
  BY <1>4, <1>9
  DEF Inv, UsersKnown, UserKeysKnown, RowsCurrent, MapNamesUsers, UserIds
<1>12. enrol' \in [Threads -> Enrols \cup {NoEnrol}]
  BY <1>4 DEF Inv, TypeOK
<1> QED BY <1>2, <1>3, <1>4, <1>10, <1>11, <1>12, NoHandlerInv

(* A step that leaves the table, the files and the map alone, and takes    *)
(* its thread to the next step of its handler.                             *)
LEMMA QuietInv ==
  ASSUME Inv, NEW t \in Threads, NEW label \in PcLabels, Goto(t, label),
         UNCHANGED <<server, userVars, userLoadVars, user_desc_txt>>,
         pc[t] \notin Fetches, label \notin Fetches,
         conns' = conns \/ (CanConnect /\ conns' = conns + 1),
         enrol' \in [Threads -> Enrols \cup {NoEnrol}],
         \A s \in Threads \ {t} : enrol'[s] = enrol[s],
         label \in Enrolling => enrol'[t] \in Enrols,
         label \in Enrolling => 1..(enrol'[t].uid - 1) \subseteq UserIds,
         label \notin {"udescribe", "uregister"}
  PROVE  Inv'
<1>1. pc \in [Threads -> PcLabels]
  BY DEF Inv, TypeOK
<1>2. pc' \in [Threads -> PcLabels] /\ pc'[t] = label
      /\ \A s \in Threads \ {t} : pc'[s] = pc[s]
  BY <1>1 DEF Goto
<1>3. conns' \in 0..MaxConn /\ ConnsAccounted'
  BY <1>1, ConnsCounted DEF Inv, TypeOK
<1>4. UsersKnown'
  BY UsersKnownStays DEF Inv
<1>5. \A s \in Threads : pc'[s] \in Enrolling => enrol'[s] \in Enrols
  BY <1>2 DEF Inv, TypeOK
<1>6. TypeOK'
  BY <1>2, <1>3, <1>4, <1>5 DEF Inv, TypeOK, UsersKnown
<1>7. UidsInterval' /\ DescribesRow' /\ UserIds' = UserIds
  BY DEF Inv, userVars, userLoadVars, UidsInterval, UserIds, DescribesRow
<1>8. EnrolsNext'
  BY <1>2, <1>7 DEF Inv, EnrolsNext
<1>9. EnrolsStored'
  BY <1>2 DEF Inv, EnrolsStored, userVars
<1> QED BY <1>3, <1>4, <1>6, <1>7, <1>8, <1>9 DEF Inv

LEMMA ReceivedInv ==
  ASSUME Inv, NEW t \in Threads, NEW who \in Newcomers, EnrolReceived(t, who)
  PROVE  Inv'
<1>1. PICK k \in AllUsers(t) :
        /\ k + 1 <= MaxUsers
        /\ enrol' = [enrol EXCEPT ![t] =
                      [uid |-> k + 1, uname |-> who.uname, passwd |-> who.passwd]]
  BY DEF EnrolReceived
<1>2. MaxUsers \in Nat /\ Newcomers \subseteq [uname : Names, passwd : Passwds]
  BY EnrolmentAssumption
<1>3. PICK n \in Nat : UserIds = 1..n
  BY <1>2 DEF Inv, UidsInterval
<1>4. k \in Nat /\ k <= n
  BY <1>3, UsersCountedBelow DEF Inv, UsersKnown
<1>5. k + 1 \in 1..MaxUsers
  BY <1>1, <1>2, <1>4
<1>6. [uid |-> k + 1, uname |-> who.uname, passwd |-> who.passwd] \in Enrols
  BY <1>2, <1>5 DEF Enrols
<1>7. enrol \in [Threads -> Enrols \cup {NoEnrol}]
  BY DEF Inv, TypeOK
<1>8. /\ enrol' \in [Threads -> Enrols \cup {NoEnrol}]
      /\ enrol'[t] \in Enrols /\ enrol'[t].uid = k + 1
      /\ \A s \in Threads \ {t} : enrol'[s] = enrol[s]
  BY <1>1, <1>6, <1>7
<1>9. 1..(enrol'[t].uid - 1) \subseteq UserIds
  BY <1>3, <1>4, <1>8
<1>10. /\ Goto(t, "ucheck") /\ pc[t] = "idle"
       /\ UNCHANGED <<server, conns, userVars, userLoadVars, user_desc_txt>>
  BY DEF EnrolReceived
<1>11. "ucheck" \in PcLabels
  BY DEF PcLabels
<1> QED BY <1>8, <1>9, <1>10, <1>11, QuietInv DEF Fetches

(* The handler returns without having stored anything.                     *)
LEMMA DroppedInv ==
  ASSUME Inv, NEW t \in Threads, pc[t] \notin Fetches, Goto(t, "idle"),
         ForgetEnrol(t),
         UNCHANGED <<server, userVars, userLoadVars, user_desc_txt>>,
         conns' = conns \/ (CanConnect /\ conns' = conns + 1)
  PROVE  Inv'
<1>1. enrol \in [Threads -> Enrols \cup {NoEnrol}]
  BY DEF Inv, TypeOK
<1>2. /\ enrol' \in [Threads -> Enrols \cup {NoEnrol}]
      /\ \A s \in Threads \ {t} : enrol'[s] = enrol[s]
  BY <1>1 DEF ForgetEnrol
<1>3. "idle" \in PcLabels /\ "idle" \notin Enrolling
  BY DEF PcLabels, Enrolling
<1> QED BY <1>2, <1>3, QuietInv DEF Fetches

LEMMA CheckedInv ==
  ASSUME Inv, NEW t \in Threads, EnrolChecked(t)
  PROVE  Inv'
<1>1. /\ pc[t] = "ucheck" /\ Goto(t, "uinsert")
      /\ UNCHANGED <<server, conns, userVars, userLoadVars, enrol, user_desc_txt>>
  BY DEF EnrolChecked
<1>2. "ucheck" \in Enrolling /\ "uinsert" \in PcLabels
  BY DEF PcLabels, Enrolling
<1>3. enrol[t] \in Enrols /\ 1..(enrol[t].uid - 1) \subseteq UserIds
  BY <1>1, <1>2 DEF Inv, TypeOK, EnrolsNext
<1> QED BY <1>1, <1>2, <1>3, QuietInv DEF Inv, TypeOK, Fetches

(* The row is stored: under an id that was free, so the next after those   *)
(* in use; no other handler has stored, or is writing files, under it.     *)
LEMMA StoredInv ==
  ASSUME Inv, NEW t \in Threads, pc[t] = "uinsert",
         CanConnect, conns' = conns + 1,
         enrol[t].uid \notin DOMAIN user,
         user' = PutUser(user, enrol[t].uid, EnrolRow(enrol[t])),
         UNCHANGED <<server, umodel, userLoadVars, user_desc_txt>>,
         \/ Goto(t, "idle") /\ ForgetEnrol(t)
         \/ Goto(t, "udescribe") /\ UNCHANGED enrol
  PROVE  Inv'
<1> DEFINE uid == enrol[t].uid
           row == EnrolRow(enrol[t])
<1>1. /\ pc \in [Threads -> PcLabels] /\ enrol \in [Threads -> Enrols \cup {NoEnrol}]
      /\ user_desc_txt \in [Uids -> SUBSET Names]
      /\ conns \in 0..MaxConn /\ ConnsAccounted
  BY DEF Inv, TypeOK
<1>2. enrol[t] \in Enrols /\ 1..(uid - 1) \subseteq UserIds
  BY DEF Inv, TypeOK, EnrolsNext, Enrolling
<1>3. MaxUsers \in Nat /\ 1..MaxUsers \subseteq Uids /\ uid \in 1..MaxUsers
  BY <1>2, EnrolmentAssumption DEF Enrols
<1>4. uid \in Nat \ {0} /\ uid \in Uids
  BY <1>3
<1>5. row \in User /\ row.uid = uid /\ row.uname = enrol[t].uname
      /\ row.uname # "" /\ row.passwd # ""
  <2>1. enrol[t].uname \in Names /\ enrol[t].passwd \in Passwds
    BY <1>2 DEF Enrols
  <2>2. enrol[t].uname # "" /\ enrol[t].passwd # ""
    BY <2>1, ProcessAssumption, UserModelAssumption
  <2> QED BY <1>4, <2>1, <2>2 DEF EnrolRow, User
<1> HIDE DEF row, uid
<1>6. /\ UsersKnown' /\ DOMAIN user' = DOMAIN user \cup {uid}
      /\ user'[uid] = row
      /\ \A u \in DOMAIN user : user'[u] = user[u]
  <2>1. user' = PutUser(user, uid, row) /\ uid \notin DOMAIN user
    BY DEF uid, row
  <2> QED BY <1>4, <1>5, <2>1, OneMoreUser DEF Inv
<1>7. PICK label \in {"idle", "udescribe"} :
        /\ Goto(t, label)
        /\ label = "udescribe" => UNCHANGED enrol
        /\ label = "idle" => ForgetEnrol(t)
  OBVIOUS
<1>8. /\ pc' \in [Threads -> PcLabels] /\ pc'[t] = label
      /\ \A s \in Threads \ {t} : pc'[s] = pc[s]
  BY <1>1, <1>7 DEF Goto, PcLabels
<1>9. /\ enrol' \in [Threads -> Enrols \cup {NoEnrol}]
      /\ label = "udescribe" => enrol'[t] = enrol[t]
      /\ \A s \in Threads \ {t} : enrol'[s] = enrol[s]
  BY <1>1, <1>7 DEF ForgetEnrol
<1>10. conns' \in 0..MaxConn /\ ConnsAccounted'
  BY <1>1, <1>7, ConnsCounted DEF Fetches
<1>11. \A s \in Threads : pc'[s] \in Enrolling => enrol'[s] \in Enrols
  BY <1>2, <1>7, <1>8, <1>9 DEF Inv, TypeOK, Enrolling
<1>12. TypeOK'
  BY <1>6, <1>8, <1>9, <1>10, <1>11 DEF Inv, TypeOK, UsersKnown
<1>13. UserIds' = UserIds \cup {uid}
  BY <1>6 DEF UserIds, userLoadVars
<1>14. UidsInterval'
  <2>1. PICK n \in 0..MaxUsers : UserIds = 1..n
    BY DEF Inv, UidsInterval
  <2>2. uid <= n + 1
    <3>1. 1..(uid - 1) \subseteq 1..n
      BY <1>2, <2>1
    <3>2. uid > n + 1 => n + 1 \in 1..(uid - 1)
      BY <1>3, <1>4
    <3>3. n + 1 \notin 1..n
      BY <1>3
    <3> QED BY <1>3, <1>4, <3>1, <3>2, <3>3
  <2>3. UserIds \cup {uid} = 1..n \/ (uid = n + 1 /\ UserIds \cup {uid} = 1..(n + 1))
    BY <1>3, <1>4, <2>1, <2>2
  <2>4. uid = n + 1 => n + 1 \in 0..MaxUsers
    BY <1>3
  <2> QED BY <1>13, <2>1, <2>3, <2>4 DEF UidsInterval
<1>15. EnrolsNext'
  BY <1>2, <1>7, <1>8, <1>9, <1>13 DEF Inv, EnrolsNext, Enrolling, uid
<1>16. EnrolsStored'
  <2>1. ASSUME NEW s \in Threads \ {t}, pc'[s] \in {"udescribe", "uregister"}
        PROVE  /\ enrol'[s].uid \in DOMAIN user'
               /\ user'[enrol'[s].uid].uname = enrol'[s].uname
    <3>1. pc[s] \in {"udescribe", "uregister"} /\ enrol'[s] = enrol[s]
      BY <1>8, <1>9, <2>1
    <3>2. enrol[s].uid \in DOMAIN user /\ user[enrol[s].uid].uname = enrol[s].uname
      BY <3>1 DEF Inv, EnrolsStored
    <3> QED BY <1>6, <3>1, <3>2
  <2>2. label = "udescribe" => /\ enrol'[t].uid \in DOMAIN user'
                               /\ user'[enrol'[t].uid].uname = enrol'[t].uname
    BY <1>5, <1>6, <1>9 DEF uid
  <2>3. pc'[t] \in {"udescribe", "uregister"} => label = "udescribe"
    BY <1>7, <1>8
  <2> QED BY <2>1, <2>2, <2>3 DEF EnrolsStored
<1>17. DescribesRow'
  <2>1. ASSUME NEW u \in Uids PROVE user_desc_txt[u] \subseteq {UserEntry(user', u).uname}
    <3>1. user_desc_txt[u] \subseteq {UserEntry(user, u).uname}
      BY DEF Inv, DescribesRow
    <3>2. CASE u \in DOMAIN user
      BY <1>6, <3>1, <3>2 DEF UserEntry
    <3>3. CASE u \notin DOMAIN user
      <4>1. UserEntry(user, u).uname = ""
        BY <3>3 DEF UserEntry, BlankUser
      <4>2. user_desc_txt[u] = {}
        BY <1>1, <3>1, <4>1, ProcessAssumption, ZenonT(40)
      <4> QED BY <4>2
    <3> QED BY <3>2, <3>3
  <2> QED BY <2>1 DEF DescribesRow
<1> QED BY <1>6, <1>10, <1>12, <1>14, <1>15, <1>16, <1>17 DEF Inv

LEMMA DescribesInv ==
  ASSUME Inv, NEW t \in Threads, EnrolDescribes(t)
  PROVE  Inv'
<1> DEFINE uid == enrol[t].uid
<1>1. /\ pc[t] = "udescribe" /\ Goto(t, "uregister")
      /\ UNCHANGED <<server, conns, userVars, userLoadVars, enrol>>
      /\ \/ user_desc_txt' =
              [user_desc_txt EXCEPT ![uid] = user_desc_txt[uid] \cup {enrol[t].uname}]
         \/ UNCHANGED user_desc_txt
  BY DEF EnrolDescribes
<1>2. enrol[t] \in Enrols /\ uid \in DOMAIN user /\ user[uid].uname = enrol[t].uname
  BY <1>1 DEF Inv, TypeOK, EnrolsStored, Enrolling
<1>3. enrol[t].uname \in Names
  BY <1>2 DEF Enrols
<1>4. /\ pc \in [Threads -> PcLabels] /\ user_desc_txt \in [Uids -> SUBSET Names]
      /\ conns \in 0..MaxConn /\ ConnsAccounted
  BY DEF Inv, TypeOK
<1>5. /\ pc' \in [Threads -> PcLabels] /\ pc'[t] = "uregister"
      /\ \A s \in Threads \ {t} : pc'[s] = pc[s]
  BY <1>1, <1>4 DEF Goto, PcLabels
<1>6. conns' \in 0..MaxConn /\ ConnsAccounted'
  BY <1>1, <1>4, ConnsCounted DEF Fetches
<1>7. UsersKnown'
  BY <1>1, UsersKnownStays DEF Inv
<1> HIDE DEF uid
<1>8. /\ user_desc_txt' \in [Uids -> SUBSET Names]
      /\ \A u \in Uids : u # uid => user_desc_txt'[u] = user_desc_txt[u]
      /\ user_desc_txt'[uid] \subseteq user_desc_txt[uid] \cup {enrol[t].uname}
  BY <1>1, <1>3, <1>4
<1>9. TypeOK'
  BY <1>1, <1>2, <1>5, <1>6, <1>7, <1>8 DEF Inv, TypeOK, Enrolling, UsersKnown
<1>10. UidsInterval' /\ UserIds' = UserIds
  BY <1>1 DEF Inv, userVars, userLoadVars, UidsInterval, UserIds
<1>11. EnrolsNext' /\ EnrolsStored'
  BY <1>1, <1>2, <1>5, <1>10 DEF Inv, EnrolsNext, EnrolsStored, userVars, Enrolling
<1>12. UserEntry(user, uid).uname = enrol[t].uname
  BY <1>2 DEF UserEntry
<1>13. DescribesRow'
  <2>1. user' = user
    BY <1>1 DEF userVars
  <2>2. \A u \in Uids : user_desc_txt'[u] \subseteq {UserEntry(user, u).uname}
    BY <1>8, <1>12 DEF Inv, DescribesRow
  <2> QED BY <2>1, <2>2 DEF DescribesRow
<1> QED BY <1>6, <1>7, <1>9, <1>10, <1>11, <1>13 DEF Inv

LEMMA RegistersInv ==
  ASSUME Inv, NEW t \in Threads, EnrolRegisters(t)
  PROVE  Inv'
<1>1. /\ pc[t] = "uregister" /\ Goto(t, "uconnect") /\ ForgetEnrol(t)
      /\ UNCHANGED <<server, conns, user, umodel, uresult, ulines, user_desc_txt>>
      /\ user_config' = user_config \cup {enrol[t].uid} \/ UNCHANGED user_config
  BY DEF EnrolRegisters, userVars
<1>2. enrol[t].uid \in DOMAIN user /\ DOMAIN user \subseteq Uids
  BY <1>1
  DEF Inv, EnrolsStored, UsersKnown, UserLoadingTypeOK, UserModelTypeOK,
      IsUserTable, IsUserMap
<1>3. /\ pc \in [Threads -> PcLabels] /\ enrol \in [Threads -> Enrols \cup {NoEnrol}]
      /\ conns \in 0..MaxConn /\ ConnsAccounted
  BY DEF Inv, TypeOK
<1>4. /\ pc' \in [Threads -> PcLabels] /\ pc'[t] = "uconnect"
      /\ \A s \in Threads \ {t} : pc'[s] = pc[s]
      /\ enrol' \in [Threads -> Enrols \cup {NoEnrol}]
      /\ \A s \in Threads \ {t} : enrol'[s] = enrol[s]
  BY <1>1, <1>3 DEF Goto, ForgetEnrol, PcLabels
<1>5. conns' \in 0..MaxConn /\ ConnsAccounted'
  BY <1>1, <1>3, ConnsCounted DEF Fetches
<1>6. UserIds' = UserIds
  BY <1>1, <1>2 DEF UserIds
<1>7. user_config \subseteq user_config' /\ user_config' \subseteq Uids
  BY <1>1, <1>2 DEF Inv, UsersKnown, UserLoadingTypeOK
<1>8. UsersKnown'
  <2>1. UserModelTypeOK'
    BY <1>1 DEF Inv, UsersKnown, UserLoadingTypeOK, UserModelTypeOK, IsUserTable, IsUserMap
  <2>2. /\ DOMAIN uresult' = Threads /\ \A s \in Threads : IsUserTable(uresult'[s])
        /\ ulines' \in [Threads -> SUBSET Uids]
    BY <1>1 DEF Inv, UsersKnown, UserLoadingTypeOK
  <2>3. UserKeysKnown'
    BY <1>1, <1>6, <1>7 DEF Inv, UsersKnown, UserKeysKnown
  <2>4. RowsCurrent' /\ MapNamesUsers'
    BY <1>1 DEF Inv, UsersKnown, RowsCurrent, MapNamesUsers
  <2> QED BY <1>7, <2>1, <2>2, <2>3, <2>4 DEF UsersKnown, UserLoadingTypeOK
<1>9. TypeOK'
  BY <1>1, <1>4, <1>5, <1>8 DEF Inv, TypeOK, Enrolling, UsersKnown
<1>10. UidsInterval' /\ DescribesRow'
  BY <1>1, <1>6 DEF Inv, UidsInterval, DescribesRow
<1>11. EnrolsNext' /\ EnrolsStored'
  BY <1>1, <1>4, <1>6 DEF Inv, EnrolsNext, EnrolsStored, Enrolling
<1> QED BY <1>5, <1>8, <1>9, <1>10, <1>11 DEF Inv

LEMMA ReloadInv ==
  ASSUME Inv, NEW t \in Threads, Reload(t)
  PROVE  Inv'
<1>1. LoadUsers(t) /\ UNCHANGED <<enrol, user_desc_txt>>
  BY DEF Reload
<1>2. {"idle", "uconnect", "ufetch", "uconfig"} \subseteq PcLabels
  BY DEF PcLabels
<1>3. /\ UsersKnown'
      /\ conns' \in 0..MaxConn /\ ConnsAccounted'
      /\ pc' \in [Threads -> PcLabels]
      /\ pc'[t] \in {"idle", "ufetch", "uconfig"}
      /\ \A s \in Threads \ {t} : pc'[s] = pc[s]
      /\ UNCHANGED <<server, user, user_config>>
  BY <1>1, <1>2, LoadUsersKeeps DEF Inv, TypeOK
<1>4. TypeOK'
  BY <1>1, <1>3 DEF Inv, TypeOK, Enrolling, UsersKnown
<1>5. UidsInterval' /\ DescribesRow' /\ UserIds' = UserIds
  BY <1>1, <1>3 DEF Inv, UidsInterval, UserIds, DescribesRow
<1>6. EnrolsNext' /\ EnrolsStored'
  BY <1>1, <1>3, <1>5 DEF Inv, EnrolsNext, EnrolsStored, Enrolling
<1> QED BY <1>3, <1>4, <1>5, <1>6 DEF Inv

LEMMA NextInv == Inv /\ [Next]_vars => Inv'
<1> SUFFICES ASSUME Inv, [Next]_vars PROVE Inv'
  OBVIOUS
<1>1. CASE Start
  BY <1>1, StartInv
<1>2. CASE Crash
  <2>1. Gone /\ NoThreads /\ conns' = 0 /\ server' = "down"
    BY <1>2 DEF Crash, Kill
  <2> QED BY <2>1, GoneInv
<1>3. ASSUME NEW t \in Threads, Request(t) PROVE Inv'
  BY <1>3, ReceivedInv DEF Request
<1>4. ASSUME NEW t \in Threads, Handle(t) PROVE Inv'
  <2>1. CASE EnrolRefused(t)
    BY <2>1, DroppedInv DEF EnrolRefused, Fetches
  <2>2. CASE EnrolChecked(t)
    BY <2>2, CheckedInv
  <2>3. CASE EnrolNotInserted(t)
    <3>1. /\ pc[t] = "uinsert" /\ Goto(t, "idle") /\ ForgetEnrol(t)
          /\ UNCHANGED <<server, umodel, userLoadVars, user_desc_txt>>
      BY <2>3 DEF EnrolNotInserted
    <3>2. CASE /\ UNCHANGED user
               /\ conns' = conns \/ (CanConnect /\ conns' = conns + 1)
      BY <3>1, <3>2, DroppedInv DEF userVars, Fetches
    <3>3. CASE /\ enrol[t].uid \notin DOMAIN user
               /\ CanConnect /\ conns' = conns + 1
               /\ user' = PutUser(user, enrol[t].uid, EnrolRow(enrol[t]))
      BY <3>1, <3>3, StoredInv
    <3> QED BY <2>3, <3>2, <3>3 DEF EnrolNotInserted, Leak
  <2>4. CASE EnrolInserted(t)
    BY <2>4, StoredInv DEF EnrolInserted, Leak
  <2>5. CASE EnrolAborts(t)
    <3>1. Gone /\ NoThreads /\ conns' = 0 /\ server' = "aborted"
      BY <2>5 DEF EnrolAborts, Terminate
    <3> QED BY <3>1, GoneInv
  <2>6. CASE EnrolDescribes(t)
    BY <2>6, DescribesInv
  <2>7. CASE EnrolRegisters(t)
    BY <2>7, RegistersInv
  <2>8. CASE Reload(t)
    BY <2>8, ReloadInv
  <2> QED BY <1>4, <2>1, <2>2, <2>3, <2>4, <2>5, <2>6, <2>7, <2>8 DEF Handle
<1>5. CASE UNCHANGED vars
  <2>1. UNCHANGED <<processVars, userVars, userLoadVars, enrol, user_desc_txt>>
    BY <1>5 DEF vars
  <2>2. UsersKnown'
    BY <2>1, UsersKnownStays DEF Inv
  <2>3. ConnsAccounted'
    BY <2>1 DEF Inv, ConnsAccounted, Fetching, processVars
  <2>4. TypeOK'
    BY <2>1, <2>2 DEF Inv, TypeOK, processVars, UsersKnown
  <2>5. UidsInterval' /\ DescribesRow' /\ UserIds' = UserIds
    BY <2>1 DEF Inv, userVars, userLoadVars, UidsInterval, UserIds, DescribesRow
  <2>6. EnrolsNext' /\ EnrolsStored'
    BY <2>1, <2>5 DEF Inv, EnrolsNext, EnrolsStored, processVars, userVars
  <2> QED BY <2>2, <2>3, <2>4, <2>5, <2>6 DEF Inv
<1> QED BY <1>1, <1>2, <1>3, <1>4, <1>5 DEF Next

-----------------------------------------------------------------------------
(* The theorems.                                                           *)

(* All variables of the enrolment handler, the user map, the table and the *)
(* connections keep their types, however many threads race and whatever    *)
(* fails.                                                                  *)
THEOREM EnrolmentTypeOK == Spec => []TypeOK
<1>1. Inv => TypeOK
  BY DEF Inv
<1> QED BY InitInv, NextInv, <1>1, PTL DEF Spec

(* The ids of the rows and the config lines are always 1..n: neither races *)
(* of the threads that count the map while another fills it, nor failing   *)
(* writes and reloads, nor a crash leaves a gap.                           *)
THEOREM EnrolmentUidsContiguous == Spec => []UidsContiguous
<1>1. Inv => UidsContiguous
  <2> SUFFICES ASSUME Inv PROVE UidsContiguous
    OBVIOUS
  <2>1. PICK n \in 0..MaxUsers : UserIds = 1..n
    BY DEF Inv, UidsInterval
  <2>2. n \in Nat
    BY EnrolmentAssumption
  <2>3. Cardinality(1..n) = n
    <3>1. \A a, b \in Int : Cardinality(a..b) = IF a > b THEN 0 ELSE b - a + 1
      BY FS_Interval
    <3>2. 1 \in Int /\ n \in Int /\ (IF 1 > n THEN 0 ELSE n - 1 + 1) = n
      BY <2>2
    <3> QED BY <3>1, <3>2
  <2> QED BY <2>1, <2>3 DEF UidsContiguous
<1> QED BY InitInv, NextInv, <1>1, PTL DEF Spec

(* No entry of the map of the users is ever made of two: it is the row     *)
(* under its id or blank, in the middle of any number of Load()s.          *)
THEOREM EnrolmentMapNamesUsers == Spec => []MapNamesUsers
<1>1. Inv => MapNamesUsers
  BY DEF Inv, UsersKnown
<1> QED BY InitInv, NextInv, <1>1, PTL DEF Spec

(* What GetUserVerify may read is the row of that id, or blank, or a mix   *)
(* of the row and a blank user while somebody assigns the one to the other.*)
LEMMA ReadsAreRows ==
  ASSUME UsersKnown, NEW t, NEW u, NEW e \in UserReads(t, u)
  PROVE  \/ u \in DOMAIN user /\ e.uname = user[u].uname /\ e.passwd = user[u].passwd
         \/ u \in DOMAIN umodel /\ umodel[u] = BlankUser /\ e = BlankUser
         \/ /\ UserEntry(umodel, u) = BlankUser
            /\ \E s \in Assigning(t, u) :
                 /\ u \in DOMAIN user /\ uresult[s][u] = user[u]
                 /\ e.uname \in {"", user[u].uname} /\ e.passwd \in {"", user[u].passwd}
<1> DEFINE old == UserEntry(umodel, u)
<1>1. old = BlankUser \/ (u \in DOMAIN user /\ old = user[u])
  BY DEF UsersKnown, MapNamesUsers, UserEntry
<1>2. BlankUser.uname = "" /\ BlankUser.passwd = ""
  BY DEF BlankUser
<1>3. CASE u \in DOMAIN umodel /\ e = old
  BY <1>1, <1>2, <1>3 DEF UserEntry
<1>4. ASSUME NEW s \in Assigning(t, u), e \in TornUser(old, uresult[s][u])
      PROVE  \/ u \in DOMAIN user /\ e.uname = user[u].uname /\ e.passwd = user[u].passwd
             \/ /\ old = BlankUser
                /\ u \in DOMAIN user /\ uresult[s][u] = user[u]
                /\ e.uname \in {"", user[u].uname} /\ e.passwd \in {"", user[u].passwd}
  <2>1. u \in DOMAIN user /\ uresult[s][u] = user[u]
    BY <1>4 DEF UsersKnown, RowsCurrent, Assigning
  <2>2. /\ e.uname \in {old.uname, uresult[s][u].uname}
        /\ e.passwd \in {old.passwd, uresult[s][u].passwd}
    BY <1>4 DEF TornUser
  <2> QED BY <1>1, <1>2, <2>1, <2>2
<1>5. \/ u \in DOMAIN umodel /\ e = old
      \/ \E s \in Assigning(t, u) : e \in TornUser(old, uresult[s][u])
  BY DEF UserReads
<1> QED BY <1>3, <1>4, <1>5

(* A name and a password, neither of them empty, log nobody in but a user  *)
(* of the table who has both; an empty one only finds an entry that is     *)
(* blank, or that somebody is assigning a row to.                          *)
THEOREM EnrolmentLoginVerified == Spec => []LoginVerified
<1>1. Inv => LoginVerified
  <2> SUFFICES ASSUME Inv,
                      NEW t \in Threads, NEW n \in Names \cup {""}, NEW p \in Passwds \cup {""},
                      NEW e \in GetUserVerify(t, n, p)
               PROVE  \/ StoredAs(n, p)
                      \/ /\ n = "" /\ p = ""
                         /\ \E u \in DOMAIN umodel : umodel[u] = BlankUser
                      \/ "" \in {n, p} /\ HalfStoredAs(t, n, p)
    BY DEF LoginVerified
  <2>1. PICK u \in Uids : e \in UserReads(t, u)
    BY DEF GetUserVerify
  <2>2. e.uname = n /\ e.passwd = p
    BY DEF GetUserVerify
  <2>3. CASE u \in DOMAIN user /\ e.uname = user[u].uname /\ e.passwd = user[u].passwd
    BY <2>2, <2>3 DEF StoredAs
  <2>4. CASE u \in DOMAIN umodel /\ umodel[u] = BlankUser /\ e = BlankUser
    BY <2>2, <2>4 DEF BlankUser
  <2>5. ASSUME UserEntry(umodel, u) = BlankUser,
               NEW s \in Assigning(t, u),
               u \in DOMAIN user, uresult[s][u] = user[u],
               e.uname \in {"", user[u].uname}, e.passwd \in {"", user[u].passwd}
        PROVE  StoredAs(n, p) \/ ("" \in {n, p} /\ HalfStoredAs(t, n, p))
    <3>1. CASE "" \in {n, p}
      BY <2>2, <2>5, <3>1 DEF HalfStoredAs
    <3>2. CASE n # "" /\ p # ""
      BY <2>2, <2>5, <3>2 DEF StoredAs
    <3> QED BY <3>1, <3>2
  <2> QED BY <2>1, <2>3, <2>4, <2>5, ReadsAreRows DEF Inv
<1> QED BY InitInv, NextInv, <1>1, PTL DEF Spec

(* No step takes a row away, and only EnrolRegisters writes a config line. *)
LEMMA UsersStay ==
  ASSUME [Next]_vars
  PROVE  /\ DOMAIN user \subseteq DOMAIN user'
         /\ \/ UNCHANGED user_config
            \/ \E t \in Threads : EnrolRegisters(t)
<1>1. CASE Start \/ Crash \/ UNCHANGED vars
  BY <1>1 DEF Start, Crash, Gone, UserLoadingGone, UserModelGone, UserLoadingBooted,
              vars, userVars, userLoadVars
<1>2. ASSUME NEW t \in Threads, Request(t)
      PROVE  UNCHANGED <<user, user_config>>
  BY <1>2 DEF Request, EnrolReceived, userVars, userLoadVars
<1>3. ASSUME NEW t \in Threads, Handle(t)
      PROVE  /\ DOMAIN user \subseteq DOMAIN user'
             /\ UNCHANGED user_config \/ EnrolRegisters(t)
  <2>1. CASE EnrolRefused(t) \/ EnrolChecked(t) \/ EnrolDescribes(t)
    BY <2>1 DEF EnrolRefused, EnrolChecked, EnrolDescribes, userVars, userLoadVars
  <2>2. CASE EnrolNotInserted(t) \/ EnrolInserted(t)
    BY <2>2 DEF EnrolNotInserted, EnrolInserted, PutUser, userLoadVars
  <2>3. CASE EnrolAborts(t)
    BY <2>3 DEF EnrolAborts, Gone, UserLoadingGone, UserModelGone
  <2>4. CASE EnrolRegisters(t)
    BY <2>4 DEF EnrolRegisters, userVars
  <2>5. CASE Reload(t)
    BY <2>5 DEF Reload, LoadUsers, LoadUsersConnectFails, LoadUsersSelectFails,
                LoadUsersSelect, LoadUsersFetch, LoadUsersClose,
                LoadUsersConfigLine, LoadUsersReturn, userVars, userLoadVars
  <2> QED BY <1>3, <2>1, <2>2, <2>3, <2>4, <2>5 DEF Handle
<1> QED BY <1>1, <1>2, <1>3 DEF Next

(* A description is that of the user in the row of its id; and a config    *)
(* line always has its row, if that was so of the files the server was     *)
(* first started with.                                                     *)
THEOREM EnrolmentDescribesUser ==
  ASSUME InitialUserConfig \subseteq DOMAIN InitialUsers
  PROVE  Spec => []DescribesUser
<1> DEFINE Configured == user_config \subseteq DOMAIN user
<1>1. Init => Configured
  BY DEF Init, InitUsers
<1>2. Inv /\ Configured /\ [Next]_vars => Configured'
  <2> SUFFICES ASSUME Inv, Configured, [Next]_vars PROVE Configured'
    OBVIOUS
  <2>1. ASSUME NEW t \in Threads, EnrolRegisters(t)
        PROVE  user_config' \subseteq DOMAIN user
    BY <2>1 DEF EnrolRegisters, Inv, EnrolsStored
  <2> QED BY <2>1, UsersStay
<1>3. Inv /\ Configured => DescribesUser
  BY DEF Inv, DescribesRow, DescribesUser
<1> HIDE DEF Configured
<1> QED BY InitInv, NextInv, <1>1, <1>2, <1>3, PTL DEF Spec
=============================================================================
