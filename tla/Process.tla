------------------------------ MODULE Process ------------------------------
(***************************************************************************)
(* The book_server process: whether it runs, its connection threads, and   *)
(* the MySQL connections it holds.  Every model object (BookModel,         *)
(* UserModel, CommModel) and every request handler is built on this.       *)
(*                                                                         *)
(* httplib starts one detached thread per accepted connection and runs the *)
(* handler in it; no handler takes a lock.  pc[t] is the point of its      *)
(* handler that thread t has reached, "idle" between two requests.         *)
(***************************************************************************)
EXTENDS Integers, FiniteSets

CONSTANTS
  Threads,   \* connection threads
  MaxConn,   \* max_connections of the MySQL server
  Faults,    \* TRUE: a connect, a query or an open() may fail by itself
  Names,     \* user names, as the columns uname, owner and borrower hold them
  Uids,      \* user ids a row or a request may name
  NoNumber   \* the value of a numeric string that is empty or no number

ASSUME ProcessAssumption ==
  /\ IsFiniteSet(Threads)
  /\ MaxConn \in Nat /\ MaxConn >= 3
  /\ Faults \in BOOLEAN
  /\ "" \notin Names
  /\ Uids \subseteq Nat
  /\ NoNumber \notin Int \cup Names \cup {""}

VARIABLES
  server,    \* "up", "down" (not started, or killed) or "aborted"
  pc,        \* pc[t]: where the handler of thread t is
  conns      \* MySQL connections the process holds open

processVars == <<server, pc, conns>>

Goto(t, label) == pc' = [pc EXCEPT ![t] = label]

(* All threads are gone: the process ended, or has just been started.      *)
NoThreads == pc' = [t \in Threads |-> "idle"]

(* Mutant: a connection more than MySQL grants.                            *)
CanConnectTooOften == conns <= MaxConn

(* mysql_real_connect returns null when the server has no slot left, or    *)
(* for a reason of its own.                                                *)
CanConnect == conns < MaxConn
ConnectFails == conns >= MaxConn \/ Faults

(* A connection is opened and never given back to MySQL: the functions     *)
(* that write, and a Load whose query fails, return without mysql_close.   *)
Leak == conns' = conns + 1

(* Nothing catches an exception in a connection thread: std::terminate     *)
(* ends the whole process.                                                 *)
Terminate ==
  /\ server = "up"
  /\ server' = "aborted"
  /\ NoThreads
  /\ conns' = 0

(* The process dies between any two steps: it is killed from outside, or   *)
(* by a memory fault after two threads raced on a std::map.                *)
Kill ==
  /\ server = "up"
  /\ server' = "down"
  /\ NoThreads
  /\ conns' = 0

(* How a Load() called from main() ends.  main() ignores the result.       *)
LoadResults ==
  {"loaded"} \cup (IF Faults THEN {"noconn", "noquery", "noconfig"} ELSE {})

(* main() runs the three Load()s one after the other, before listen().     *)
Boot(book, user, comm) ==
  /\ server # "up"
  /\ server' = "up"
  /\ NoThreads
  /\ conns' = Cardinality({i \in 1..3 : <<book, user, comm>>[i] = "noquery"})

-----------------------------------------------------------------------------
(* Where a Load() of the books, or of the users, fetches its rows.          *)
Fetches == {"fetch", "ufetch"}

Fetching == {t \in Threads : pc[t] \in Fetches}

(* A thread that is about to close its connection has one: every fetching  *)
(* Load() is counted, whatever the other threads open and leak.            *)
ConnsAccounted == Cardinality(Fetching) <= conns
=============================================================================
