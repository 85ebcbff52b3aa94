----------------------------- MODULE HttpServer -----------------------------
(***************************************************************************)
(* httplib::Server: the thread in listen(), which accepts connections and, *)
(* once it leaves its loop, waits until no counted thread is left; one     *)
(* detached thread per connection, which answers up to                     *)
(* keep_alive_max_count_ requests; stop(), called by some other thread;    *)
(* and the clients.                                                        *)
(*                                                                         *)
(* What a client sends is a sequence of lines.  A line is one of           *)
(*   "get", "post"   a request line, of a request without and with a body  *)
(*   "close"         the header Connection: close                          *)
(*   "blank"         the end of the headers                                *)
(*   "body"          the content Content-Length announces                  *)
(*   "junk"          anything else                                         *)
(***************************************************************************)
EXTENDS Integers, FiniteSets, Sequences

CONSTANTS
  Conns,          \* connections; each has a thread of its own
  KeepAliveMax,   \* keep_alive_max_count_
  Messages,       \* Messages[c]: what the client of c may send, as lines
  MaxMessages     \* bound: messages a client sends on one connection

ASSUME HttpServerAssumption ==
  /\ IsFiniteSet(Conns)
  /\ KeepAliveMax \in Nat \ {0}
  /\ DOMAIN Messages = Conns
  /\ \A c \in Conns : \A m \in Messages[c] :
       m \in Seq({"get", "post", "close", "blank", "body", "junk"}) \ {<<>>}
  /\ MaxMessages \in Nat

VARIABLES
  listening,         \* where listen() is
  svr_sock_,         \* "socket", or "INVALID"
  accepting,         \* the kernel has a listening socket
  is_running_,
  stopping,          \* where stop() is: "no", "closing" or "stopped"
  running_threads_,
  thread,            \* thread[c]: where the connection and its thread are
  count,             \* count[c]: requests the thread still takes
  request,           \* request[c]: message being answered; asks it to close?
  stream,            \* stream[c]: lines received and not read
  read,              \* read[c]: number of lines read
  answers,           \* answers[c]: answers sent
  sent,              \* sent[c]: messages the client has begun to send
  sending,           \* sending[c]: lines left of the last of them
  gone               \* gone[c]: the client has closed the connection

listenVars == <<listening, svr_sock_, accepting, is_running_, stopping>>
clientVars == <<sent, sending, gone>>
threadVars == <<running_threads_, thread, count, request, read, answers>>
vars == <<listenVars, threadVars, stream, clientVars>>

NoRequest == [of |-> 0, body |-> FALSE, close |-> FALSE]

Init ==
  /\ listening = "unbound" /\ svr_sock_ = "INVALID" /\ accepting = FALSE
  /\ is_running_ = FALSE /\ stopping = "no"
  /\ running_threads_ = 0
  /\ thread = [c \in Conns |-> "none"]
  /\ count = [c \in Conns |-> 0]
  /\ request = [c \in Conns |-> NoRequest]
  /\ stream = [c \in Conns |-> <<>>]
  /\ read = [c \in Conns |-> 0]
  /\ answers = [c \in Conns |-> <<>>]
  /\ sent = [c \in Conns |-> <<>>]
  /\ sending = [c \in Conns |-> <<>>]
  /\ gone = [c \in Conns |-> FALSE]

-----------------------------------------------------------------------------
(* listen().                                                               *)

Bind ==
  /\ listening = "unbound"
  /\ \/ listening' = "bound" /\ svr_sock_' = "socket" /\ accepting' = TRUE
     \/ listening' = "returned" /\ UNCHANGED <<svr_sock_, accepting>>
  /\ UNCHANGED <<is_running_, stopping, threadVars, stream, clientVars>>

ListenInternal ==
  /\ listening = "bound"
  /\ is_running_' = TRUE
  /\ listening' = "select"
  /\ UNCHANGED <<svr_sock_, accepting, stopping, threadVars, stream, clientVars>>

Backlog == {c \in Conns : thread[c] = "backlog"}

(* 100 ms have passed, and stop() has set svr_sock_ meanwhile.             *)
ListenTimeout ==
  /\ listening = "select"
  /\ svr_sock_ = "INVALID"
  /\ listening' = "drain"
  /\ UNCHANGED <<svr_sock_, accepting, is_running_, stopping, threadVars, stream, clientVars>>

(* A connection waits, or select fails: accept is called in both cases.    *)
ListenSelects ==
  /\ listening = "select"
  /\ Backlog # {} \/ ~ accepting
  /\ listening' = "accept"
  /\ UNCHANGED <<svr_sock_, accepting, is_running_, stopping, threadVars, stream, clientVars>>

Accept(c) ==
  /\ listening = "accept"
  /\ svr_sock_ = "socket" /\ accepting
  /\ c \in Backlog
  /\ thread' = [thread EXCEPT ![c] = "accepted"]
  /\ listening' = "select"
  /\ UNCHANGED <<svr_sock_, accepting, is_running_, stopping, running_threads_,
                 count, request, read, answers, stream, clientVars>>

(* The socket is gone, or accept fails for a reason of its own: there is   *)
(* no descriptor left, the client has given up, a signal came.             *)
AcceptFails ==
  /\ listening = "accept"
  /\ listening' = "failed"
  /\ UNCHANGED <<svr_sock_, accepting, is_running_, stopping, threadVars, stream, clientVars>>

(* Connections in the queue of a listening socket end with it.             *)
Reset == thread' = [c \in Conns |-> IF c \in Backlog THEN "refused" ELSE thread[c]]

(* Mutant: the loop leaves it to stop() to close the socket.               *)
ListenLeavesLoopOnly ==
  /\ listening = "failed"
  /\ listening' = "drain"
  /\ UNCHANGED <<svr_sock_, accepting, is_running_, stopping, threadVars, stream, clientVars>>

(* svr_sock_ keeps its value when it is closed here.                       *)
ListenLeavesLoop ==
  /\ listening = "failed"
  /\ IF svr_sock_ = "socket"
       THEN accepting' = FALSE /\ Reset
       ELSE UNCHANGED <<accepting, thread>>
  /\ listening' = "drain"
  /\ UNCHANGED <<svr_sock_, is_running_, stopping, running_threads_,
                 count, request, read, answers, stream, clientVars>>

ListenReturns ==
  /\ listening = "drain"
  /\ running_threads_ = 0
  /\ is_running_' = FALSE
  /\ listening' = "returned"
  /\ UNCHANGED <<svr_sock_, accepting, stopping, threadVars, stream, clientVars>>

-----------------------------------------------------------------------------
(* stop(), called once.  Before listen_internal() and after it it does     *)
(* nothing.                                                                *)

Stop ==
  /\ stopping = "no"
  /\ is_running_
  /\ stopping' = "closing"
  /\ svr_sock_' = "INVALID"
  /\ UNCHANGED <<listening, accepting, is_running_, threadVars, stream, clientVars>>

StopCloses ==
  /\ stopping = "closing"
  /\ stopping' = "stopped"
  /\ accepting' = FALSE
  /\ Reset
  /\ UNCHANGED <<listening, svr_sock_, is_running_, running_threads_,
                 count, request, read, answers, stream, clientVars>>

-----------------------------------------------------------------------------
(* The thread of a connection.                                             *)

At(c, label) == thread' = [thread EXCEPT ![c] = label]

(* The thread counts itself: between accept and this step nothing shows    *)
(* listen() that it exists.                                                *)
ThreadCounts(c) ==
  /\ thread[c] = "accepted"
  /\ running_threads_' = running_threads_ + 1
  /\ count' = [count EXCEPT ![c] = KeepAliveMax]
  /\ At(c, "select")
  /\ UNCHANGED <<listenVars, request, read, answers, stream, clientVars>>

(* Something can be read: the end of the stream, a line, or the first      *)
(* bytes of one.                                                           *)
Readable(c) == stream[c] # <<>> \/ gone[c] \/ sending[c] # <<>>

KeepAliveSelects(c) ==
  /\ thread[c] = "select"
  /\ count[c] > 0
  /\ Readable(c)
  /\ At(c, "line")
  /\ UNCHANGED <<listenVars, running_threads_, count, request, read, answers,
                 stream, clientVars>>

(* Mutant: select() without a time.                                        *)
KeepAliveForever(c) == FALSE /\ UNCHANGED vars

(* Five seconds without a byte.                                            *)
KeepAliveTimeout(c) ==
  /\ thread[c] = "select"
  /\ count[c] > 0
  /\ stream[c] = <<>> /\ ~ gone[c]
  /\ At(c, "close")
  /\ UNCHANGED <<listenVars, running_threads_, count, request, read, answers,
                 stream, clientVars>>

KeepAliveUsedUp(c) ==
  /\ thread[c] = "select"
  /\ count[c] = 0
  /\ At(c, "close")
  /\ UNCHANGED <<listenVars, running_threads_, count, request, read, answers,
                 stream, clientVars>>

(* getline: no line comes any more.                                        *)
Ended(c) == stream[c] = <<>> /\ gone[c]

TakeLine(c) ==
  /\ stream' = [stream EXCEPT ![c] = Tail(@)]
  /\ read' = [read EXCEPT ![c] = @ + 1]

(* The client has closed the connection: process_request returns false.    *)
RequestEnds(c) ==
  /\ thread[c] = "line"
  /\ Ended(c)
  /\ At(c, "close")
  /\ UNCHANGED <<listenVars, running_threads_, count, request, read, answers,
                 stream, clientVars>>

RequestLine(c) ==
  /\ thread[c] = "line"
  /\ stream[c] # <<>>
  /\ LET line == Head(stream[c]) IN
       IF line.kind \in {"get", "post"}
         THEN /\ request' = [request EXCEPT ![c] =
                   [of |-> line.of, body |-> line.kind = "post", close |-> FALSE]]
              /\ At(c, "headers")
         ELSE /\ request' = [request EXCEPT ![c] = [NoRequest EXCEPT !.of = line.of]]
              /\ At(c, "bad request")
  /\ TakeLine(c)
  /\ UNCHANGED <<listenVars, running_threads_, count, answers, clientVars>>

(* Mutant: the body of a POST is left in the stream.                       *)
HeaderLineNoBody(c) ==
  /\ thread[c] = "headers"
  /\ stream[c] # <<>>
  /\ IF Head(stream[c]).kind = "blank" THEN At(c, "respond") ELSE UNCHANGED thread
  /\ TakeLine(c)
  /\ UNCHANGED <<listenVars, running_threads_, count, request, answers, clientVars>>

(* A line that is no header is skipped.                                    *)
HeaderLine(c) ==
  /\ thread[c] = "headers"
  /\ stream[c] # <<>>
  /\ LET kind == Head(stream[c]).kind IN
       /\ request' = [request EXCEPT ![c].close = @ \/ kind = "close"]
       /\ IF kind # "blank" THEN UNCHANGED thread
          ELSE At(c, IF request[c].body THEN "content" ELSE "respond")
  /\ TakeLine(c)
  /\ UNCHANGED <<listenVars, running_threads_, count, answers, clientVars>>

(* read_content: so many bytes, whatever they are.  The Content-Length is  *)
(* a number: one that is none makes std::stoull throw in the detached      *)
(* thread, which ends the process, and is left out.                        *)
Content(c) ==
  /\ thread[c] = "content"
  /\ stream[c] # <<>>
  /\ At(c, "respond")
  /\ TakeLine(c)
  /\ UNCHANGED <<listenVars, running_threads_, count, request, answers, clientVars>>

(* The stream ends within the headers or the body: 400.  Only in the body  *)
(* is connection_close set by then.                                        *)
RequestTruncated(c) ==
  /\ thread[c] \in {"headers", "content"}
  /\ Ended(c)
  /\ At(c, IF thread[c] = "headers" THEN "bad request" ELSE "respond")
  /\ UNCHANGED <<listenVars, running_threads_, count, request, read, answers,
                 stream, clientVars>>

(* Mutant: count == 0, which no request has.                               *)
LastConnectionNever(c) == count[c] = 0

LastConnection(c) == count[c] = 1

(* Mutant: connection_close is not looked at.                              *)
WriteResponseGoesOn(c) ==
  /\ thread[c] \in {"respond", "bad request"}
  /\ answers' = [answers EXCEPT ![c] = Append(@,
                   [to |-> request[c].of, at |-> read[c],
                    close |-> LastConnection(c) \/ request[c].close])]
  /\ At(c, "select")
  /\ count' = [count EXCEPT ![c] = @ - 1]
  /\ request' = [request EXCEPT ![c] = NoRequest]
  /\ UNCHANGED <<listenVars, running_threads_, read, stream, clientVars>>

(* write_response, and what read_and_close_socket does then.  After a 400  *)
(* for the request line or the headers connection_close is not set; what   *)
(* follows in the stream is taken for the next request.                    *)
WriteResponse(c) ==
  /\ thread[c] \in {"respond", "bad request"}
  /\ answers' = [answers EXCEPT ![c] = Append(@,
                   [to |-> request[c].of, at |-> read[c],
                    close |-> LastConnection(c) \/ request[c].close])]
  /\ IF thread[c] = "respond" /\ request[c].close
       THEN At(c, "close") /\ UNCHANGED count
       ELSE At(c, "select") /\ count' = [count EXCEPT ![c] = @ - 1]
  /\ request' = [request EXCEPT ![c] = NoRequest]
  /\ UNCHANGED <<listenVars, running_threads_, read, stream, clientVars>>

CloseSocket(c) ==
  /\ thread[c] = "close"
  /\ At(c, "closed")
  /\ UNCHANGED <<listenVars, running_threads_, count, request, read, answers,
                 stream, clientVars>>

(* Mutant: running_threads_-- is forgotten.                                *)
ThreadEndsCounted(c) ==
  /\ thread[c] = "closed"
  /\ At(c, "ended")
  /\ UNCHANGED <<listenVars, running_threads_, count, request, read, answers,
                 stream, clientVars>>

ThreadEnds(c) ==
  /\ thread[c] = "closed"
  /\ running_threads_' = running_threads_ - 1
  /\ At(c, "ended")
  /\ UNCHANGED <<listenVars, count, request, read, answers, stream, clientVars>>

-----------------------------------------------------------------------------
(* The clients.                                                            *)

Connect(c) ==
  /\ thread[c] = "none"
  /\ accepting
  /\ At(c, "backlog")
  /\ UNCHANGED <<listenVars, running_threads_, count, request, read, answers,
                 stream, clientVars>>

Connected(c) == thread[c] \notin {"none", "refused", "closed", "ended"} /\ ~ gone[c]

Begin(c, m) ==
  /\ Connected(c)
  /\ sending[c] = <<>>
  /\ Len(sent[c]) < MaxMessages
  /\ sent' = [sent EXCEPT ![c] = Append(@, m)]
  /\ sending' = [sending EXCEPT ![c] = m]
  /\ UNCHANGED <<listenVars, threadVars, stream, gone>>

Arrive(c) ==
  /\ Connected(c)
  /\ sending[c] # <<>>
  /\ stream' = [stream EXCEPT ![c] =
                  Append(@, [kind |-> Head(sending[c]), of |-> Len(sent[c])])]
  /\ sending' = [sending EXCEPT ![c] = Tail(@)]
  /\ UNCHANGED <<listenVars, threadVars, sent, gone>>

(* The client, or the network, closes the connection, be it in a message   *)
(* and in a line: a part of one is junk, wherever it is read.              *)
Leave(c) ==
  /\ Connected(c)
  /\ gone' = [gone EXCEPT ![c] = TRUE]
  /\ \/ UNCHANGED stream
     \/ /\ sending[c] # <<>>
        /\ stream' = [stream EXCEPT ![c] = Append(@, [kind |-> "junk", of |-> Len(sent[c])])]
  /\ UNCHANGED <<listenVars, threadVars, sent, sending>>

-----------------------------------------------------------------------------
Listener ==
  \/ Bind \/ ListenInternal \/ ListenTimeout \/ ListenSelects
  \/ \E c \in Conns : Accept(c)
  \/ AcceptFails \/ ListenLeavesLoop \/ ListenReturns

Serve(c) ==
  \/ ThreadCounts(c)
  \/ KeepAliveSelects(c) \/ KeepAliveTimeout(c) \/ KeepAliveUsedUp(c)
  \/ RequestEnds(c) \/ RequestLine(c) \/ HeaderLine(c) \/ Content(c)
  \/ RequestTruncated(c) \/ WriteResponse(c)
  \/ CloseSocket(c) \/ ThreadEnds(c)

ClientStep(c) ==
  Connect(c) \/ (\E m \in Messages[c] : Begin(c, m)) \/ Arrive(c) \/ Leave(c)

Next ==
  \/ Listener
  \/ Stop \/ StopCloses
  \/ \E c \in Conns : Serve(c) \/ ClientStep(c)

Spec == Init /\ [][Next]_vars

(* The thread is in send(), which has no timeout: it returns when the      *)
(* client reads, or, with an error, once the connection is closed.         *)
Sends(c) == thread[c] \in {"respond", "bad request"} /\ ~ gone[c]

(* Threads are scheduled, and select() returns at the latest when its time *)
(* is up.  Nothing is assumed of clients, not even that they read what     *)
(* they are sent, nor that stop() is ever called.                          *)
FairSpec ==
  /\ Spec
  /\ WF_vars(Listener)
  /\ WF_vars(StopCloses)
  /\ \A c \in Conns : WF_vars(Serve(c) /\ ~ Sends(c))

-----------------------------------------------------------------------------
(* Properties.                                                             *)

Labels == {"none", "backlog", "refused", "accepted", "select", "line", "headers",
           "content", "respond", "bad request", "close", "closed", "ended"}

Counted == {c \in Conns : thread[c] \notin {"none", "backlog", "refused", "accepted", "ended"}}

(* Every variable keeps its type, and running_threads_ is the number of    *)
(* threads between their two turns at the mutex.                           *)
TypeOK ==
  /\ listening \in {"unbound", "bound", "select", "accept", "failed", "drain", "returned"}
  /\ svr_sock_ \in {"socket", "INVALID"}
  /\ accepting \in BOOLEAN /\ is_running_ \in BOOLEAN
  /\ stopping \in {"no", "closing", "stopped"}
  /\ running_threads_ = Cardinality(Counted)
  /\ thread \in [Conns -> Labels]
  /\ count \in [Conns -> 0..KeepAliveMax]
  /\ request \in [Conns -> [of : 0..MaxMessages, body : BOOLEAN, close : BOOLEAN]]
  /\ read \in [Conns -> Nat]
  /\ gone \in [Conns -> BOOLEAN]

(* A message that a client of HTTP/1.1 sends: one request line, headers, a *)
(* blank line, and a body just when the method has one.                    *)
Proper(m) ==
  \E n \in 2..Len(m) :
    /\ \A i \in 2..n - 1 : m[i] \in {"close", "junk"}
    /\ m[n] = "blank"
    /\ \/ m[1] = "get" /\ Len(m) = n
       \/ m[1] = "post" /\ Len(m) = n + 1 /\ m[n + 1] = "body"

(* As long as a client sends proper messages, pipelined or not, the i-th   *)
(* answer is to the i-th of them: whatever part of which message has       *)
(* arrived when the thread looks, process_request stops where it ends.     *)
AnswersInOrder ==
  \A c \in Conns :
    (\A i \in 1..Len(sent[c]) : Proper(sent[c][i]))
      => \A i \in 1..Len(answers[c]) : answers[c][i].to = i

(* A client that was not told that the server would close is cut off only  *)
(* when nothing it has sent is left unread.  (What arrives between the     *)
(* timeout and close() is lost.)                                           *)
ClosesAnnounced ==
  [][\A c \in Conns :
       thread[c] # "close" /\ thread'[c] = "close"
         => \/ stream[c] = <<>>
            \/ answers'[c] # <<>> /\ answers'[c][Len(answers'[c])].close]_vars

(* Once listen() has returned, by stop() or because accept() failed, there *)
(* is no listening socket and nobody waits in its queue, unless stop() is  *)
(* still at it: whichever of the two saw the other's svr_sock_, one of     *)
(* them closes.                                                            *)
ListenerClosed ==
  listening = "returned" /\ stopping # "closing" => ~ accepting /\ Backlog = {}

(* A connection on which the client stays silent in the middle of a        *)
(* message: there is no timeout for that.                                  *)
Silent(c) ==
  /\ thread[c] \in {"line", "headers", "content"}
  /\ stream[c] = <<>> /\ ~ gone[c]

Stalled(c) == Silent(c) \/ Sends(c)

(* Every accepted connection ends, unless its client falls silent in a     *)
(* message or does not read what it is sent: nothing else that a client    *)
(* does keeps a thread for ever.                                           *)
ConnectionsEnd ==
  \A c \in Conns : <>[]Stalled(c) \/ (thread[c] = "accepted" ~> thread[c] = "ended")

(* Once stop() has begun, or accept() has failed, listen() returns, unless *)
(* a client keeps a thread in such a way: then it never does.              *)
ListenEnds ==
  \/ \E c \in Conns : <>[]Stalled(c)
  \/ (stopping # "no" \/ listening = "failed") ~> listening = "returned"

Dialogue == INSTANCE HttpDialogue WITH
  Most    <- KeepAliveMax,
  asked   <- [c \in Conns |-> read[c] + Len(stream[c])],
  answers <- [c \in Conns |-> [i \in 1..Len(answers[c]) |->
                [at |-> answers[c][i].at, close |-> answers[c][i].close]]]

(* The thread of a connection, with its counter, its two flags and its     *)
(* timeout, keeps such a dialogue, whatever the client sends.              *)
ImplementsDialogue == Dialogue!Spec
=============================================================================
