-------------------------- MODULE HttpServerProofs --------------------------
(* httplib::Server, proved for any number of connections, any keep-alive   *)
(* maximum and whatever the clients send.                                  *)
EXTENDS HttpServer, FiniteSetTheorems, SequenceTheorems, TLAPS

-----------------------------------------------------------------------------
(* The inductive invariants.                                               *)

Kinds == {"get", "post", "close", "blank", "body", "junk"}

Answer == [to : 0..MaxMessages, at : Nat, close : BOOLEAN]

Requests == [of : 0..MaxMessages, body : BOOLEAN, close : BOOLEAN]

(* What TypeOK leaves out: the texts, and running_threads_.                *)
TextsTyped ==
  /\ stream \in [Conns -> Seq([kind : Kinds, of : Nat])]
  /\ answers \in [Conns -> Seq(Answer)]
  /\ sent \in [Conns -> Seq(Seq(Kinds))]
  /\ sending \in [Conns -> Seq(Kinds)]

(* A line belongs to a message that the client has begun to send.          *)
LinesSent(c) ==
  /\ Len(sent[c]) <= MaxMessages
  /\ sending[c] # <<>> => sent[c] # <<>>
  /\ \A i \in 1..Len(stream[c]) : stream[c][i].of \in 1..Len(sent[c])

(* Where a request is under way, and where it has been read in part.       *)
Busy == {"line", "headers", "content", "respond", "bad request"}
Reading == {"headers", "content", "respond", "bad request"}
Early == {"none", "backlog", "refused", "accepted"}

(* The counter of a thread and its answers add up.                         *)
CountsAnswers(c) ==
  /\ thread[c] \in Busy => count[c] >= 1
  /\ thread[c] \in Busy \cup {"select"} => Len(answers[c]) + count[c] = KeepAliveMax
  /\ thread[c] \in Early => answers[c] = <<>>

(* The lines that were read when the answers so far were given.            *)
HeardBy(c) == IF answers[c] = <<>> THEN 0 ELSE answers[c][Len(answers[c])].at

(* An answer is given after a line that no earlier one was for.            *)
AnswersRead(c) ==
  /\ HeardBy(c) <= read[c]
  /\ thread[c] \in Reading => HeardBy(c) < read[c]

Closing(c) == answers[c] # <<>> /\ answers[c][Len(answers[c])].close

(* After an answer that says close the thread takes no other request: it   *)
(* leaves, has no count left, or finds the stream at its end.              *)
CloseIsLast(c) ==
  /\ Closing(c) =>
       \/ thread[c] \in {"close", "closed", "ended"}
       \/ thread[c] = "select" /\ count[c] = 0
       \/ thread[c] \in {"select", "line"} /\ Ended(c)
  /\ thread[c] = "select" /\ count[c] = 0 => Closing(c)
  /\ thread[c] = "bad request" /\ request[c].close => Ended(c)

ConnInv(c) ==
  /\ LinesSent(c)
  /\ CountsAnswers(c)
  /\ AnswersRead(c)
  /\ CloseIsLast(c)

Inv ==
  /\ TypeOK
  /\ TextsTyped
  /\ \A c \in Conns : ConnInv(c)

-----------------------------------------------------------------------------
(* For AnswersInOrder: the lines that are still to be read, those that     *)
(* have not arrived yet among them, follow each other as those of proper   *)
(* messages do, from where the thread is.                                  *)

Coming(c) == Len(stream[c]) + (IF gone[c] THEN 0 ELSE Len(sending[c]))

Line(c, i) ==
  IF i <= Len(stream[c]) THEN stream[c][i]
  ELSE [kind |-> sending[c][i - Len(stream[c])], of |-> Len(sent[c])]

(* Only the last line of a client that has left may be part of one.        *)
Cut(c, i) == gone[c] /\ i = Coming(c) /\ Line(c, i).kind = "junk"

(* A place in a conversation: what is read next, of which message.         *)
Places == [label : {"line", "headers", "content"}, of : Nat]
Place(label, of) == [label |-> label, of |-> of]

(* Where the thread is after it has read this line.                        *)
After(c, line) ==
  CASE line.kind = "body"                                   -> Place("line", line.of + 1)
    [] line.kind = "blank" /\ sent[c][line.of][1] = "get"   -> Place("line", line.of + 1)
    [] line.kind = "blank" /\ sent[c][line.of][1] # "get"   -> Place("content", line.of)
    [] OTHER                                                -> Place("headers", line.of)

Fits(c, place, i) ==
  /\ Line(c, i).of = place.of
  /\ \/ Cut(c, i)
     \/ place.label = "line" /\ Line(c, i).kind = sent[c][place.of][1]
     \/ place.label = "headers" /\ Line(c, i).kind \in {"close", "junk", "blank"}
     \/ place.label = "content" /\ Line(c, i).kind = "body"

(* What the thread reads next.                                             *)
Now(c) ==
  CASE thread[c] \in {"headers", "content"} -> Place(thread[c], Len(answers[c]) + 1)
    [] thread[c] = "respond"                -> Place("line", Len(answers[c]) + 2)
    [] OTHER                                -> Place("line", Len(answers[c]) + 1)

(* What is coming fits, from this place on, and leads to where the client  *)
(* is with what it has sent.                                               *)
Follows(c, place) ==
  /\ Coming(c) > 0 => Fits(c, place, 1)
  /\ \A i \in 1..Coming(c) - 1 : Fits(c, After(c, Line(c, i)), i + 1)
  /\ ~ gone[c] => (IF Coming(c) = 0 THEN place ELSE After(c, Line(c, Coming(c))))
                    = Place("line", Len(sent[c]) + 1)

Conversing == {"none", "backlog", "accepted", "select"} \cup Busy

InOrder(c) ==
  /\ \A i \in 1..Len(answers[c]) : answers[c][i].to = i
  /\ thread[c] \in Conversing =>
       /\ thread[c] \in Reading => request[c].of = Len(answers[c]) + 1
       /\ thread[c] = "headers" =>
            request[c].body <=> sent[c][request[c].of][1] # "get"
       /\ thread[c] = "bad request" => Coming(c) = 0 /\ gone[c]
       /\ Follows(c, Now(c))

ProperSoFar(c) == \A i \in 1..Len(sent[c]) : Proper(sent[c][i])

OrderInv == \A c \in Conns : ProperSoFar(c) => InOrder(c)

-----------------------------------------------------------------------------
(* Types.                                                                  *)

(* running_threads_ follows a thread that enters or leaves its two turns.  *)
LEMMA ThreadsCounted ==
  ASSUME TypeOK, NEW c \in Conns, NEW label \in Labels, At(c, label),
         \/ /\ thread[c] = "accepted" /\ label = "select"
            /\ running_threads_' = running_threads_ + 1
         \/ /\ thread[c] = "closed" /\ label = "ended"
            /\ running_threads_' = running_threads_ - 1
         \/ /\ c \in Counted <=> label \notin {"none", "backlog", "refused", "accepted", "ended"}
            /\ UNCHANGED running_threads_
  PROVE  running_threads_' = Cardinality(Counted') /\ thread' \in [Conns -> Labels]
<1>1. thread \in [Conns -> Labels] /\ running_threads_ = Cardinality(Counted)
  BY DEF TypeOK
<1>2. thread' \in [Conns -> Labels]
      /\ \A d \in Conns : thread'[d] = IF d = c THEN label ELSE thread[d]
  BY <1>1 DEF At
<1>3. IsFiniteSet(Counted)
  <2>1. Counted \in SUBSET Conns
    BY DEF Counted
  <2> QED BY <2>1, HttpServerAssumption, FS_Subset
<1>4. CASE thread[c] = "accepted" /\ label = "select"
  <2>1. Counted' = Counted \cup {c} /\ c \notin Counted
    BY <1>2, <1>4 DEF Counted
  <2> QED BY <1>1, <1>2, <1>3, <1>4, <2>1, FS_AddElement
<1>5. CASE thread[c] = "closed" /\ label = "ended"
  <2>1. Counted' = Counted \ {c} /\ c \in Counted
    BY <1>2, <1>5 DEF Counted
  <2> QED BY <1>1, <1>2, <1>3, <1>5, <2>1, FS_RemoveElement
<1>6. CASE /\ c \in Counted <=> label \notin {"none", "backlog", "refused", "accepted", "ended"}
           /\ UNCHANGED running_threads_
  <2>1. Counted' = Counted
    BY <1>2, <1>6 DEF Counted
  <2> QED BY <1>1, <1>2, <1>6, <2>1
<1> QED BY <1>4, <1>5, <1>6

LEMMA ResetCounted ==
  ASSUME TypeOK, Reset
  PROVE  Cardinality(Counted') = Cardinality(Counted) /\ thread' \in [Conns -> Labels]
<1>1. thread \in [Conns -> Labels] /\ "refused" \in Labels
  BY DEF TypeOK, Labels
<1>2. thread' \in [Conns -> Labels]
  BY <1>1 DEF Reset
<1>3. Counted' = Counted
  BY <1>1 DEF Reset, Backlog, Counted
<1> QED BY <1>2, <1>3

LEMMA HeardTyped ==
  ASSUME Inv, NEW c \in Conns
  PROVE  /\ HeardBy(c) \in Nat /\ Len(answers[c]) \in Nat /\ answers[c] \in Seq(Answer)
         /\ answers[c] # <<>> => answers[c][Len(answers[c])] \in Answer
<1>1. answers[c] \in Seq(Answer)
  BY DEF Inv, TextsTyped
<1>2. Len(answers[c]) \in Nat
  BY <1>1, LenProperties
<1>3. ASSUME answers[c] # <<>> PROVE answers[c][Len(answers[c])] \in Answer
  <2>1. Len(answers[c]) # 0
    BY <1>1, <1>3, EmptySeq
  <2>2. Len(answers[c]) \in 1..Len(answers[c])
    BY ONLY <1>2, <2>1
  <2> QED BY <1>1, <2>2, ElementOfSeq
<1> QED BY <1>1, <1>2, <1>3 DEF HeardBy, Answer

(* What taking a line leaves.                                              *)
LEMMA LineTaken ==
  ASSUME Inv, NEW c \in Conns, stream[c] # <<>>, TakeLine(c)
  PROVE  /\ stream' \in [Conns -> Seq([kind : Kinds, of : Nat])]
         /\ read' \in [Conns -> Nat] /\ read'[c] = read[c] + 1
         /\ \A d \in Conns \ {c} : stream'[d] = stream[d] /\ read'[d] = read[d]
         /\ Len(stream'[c]) = Len(stream[c]) - 1
         /\ \A i \in 1..Len(stream'[c]) : stream'[c][i] = stream[c][i + 1]
         /\ Len(stream[c]) \in Nat \ {0}
         /\ Head(stream[c]) = stream[c][1]
         /\ stream[c][1] \in [kind : Kinds, of : 1..MaxMessages]
<1> DEFINE S == [kind : Kinds, of : Nat]
<1>1. /\ stream \in [Conns -> Seq(S)] /\ read \in [Conns -> Nat]
      /\ Len(sent[c]) <= MaxMessages
      /\ sent \in [Conns -> Seq(Seq(Kinds))]
      /\ \A i \in 1..Len(stream[c]) : stream[c][i].of \in 1..Len(sent[c])
  BY DEF Inv, ConnInv, TypeOK, TextsTyped, LinesSent
<1>2. stream[c] \in Seq(S)
  BY <1>1
<1>3. /\ stream' = [stream EXCEPT ![c] = Tail(stream[c])]
      /\ read' = [read EXCEPT ![c] = read[c] + 1]
  BY DEF TakeLine
<1>4. Len(stream[c]) \in Nat \ {0} /\ Len(sent[c]) \in Nat
  BY <1>1, <1>2, EmptySeq, LenProperties
<1>5. Head(stream[c]) = stream[c][1] /\ stream[c][1] \in S
  <2>1. 1 \in 1..Len(stream[c])
    BY <1>4
  <2>2. stream[c][1] \in S
    BY <1>2, <2>1, ElementOfSeq
  <2>3. Head(stream[c]) = stream[c][1]
    BY DEF Head
  <2> QED BY <2>2, <2>3
<1>6. stream[c][1].of \in 1..MaxMessages
  <2>1. 1 \in 1..Len(stream[c]) /\ MaxMessages \in Nat
    BY <1>4, HttpServerAssumption
  <2>2. stream[c][1].of \in 1..Len(sent[c])
    BY <1>1, <2>1
  <2> QED BY <1>1, <1>4, <2>1, <2>2
<1>7. stream[c][1] \in [kind : Kinds, of : 1..MaxMessages]
  BY <1>5, <1>6
<1>8. /\ Tail(stream[c]) \in Seq(S)
      /\ Len(Tail(stream[c])) = Len(stream[c]) - 1
      /\ \A i \in 1..Len(Tail(stream[c])) : Tail(stream[c])[i] = stream[c][i + 1]
  BY <1>2, HeadTailProperties
<1> HIDE DEF S
<1>9. /\ stream' \in [Conns -> Seq(S)]
      /\ stream'[c] = Tail(stream[c])
      /\ \A d \in Conns \ {c} : stream'[d] = stream[d]
  BY <1>1, <1>3, <1>8
<1>10. /\ read' \in [Conns -> Nat] /\ read'[c] = read[c] + 1
       /\ \A d \in Conns \ {c} : read'[d] = read[d]
  BY <1>1, <1>3
<1> QED BY <1>4, <1>5, <1>7, <1>8, <1>9, <1>10 DEF S

-----------------------------------------------------------------------------
(* Steps that touch one connection only.                                   *)

RowKept(d) ==
  /\ thread'[d] = thread[d] /\ count'[d] = count[d] /\ request'[d] = request[d]
  /\ stream'[d] = stream[d] /\ read'[d] = read[d] /\ answers'[d] = answers[d]
  /\ sent'[d] = sent[d] /\ sending'[d] = sending[d] /\ gone'[d] = gone[d]

LEMMA RowKeptInv ==
  ASSUME NEW d \in Conns, ConnInv(d), RowKept(d)
  PROVE  ConnInv(d)'
<1>1. LinesSent(d)'
  BY DEF ConnInv, RowKept, LinesSent
<1>2. CountsAnswers(d)'
  BY DEF ConnInv, RowKept, CountsAnswers
<1>3. AnswersRead(d)'
  BY DEF ConnInv, RowKept, AnswersRead, HeardBy
<1>4. CloseIsLast(d)'
  BY DEF ConnInv, RowKept, CloseIsLast, Closing, Ended
<1> QED BY <1>1, <1>2, <1>3, <1>4 DEF ConnInv

LEMMA OneRowInv ==
  ASSUME Inv, NEW c \in Conns, \A d \in Conns \ {c} : RowKept(d),
         TypeOK', TextsTyped', ConnInv(c)'
  PROVE  Inv'
BY RowKeptInv DEF Inv

(* The thread takes its next step and nothing else changes, but for its    *)
(* counter and running_threads_.                                           *)
LEMMA ThreadMoves ==
  ASSUME Inv, NEW c \in Conns, NEW label \in Labels, At(c, label),
         UNCHANGED <<listenVars, request, read, answers, stream, clientVars>>,
         count' \in [Conns -> 0..KeepAliveMax],
         \A d \in Conns \ {c} : count'[d] = count[d],
         running_threads_' = Cardinality(Counted'),
         CountsAnswers(c)', AnswersRead(c)', CloseIsLast(c)'
  PROVE  Inv'
<1>1. thread \in [Conns -> Labels] /\ UNCHANGED <<sent, sending, gone>>
  BY DEF Inv, TypeOK, clientVars
<1>2. thread' \in [Conns -> Labels] /\ \A d \in Conns \ {c} : RowKept(d)
  BY <1>1 DEF At, RowKept
<1>3. TypeOK' /\ TextsTyped'
  BY <1>1, <1>2 DEF Inv, TypeOK, TextsTyped, listenVars
<1>4. LinesSent(c)'
  BY <1>1 DEF Inv, ConnInv, LinesSent
<1> QED BY <1>2, <1>3, <1>4, OneRowInv DEF ConnInv

LEMMA CountKept ==
  ASSUME Inv, UNCHANGED count
  PROVE  count' \in [Conns -> 0..KeepAliveMax]
BY DEF Inv, TypeOK

LEMMA ThreadCountsInv ==
  ASSUME Inv, NEW c \in Conns, ThreadCounts(c)
  PROVE  Inv'
<1>1. /\ thread[c] = "accepted" /\ At(c, "select")
      /\ running_threads_' = running_threads_ + 1
      /\ count' = [count EXCEPT ![c] = KeepAliveMax]
      /\ UNCHANGED <<listenVars, request, read, answers, stream, clientVars>>
  BY DEF ThreadCounts
<1>2. KeepAliveMax \in Nat \ {0} /\ "select" \in Labels
  BY HttpServerAssumption DEF Labels
<1>3. count \in [Conns -> 0..KeepAliveMax] /\ thread \in [Conns -> Labels]
  BY DEF Inv, TypeOK
<1>4. /\ count' \in [Conns -> 0..KeepAliveMax] /\ count'[c] = KeepAliveMax
      /\ \A d \in Conns \ {c} : count'[d] = count[d]
  BY <1>1, <1>2, <1>3
<1>5. running_threads_' = Cardinality(Counted')
  BY <1>1, <1>2, ThreadsCounted DEF Inv
<1>6. thread'[c] = "select" /\ answers'[c] = <<>> /\ answers[c] = <<>> /\ Len(<<>>) = 0
  BY <1>1, <1>3 DEF At, Inv, ConnInv, CountsAnswers, Early
<1>7. CountsAnswers(c)'
  BY <1>2, <1>4, <1>6 DEF CountsAnswers, Busy, Early
<1>8. AnswersRead(c)'
  BY <1>1, <1>6 DEF AnswersRead, HeardBy, Reading, Inv, ConnInv
<1>9. CloseIsLast(c)'
  BY <1>2, <1>4, <1>6 DEF CloseIsLast, Closing
<1> QED BY <1>1, <1>2, <1>4, <1>5, <1>7, <1>8, <1>9, ThreadMoves

(* A step between two labels of a thread that has counted itself, or of    *)
(* one that has not.                                                       *)
LEMMA LabelMoves ==
  ASSUME Inv, NEW c \in Conns, NEW label \in Labels, At(c, label),
         UNCHANGED <<listenVars, count, request, read, answers, stream, clientVars>>,
         \/ /\ c \in Counted <=> label \notin {"none", "backlog", "refused", "accepted", "ended"}
            /\ UNCHANGED running_threads_
         \/ /\ thread[c] = "closed" /\ label = "ended"
            /\ running_threads_' = running_threads_ - 1,
         \/ label \in {"close", "closed", "ended"}
         \/ thread[c] = "none" /\ label = "backlog"
         \/ thread[c] = "select" /\ label = "line" /\ count[c] > 0
         \/ thread[c] = "headers" /\ label = "bad request" /\ Ended(c)
         \/ thread[c] = "content" /\ label = "respond"
  PROVE  Inv'
<1>1. running_threads_' = Cardinality(Counted')
  BY ThreadsCounted DEF Inv
<1>2. /\ count \in [Conns -> 0..KeepAliveMax] /\ thread \in [Conns -> Labels]
      /\ KeepAliveMax \in Nat
      /\ ConnInv(c)
  BY HttpServerAssumption DEF Inv, TypeOK
<1>3. thread'[c] = label
  BY <1>2 DEF At
<1>4. UNCHANGED <<gone, stream, answers, read, request, count>>
  BY DEF clientVars
<1>5. ConnInv(c) /\ count[c] \in Nat
  <2>1. count[c] \in 0..KeepAliveMax /\ KeepAliveMax \in Nat
    BY <1>2
  <2>2. count[c] \in Nat
    BY ONLY <2>1
  <2> QED BY <1>2, <2>2
<1>6. CountsAnswers(c)'
  <2>1. label \in Busy => thread[c] \in Busy \/ (thread[c] = "select" /\ count[c] > 0)
    BY DEF Busy
  <2>2. label \in Busy => thread[c] \in Busy \cup {"select"} /\ count[c] >= 1
    BY ONLY <1>5, <2>1 DEF ConnInv, CountsAnswers
  <2>3. label # "select" /\ (label \in Early => thread[c] \in Early)
    BY DEF Early
  <2> QED BY <1>2, <1>3, <1>4, <2>2, <2>3 DEF ConnInv, CountsAnswers
<1>7. AnswersRead(c)'
  BY <1>2, <1>3, <1>4 DEF ConnInv, AnswersRead, HeardBy, Reading
<1>8. CloseIsLast(c)'
  <2>1. Closing(c)' = Closing(c) /\ Ended(c)' = Ended(c)
    BY <1>4 DEF Closing, Ended
  <2>2. thread[c] = "none" => ~ Closing(c)
    BY <1>2 DEF ConnInv, CountsAnswers, Early, Closing
  <2>3. thread[c] = "select" /\ count[c] > 0 => ~ Closing(c) \/ Ended(c)
    BY <1>2, <1>5 DEF ConnInv, CloseIsLast
  <2> QED BY <1>2, <1>3, <1>4, <1>5, <2>1, <2>2, <2>3 DEF ConnInv, CloseIsLast
<1>9. count' \in [Conns -> 0..KeepAliveMax] /\ \A d \in Conns \ {c} : count'[d] = count[d]
  BY <1>2
<1> QED BY <1>1, <1>6, <1>7, <1>8, <1>9, ThreadMoves

LEMMA LabelSteps ==
  ASSUME Inv, NEW c \in Conns,
         \/ KeepAliveSelects(c) \/ KeepAliveTimeout(c) \/ KeepAliveUsedUp(c)
         \/ RequestEnds(c) \/ RequestTruncated(c)
         \/ CloseSocket(c) \/ ThreadEnds(c) \/ Connect(c)
  PROVE  Inv'
<1> USE DEF Labels, Counted
<1>1. CASE KeepAliveSelects(c)
  BY <1>1, LabelMoves DEF KeepAliveSelects
<1>2. CASE KeepAliveTimeout(c)
  BY <1>2, LabelMoves DEF KeepAliveTimeout
<1>3. CASE KeepAliveUsedUp(c)
  BY <1>3, LabelMoves DEF KeepAliveUsedUp
<1>4. CASE RequestEnds(c)
  BY <1>4, LabelMoves DEF RequestEnds
<1>5. CASE RequestTruncated(c)
  <2>1. CASE thread[c] = "headers"
    BY <1>5, <2>1, LabelMoves DEF RequestTruncated
  <2>2. CASE thread[c] = "content"
    BY <1>5, <2>2, LabelMoves DEF RequestTruncated
  <2> QED BY <1>5, <2>1, <2>2 DEF RequestTruncated
<1>6. CASE CloseSocket(c)
  BY <1>6, LabelMoves DEF CloseSocket
<1>7. CASE ThreadEnds(c)
  BY <1>7, LabelMoves DEF ThreadEnds
<1>8. CASE Connect(c)
  BY <1>8, LabelMoves DEF Connect
<1> QED BY <1>1, <1>2, <1>3, <1>4, <1>5, <1>6, <1>7, <1>8

(* The thread takes a line: it is in a request then, and had not told its  *)
(* client that it would close.                                             *)
LEMMA LineMoves ==
  ASSUME Inv, NEW c \in Conns, stream[c] # <<>>, TakeLine(c),
         thread[c] \in {"line", "headers", "content"},
         NEW label \in Reading, At(c, label) \/ (UNCHANGED thread /\ label = thread[c]),
         NEW req \in Requests, request' = [request EXCEPT ![c] = req],
         label = "bad request" => ~ req.close,
         UNCHANGED <<listenVars, running_threads_, count, answers, clientVars>>
  PROVE  Inv'
<1>1. /\ stream' \in [Conns -> Seq([kind : Kinds, of : Nat])]
      /\ read' \in [Conns -> Nat] /\ read'[c] = read[c] + 1
      /\ \A d \in Conns \ {c} : stream'[d] = stream[d] /\ read'[d] = read[d]
      /\ Len(stream'[c]) = Len(stream[c]) - 1
      /\ \A i \in 1..Len(stream'[c]) : stream'[c][i] = stream[c][i + 1]
      /\ Len(stream[c]) \in Nat \ {0}
  BY LineTaken
<1>2. /\ thread \in [Conns -> Labels] /\ request \in [Conns -> Requests]
      /\ read[c] \in Nat /\ ConnInv(c)
      /\ UNCHANGED <<sent, sending, gone>>
  BY DEF Inv, TypeOK, Requests, clientVars
<1>3. thread' \in [Conns -> Labels] /\ thread'[c] = label
      /\ \A d \in Conns \ {c} : thread'[d] = thread[d]
  BY <1>2 DEF At, Labels, Reading
<1>4. running_threads_' = Cardinality(Counted')
  <2>1. CASE At(c, label)
    <3>1. label \in Labels /\ c \in Counted
          /\ label \notin {"none", "backlog", "refused", "accepted", "ended"}
      BY DEF Labels, Counted, Reading
    <3> QED BY <2>1, <3>1, ThreadsCounted DEF Inv
  <2>2. CASE UNCHANGED thread
    BY <2>2 DEF Inv, TypeOK, Counted
  <2> QED BY <2>1, <2>2
<1>5. request' \in [Conns -> Requests] /\ request'[c] = req
      /\ \A d \in Conns \ {c} : request'[d] = request[d]
  BY <1>2
<1>6. TypeOK'
  BY <1>1, <1>2, <1>3, <1>4, <1>5 DEF Inv, TypeOK, listenVars, Requests
<1>7. TextsTyped'
  BY <1>1, <1>2 DEF Inv, TextsTyped
<1>8. \A d \in Conns \ {c} : RowKept(d)
  BY <1>1, <1>2, <1>3, <1>5 DEF RowKept
<1>9. LinesSent(c)'
  <2>1. \A i \in 1..Len(stream'[c]) : stream'[c][i].of \in 1..Len(sent[c])
    <3>1. ASSUME NEW i \in 1..Len(stream'[c]) PROVE i + 1 \in 1..Len(stream[c])
      <4>1. Len(stream'[c]) = Len(stream[c]) - 1 /\ Len(stream[c]) \in Nat
        BY <1>1
      <4> QED BY ONLY <4>1, i \in 1..Len(stream'[c])
    <3> QED BY <1>1, <1>2, <3>1 DEF ConnInv, LinesSent
  <2> QED BY <1>2, <2>1 DEF ConnInv, LinesSent
<1>10. CountsAnswers(c)'
  BY <1>2, <1>3 DEF ConnInv, CountsAnswers, Busy, Early, Reading
<1>11. AnswersRead(c)'
  <2>1. HeardBy(c)' = HeardBy(c) /\ HeardBy(c) <= read[c] /\ HeardBy(c) \in Nat
    BY <1>2, HeardTyped DEF HeardBy, ConnInv, AnswersRead
  <2>2. read'[c] = read[c] + 1 /\ read[c] \in Nat
    BY <1>1, <1>2
  <2>3. HeardBy(c)' <= read'[c] /\ HeardBy(c)' < read'[c]
    BY ONLY <2>1, <2>2
  <2> QED BY <2>3 DEF AnswersRead
<1>12. CloseIsLast(c)'
  <2>1. ~ Ended(c)
    BY DEF Ended
  <2>2. ~ Closing(c)
    BY <1>2, <2>1 DEF ConnInv, CloseIsLast
  <2>3. ~ Closing(c)'
    BY <2>2 DEF Closing
  <2> QED BY <1>3, <1>5, <2>3 DEF CloseIsLast, Reading
<1> QED BY <1>6, <1>7, <1>8, <1>9, <1>10, <1>11, <1>12, OneRowInv DEF ConnInv

LEMMA LineSteps ==
  ASSUME Inv, NEW c \in Conns, RequestLine(c) \/ HeaderLine(c) \/ Content(c)
  PROVE  Inv'
<1> USE DEF Reading
<1>1. /\ request \in [Conns -> Requests] /\ request[c] \in Requests
      /\ \A b, e \in BOOLEAN : \A k \in 0..MaxMessages : [of |-> k, body |-> b, close |-> e] \in Requests
  BY DEF Inv, TypeOK, Requests
<1>2. stream[c] # <<>> /\ TakeLine(c) /\ thread[c] \in {"line", "headers", "content"}
      /\ UNCHANGED <<listenVars, running_threads_, count, answers, clientVars>>
  BY DEF RequestLine, HeaderLine, Content
<1>3. Head(stream[c]).of \in 0..MaxMessages
  BY <1>2, LineTaken
<1>4. CASE RequestLine(c)
  <2> DEFINE line == Head(stream[c])
  <2>1. CASE line.kind \in {"get", "post"}
    <3>1. /\ request' = [request EXCEPT ![c] =
               [of |-> line.of, body |-> line.kind = "post", close |-> FALSE]]
          /\ At(c, "headers")
      BY <1>4, <2>1 DEF RequestLine
    <3>2. [of |-> line.of, body |-> line.kind = "post", close |-> FALSE] \in Requests
      BY <1>1, <1>3
    <3> QED BY <1>2, <3>1, <3>2, LineMoves
  <2>2. CASE line.kind \notin {"get", "post"}
    <3>1. /\ request' = [request EXCEPT ![c] = [of |-> line.of, body |-> FALSE, close |-> FALSE]]
          /\ At(c, "bad request")
      BY <1>4, <2>2 DEF RequestLine, NoRequest
    <3>2. [of |-> line.of, body |-> FALSE, close |-> FALSE] \in Requests
      BY <1>1, <1>3
    <3> QED BY <1>2, <3>1, <3>2, LineMoves
  <2> QED BY <2>1, <2>2
<1>5. CASE HeaderLine(c)
  <2>1. PICK req \in Requests : request' = [request EXCEPT ![c] = req]
    <3>1. [request[c] EXCEPT !.close = @ \/ Head(stream[c]).kind = "close"] \in Requests
      BY <1>1 DEF Requests
    <3> QED BY <1>5, <3>1 DEF HeaderLine
  <2>2. thread[c] = "headers" /\ (UNCHANGED thread \/ At(c, "content") \/ At(c, "respond"))
    BY <1>5 DEF HeaderLine
  <2>3. CASE UNCHANGED thread
    BY <1>2, <2>1, <2>2, <2>3, LineMoves
  <2>4. CASE At(c, "content")
    BY <1>2, <2>1, <2>2, <2>4, LineMoves
  <2>5. CASE At(c, "respond")
    BY <1>2, <2>1, <2>2, <2>5, LineMoves
  <2> QED BY <2>2, <2>3, <2>4, <2>5
<1>6. CASE Content(c)
  <2>1. request' = [request EXCEPT ![c] = request[c]] /\ At(c, "respond")
    BY <1>1, <1>6 DEF Content
  <2> QED BY <1>1, <1>2, <2>1, LineMoves
<1> QED BY <1>4, <1>5, <1>6

(* The answer: to a line that no other answer was for, before any that     *)
(* says close, and itself saying so when it is the last.                   *)
LEMMA AnswerGiven ==
  ASSUME Inv, NEW c \in Conns, WriteResponse(c)
  PROVE  \E ans \in Answer :
           /\ answers' = [answers EXCEPT ![c] = Append(@, ans)]
           /\ ans.to = request[c].of /\ ans.at = read[c]
           /\ ans.close = (LastConnection(c) \/ request[c].close)
           /\ answers'[c] # <<>> /\ Len(answers'[c]) = Len(answers[c]) + 1
           /\ answers'[c] \in Seq(Answer)
           /\ answers'[c][Len(answers'[c])] = ans
           /\ \A i \in 1..Len(answers[c]) : answers'[c][i] = answers[c][i]
<1> DEFINE ans == [to |-> request[c].of, at |-> read[c],
                   close |-> LastConnection(c) \/ request[c].close]
<1>1. /\ request[c] \in Requests /\ read[c] \in Nat
      /\ answers \in [Conns -> Seq(Answer)] /\ answers[c] \in Seq(Answer)
      /\ Len(answers[c]) \in Nat
  BY HeardTyped DEF Inv, TypeOK, TextsTyped, Requests
<1>2. ans \in Answer
  BY <1>1 DEF Requests, Answer, LastConnection
<1>3. answers' = [answers EXCEPT ![c] = Append(@, ans)]
  BY DEF WriteResponse
<1>4. ans.to = request[c].of /\ ans.at = read[c]
      /\ ans.close = (LastConnection(c) \/ request[c].close)
  OBVIOUS
<1> HIDE DEF ans
<1>5. answers'[c] = Append(answers[c], ans)
  BY <1>1, <1>3
<1>6. /\ Append(answers[c], ans) \in Seq(Answer)
      /\ Append(answers[c], ans) # <<>>
      /\ Len(Append(answers[c], ans)) = Len(answers[c]) + 1
      /\ \A i \in 1..Len(answers[c]) : Append(answers[c], ans)[i] = answers[c][i]
      /\ Append(answers[c], ans)[Len(answers[c]) + 1] = ans
  BY <1>1, <1>2, AppendProperties
<1> QED BY <1>2, <1>3, <1>4, <1>5, <1>6

LEMMA WriteResponseInv ==
  ASSUME Inv, NEW c \in Conns, WriteResponse(c)
  PROVE  Inv'
<1>1. PICK ans \in Answer :
        /\ answers' = [answers EXCEPT ![c] = Append(@, ans)]
        /\ ans.at = read[c]
        /\ ans.close = (LastConnection(c) \/ request[c].close)
        /\ answers'[c] # <<>> /\ Len(answers'[c]) = Len(answers[c]) + 1
        /\ answers'[c] \in Seq(Answer)
        /\ answers'[c][Len(answers'[c])] = ans
  BY AnswerGiven
<1>2. /\ thread \in [Conns -> Labels] /\ request \in [Conns -> Requests]
      /\ count \in [Conns -> 0..KeepAliveMax] /\ answers \in [Conns -> Seq(Answer)]
      /\ ConnInv(c)
  BY DEF Inv, TypeOK, TextsTyped, Requests
<1>3. /\ KeepAliveMax \in Nat /\ count[c] \in 0..KeepAliveMax
      /\ Len(answers[c]) \in Nat
      /\ Len(answers[c]) + count[c] = KeepAliveMax /\ count[c] >= 1
      /\ thread[c] \in {"respond", "bad request"}
  BY <1>2, HttpServerAssumption, HeardTyped DEF WriteResponse, ConnInv, CountsAnswers, Busy
<1>4. count[c] \in Nat \ {0} /\ count[c] - 1 \in 0..KeepAliveMax
  <2>1. KeepAliveMax \in Nat /\ count[c] \in 0..KeepAliveMax /\ count[c] >= 1
    BY <1>3
  <2> QED BY ONLY <2>1
<1>5. /\ UNCHANGED <<listenVars, running_threads_, read, stream, sent, sending, gone>>
      /\ request' = [request EXCEPT ![c] = NoRequest]
  BY DEF WriteResponse, clientVars
<1>6. NoRequest \in Requests
  BY HttpServerAssumption DEF NoRequest, Requests
<1>7. \E label \in {"close", "select"} :
        /\ At(c, label) /\ thread' \in [Conns -> Labels] /\ thread'[c] = label
        /\ \A d \in Conns \ {c} : thread'[d] = thread[d]
  <2>1. \E label \in {"close", "select"} : At(c, label)
    BY DEF WriteResponse
  <2> QED BY <1>2, <2>1 DEF At, Labels
<1>8. /\ count' \in [Conns -> 0..KeepAliveMax]
      /\ \A d \in Conns \ {c} : count'[d] = count[d]
  BY <1>2, <1>4 DEF WriteResponse
<1>9. running_threads_' = Cardinality(Counted')
  <2>1. c \in Counted
    BY <1>3 DEF Counted
  <2>2. PICK label \in {"close", "select"} : At(c, label)
    BY <1>7
  <2>3. label \in Labels /\ label \notin {"none", "backlog", "refused", "accepted", "ended"}
    BY DEF Labels
  <2>4. TypeOK /\ UNCHANGED running_threads_
    BY <1>5 DEF Inv
  <2> QED BY <2>1, <2>2, <2>3, <2>4, ThreadsCounted
<1>10. request' \in [Conns -> Requests] /\ \A d \in Conns \ {c} : request'[d] = request[d]
  BY <1>2, <1>5, <1>6
<1>11. answers' \in [Conns -> Seq(Answer)] /\ \A d \in Conns \ {c} : answers'[d] = answers[d]
  BY <1>1, <1>2
<1>12. TypeOK'
  BY <1>5, <1>7, <1>8, <1>9, <1>10 DEF Inv, TypeOK, listenVars, Requests
<1>13. TextsTyped'
  BY <1>5, <1>11 DEF Inv, TextsTyped
<1>14. \A d \in Conns \ {c} : RowKept(d)
  BY <1>5, <1>7, <1>8, <1>10, <1>11 DEF RowKept
<1>15. LinesSent(c)'
  BY <1>2, <1>5 DEF ConnInv, LinesSent
<1>16. ASSUME thread[c] = "respond" /\ request[c].close
       PROVE  CountsAnswers(c)' /\ CloseIsLast(c)'
  <2>1. thread'[c] = "close"
    BY <1>2, <1>16 DEF WriteResponse, At
  <2>2. CountsAnswers(c)'
    BY <2>1 DEF CountsAnswers, Busy, Early
  <2>3. CloseIsLast(c)'
    BY <2>1 DEF CloseIsLast
  <2> QED BY <2>1, <2>2, <2>3
<1>17. ASSUME ~ (thread[c] = "respond" /\ request[c].close)
       PROVE  CountsAnswers(c)' /\ CloseIsLast(c)'
  <2>1. thread'[c] = "select" /\ count'[c] = count[c] - 1
    BY <1>2, <1>17 DEF WriteResponse, At
  <2>2. Len(answers'[c]) + count'[c] = KeepAliveMax
    <3>1. /\ Len(answers'[c]) = Len(answers[c]) + 1 /\ Len(answers[c]) \in Nat
          /\ count'[c] = count[c] - 1 /\ count[c] \in Nat
          /\ Len(answers[c]) + count[c] = KeepAliveMax
      BY <1>1, <1>3, <1>4, <2>1
    <3> QED BY ONLY <3>1
  <2>3. CountsAnswers(c)'
    BY <2>1, <2>2 DEF CountsAnswers, Busy, Early
  <2>4. CASE LastConnection(c)
    <3>1. count[c] = 1 /\ ans.close
      BY <1>1, <2>4 DEF LastConnection
    <3>2. Closing(c)'
      BY <1>1, <3>1 DEF Closing
    <3>3. count'[c] = 0
      BY ONLY <2>1, <3>1
    <3> QED BY <2>1, <2>3, <3>2, <3>3 DEF CloseIsLast
  <2>5. CASE ~ LastConnection(c)
    <3>1. count[c] # 1
      BY <2>5 DEF LastConnection
    <3>2. count'[c] # 0
      BY ONLY <1>4, <2>1, <3>1
    <3>3. Closing(c)' => thread[c] = "bad request" /\ request[c].close
      BY <1>1, <1>3, <1>17, <2>5 DEF Closing
    <3>4. Closing(c)' => Ended(c)'
      BY <1>2, <1>5, <3>3 DEF ConnInv, CloseIsLast, Ended
    <3> QED BY <2>1, <2>3, <3>2, <3>4 DEF CloseIsLast
  <2> QED BY <2>4, <2>5
<1>18. AnswersRead(c)'
  <2>1. HeardBy(c)' = read[c] /\ read'[c] = read[c] /\ read[c] \in Nat
    BY <1>1, <1>5 DEF HeardBy, Inv, TypeOK
  <2>2. HeardBy(c)' <= read'[c]
    BY ONLY <2>1
  <2>3. thread'[c] \notin Reading
    BY <1>7 DEF Reading
  <2> QED BY <2>2, <2>3 DEF AnswersRead
<1>19. CountsAnswers(c)' /\ CloseIsLast(c)'
  BY <1>16, <1>17
<1> QED BY <1>12, <1>13, <1>14, <1>15, <1>18, <1>19, OneRowInv DEF ConnInv

(* A line, or part of one, arrives on a connection that is open, or the    *)
(* client begins a message, or leaves.                                     *)
LEMMA ClientMoves ==
  ASSUME Inv, NEW c \in Conns, ~ gone[c],
         UNCHANGED <<listenVars, threadVars>>,
         TextsTyped', gone' \in [Conns -> BOOLEAN], LinesSent(c)',
         \A d \in Conns \ {c} :
           /\ stream'[d] = stream[d] /\ sent'[d] = sent[d]
           /\ sending'[d] = sending[d] /\ gone'[d] = gone[d]
  PROVE  Inv'
<1>1. UNCHANGED <<running_threads_, thread, count, request, read, answers>> /\ ConnInv(c)
  BY DEF threadVars, Inv
<1>2. TypeOK'
  BY <1>1 DEF Inv, TypeOK, listenVars, Counted
<1>3. \A d \in Conns \ {c} : RowKept(d)
  BY <1>1 DEF RowKept
<1>4. CountsAnswers(c)'
  BY <1>1 DEF ConnInv, CountsAnswers
<1>5. AnswersRead(c)'
  BY <1>1 DEF ConnInv, AnswersRead, HeardBy
<1>6. CloseIsLast(c)'
  BY <1>1 DEF ConnInv, CloseIsLast, Closing, Ended
<1> QED BY <1>2, <1>3, <1>4, <1>5, <1>6, OneRowInv DEF ConnInv

(* What arrives is appended.                                               *)
LEMMA LineArrives ==
  ASSUME Inv, NEW c \in Conns, sent[c] # <<>>, NEW kind \in Kinds,
         stream' = [stream EXCEPT ![c] = Append(@, [kind |-> kind, of |-> Len(sent[c])])]
  PROVE  /\ stream' \in [Conns -> Seq([kind : Kinds, of : Nat])]
         /\ \A d \in Conns \ {c} : stream'[d] = stream[d]
         /\ \A i \in 1..Len(stream'[c]) : stream'[c][i].of \in 1..Len(sent[c])
         /\ Len(stream[c]) \in Nat /\ Len(stream'[c]) = Len(stream[c]) + 1
         /\ \A i \in 1..Len(stream[c]) : stream'[c][i] = stream[c][i]
         /\ stream'[c][Len(stream[c]) + 1] = [kind |-> kind, of |-> Len(sent[c])]
         /\ Len(sent[c]) \in Nat \ {0}
<1> DEFINE S == [kind : Kinds, of : Nat]
           line == [kind |-> kind, of |-> Len(sent[c])]
<1>1. /\ stream \in [Conns -> Seq(S)] /\ stream[c] \in Seq(S)
      /\ sent[c] \in Seq(Seq(Kinds))
      /\ \A i \in 1..Len(stream[c]) : stream[c][i].of \in 1..Len(sent[c])
  BY DEF Inv, TextsTyped, ConnInv, LinesSent
<1>2. Len(sent[c]) \in Nat \ {0}
  BY <1>1, EmptySeq, LenProperties
<1>3. line \in S /\ line.of = Len(sent[c])
  BY <1>2
<1>4. line = [kind |-> kind, of |-> Len(sent[c])]
  OBVIOUS
<1> HIDE DEF line, S
<1>5. /\ stream' \in [Conns -> Seq(S)]
      /\ stream'[c] = Append(stream[c], line)
      /\ \A d \in Conns \ {c} : stream'[d] = stream[d]
  <2>1. Append(stream[c], line) \in Seq(S)
    BY <1>1, <1>3, AppendProperties
  <2> QED BY <1>1, <1>4, <2>1
<1>6. /\ Len(stream'[c]) = Len(stream[c]) + 1 /\ Len(stream[c]) \in Nat
      /\ \A i \in 1..Len(stream[c]) : stream'[c][i] = stream[c][i]
      /\ stream'[c][Len(stream[c]) + 1] = line
  BY <1>1, <1>3, <1>5, AppendProperties, LenProperties
<1>7. ASSUME NEW i \in 1..Len(stream'[c])
      PROVE  stream'[c][i].of \in 1..Len(sent[c])
  <2>1. i \in 1..Len(stream[c]) \/ i = Len(stream[c]) + 1
    <3>1. Len(stream'[c]) = Len(stream[c]) + 1 /\ Len(stream[c]) \in Nat
      BY <1>6
    <3> QED BY ONLY <3>1, i \in 1..Len(stream'[c])
  <2>2. Len(sent[c]) \in 1..Len(sent[c])
    BY ONLY <1>2
  <2> QED BY <1>1, <1>3, <1>6, <2>1, <2>2
<1> QED BY <1>2, <1>4, <1>5, <1>6, <1>7 DEF S

LEMMA BeginInv ==
  ASSUME Inv, NEW c \in Conns, NEW m \in Messages[c], Begin(c, m)
  PROVE  Inv'
<1>1. /\ ~ gone[c] /\ Len(sent[c]) < MaxMessages
      /\ UNCHANGED <<listenVars, threadVars, stream, gone>>
      /\ sent' = [sent EXCEPT ![c] = Append(sent[c], m)]
      /\ sending' = [sending EXCEPT ![c] = m]
  BY DEF Begin, Connected
<1>2. /\ TextsTyped /\ LinesSent(c) /\ m \in Seq(Kinds)
      /\ sent \in [Conns -> Seq(Seq(Kinds))] /\ sending \in [Conns -> Seq(Kinds)]
      /\ sent[c] \in Seq(Seq(Kinds)) /\ MaxMessages \in Nat
      /\ gone \in [Conns -> BOOLEAN]
  BY HttpServerAssumption DEF Inv, ConnInv, TextsTyped, TypeOK, Kinds
<1>3. /\ Append(sent[c], m) \in Seq(Seq(Kinds)) /\ Append(sent[c], m) # <<>>
      /\ Len(Append(sent[c], m)) = Len(sent[c]) + 1 /\ Len(sent[c]) \in Nat
  <2> DEFINE M == Seq(Kinds)
  <2>1. sent[c] \in Seq(M) /\ m \in M
    BY <1>2
  <2> HIDE DEF M
  <2>2. /\ Append(sent[c], m) \in Seq(M) /\ Append(sent[c], m) # <<>>
        /\ Len(Append(sent[c], m)) = Len(sent[c]) + 1 /\ Len(sent[c]) \in Nat
    BY <2>1, AppendProperties, LenProperties
  <2> QED BY <2>2 DEF M
<1>4. TextsTyped'
  BY <1>1, <1>2, <1>3 DEF TextsTyped, threadVars
<1>5. LinesSent(c)'
  <2>1. Len(sent'[c]) = Len(sent[c]) + 1 /\ sent'[c] # <<>>
    BY <1>1, <1>2, <1>3
  <2>2. Len(sent'[c]) <= MaxMessages
    BY ONLY <1>1, <1>2, <1>3, <2>1
  <2>3. ASSUME NEW i \in 1..Len(stream[c]) PROVE stream[c][i].of \in 1..Len(sent'[c])
    <3>1. stream[c][i].of \in 1..Len(sent[c])
      BY <1>2 DEF LinesSent
    <3> QED BY ONLY <1>3, <2>1, <3>1
  <2> QED BY <1>1, <2>1, <2>2, <2>3 DEF LinesSent
<1>6. \A d \in Conns \ {c} : sent'[d] = sent[d] /\ sending'[d] = sending[d]
  BY <1>1, <1>2
<1> QED BY <1>1, <1>2, <1>4, <1>5, <1>6, ClientMoves

LEMMA ArriveInv ==
  ASSUME Inv, NEW c \in Conns, Arrive(c)
  PROVE  Inv'
<1>1. /\ ~ gone[c] /\ sending[c] # <<>>
      /\ UNCHANGED <<listenVars, threadVars, sent, gone>>
      /\ sending' = [sending EXCEPT ![c] = Tail(sending[c])]
  BY DEF Arrive, Connected
<1>2. /\ TextsTyped /\ LinesSent(c) /\ sending[c] \in Seq(Kinds)
      /\ sending \in [Conns -> Seq(Kinds)] /\ gone \in [Conns -> BOOLEAN]
  BY DEF Inv, ConnInv, TextsTyped, TypeOK
<1>3. Head(sending[c]) \in Kinds /\ Tail(sending[c]) \in Seq(Kinds)
  BY <1>1, <1>2, HeadTailProperties
<1>4. sent[c] # <<>>
  BY <1>1, <1>2 DEF LinesSent
<1>5. /\ stream' \in [Conns -> Seq([kind : Kinds, of : Nat])]
      /\ \A d \in Conns \ {c} : stream'[d] = stream[d]
      /\ \A i \in 1..Len(stream'[c]) : stream'[c][i].of \in 1..Len(sent[c])
  BY <1>3, <1>4, LineArrives DEF Arrive
<1>6. TextsTyped'
  BY <1>1, <1>2, <1>3, <1>5 DEF TextsTyped, threadVars
<1>7. LinesSent(c)'
  BY <1>1, <1>2, <1>4, <1>5 DEF LinesSent
<1>8. \A d \in Conns \ {c} : sending'[d] = sending[d]
  BY <1>1, <1>2
<1> QED BY <1>1, <1>2, <1>5, <1>6, <1>7, <1>8, ClientMoves

LEMMA LeaveInv ==
  ASSUME Inv, NEW c \in Conns, Leave(c)
  PROVE  Inv'
<1>1. /\ ~ gone[c] /\ gone' = [gone EXCEPT ![c] = TRUE]
      /\ UNCHANGED <<listenVars, threadVars, sent, sending>>
  BY DEF Leave, Connected
<1>2. TextsTyped /\ LinesSent(c) /\ gone \in [Conns -> BOOLEAN]
  BY DEF Inv, ConnInv, TypeOK
<1>3. /\ stream' \in [Conns -> Seq([kind : Kinds, of : Nat])]
      /\ \A d \in Conns \ {c} : stream'[d] = stream[d]
      /\ \A i \in 1..Len(stream'[c]) : stream'[c][i].of \in 1..Len(sent[c])
  <2>1. CASE UNCHANGED stream
    BY <1>2, <2>1 DEF TextsTyped, LinesSent
  <2>2. CASE /\ sending[c] # <<>>
             /\ stream' = [stream EXCEPT ![c] = Append(@, [kind |-> "junk", of |-> Len(sent[c])])]
    <3>1. sent[c] # <<>> /\ "junk" \in Kinds
      BY <1>2, <2>2 DEF LinesSent, Kinds
    <3> QED BY <2>2, <3>1, LineArrives
  <2> QED BY <2>1, <2>2 DEF Leave
<1>4. TextsTyped'
  BY <1>1, <1>2, <1>3 DEF TextsTyped, threadVars
<1>5. LinesSent(c)'
  BY <1>1, <1>2, <1>3 DEF LinesSent
<1>6. gone' \in [Conns -> BOOLEAN] /\ \A d \in Conns \ {c} : gone'[d] = gone[d]
  BY <1>1, <1>2
<1> QED BY <1>1, <1>3, <1>4, <1>5, <1>6, ClientMoves

-----------------------------------------------------------------------------
(* listen() and stop().                                                    *)

(* Neither touches a connection, but for those that wait for accept.       *)
LEMMA ListenMoves ==
  ASSUME Inv,
         UNCHANGED <<count, request, read, answers, stream, clientVars>>,
         listening' \in {"unbound", "bound", "select", "accept", "failed", "drain", "returned"},
         svr_sock_' \in {"socket", "INVALID"},
         accepting' \in BOOLEAN, is_running_' \in BOOLEAN,
         stopping' \in {"no", "closing", "stopped"},
         thread' \in [Conns -> Labels],
         running_threads_' = Cardinality(Counted'),
         \A c \in Conns : \/ thread'[c] = thread[c]
                          \/ thread[c] = "backlog" /\ thread'[c] \in {"accepted", "refused"}
  PROVE  Inv'
<1>1. UNCHANGED <<sent, sending, gone>>
  BY DEF clientVars
<1>2. TypeOK' /\ TextsTyped'
  BY <1>1 DEF Inv, TypeOK, TextsTyped
<1>3. ASSUME NEW c \in Conns PROVE ConnInv(c)'
  <2>1. CASE thread'[c] = thread[c]
    BY <1>1, <2>1, RowKeptInv DEF RowKept, Inv
  <2>2. CASE thread[c] = "backlog" /\ thread'[c] \in {"accepted", "refused"}
    <3>1. ConnInv(c)
      BY DEF Inv
    <3>2. LinesSent(c)'
      BY <1>1, <3>1 DEF ConnInv, LinesSent
    <3>3. CountsAnswers(c)' /\ answers[c] = <<>>
      BY <2>2, <3>1 DEF ConnInv, CountsAnswers, Busy, Early
    <3>4. AnswersRead(c)'
      BY <2>2, <3>1 DEF ConnInv, AnswersRead, HeardBy, Reading
    <3>5. CloseIsLast(c)'
      BY <2>2, <3>3 DEF CloseIsLast, Closing
    <3> QED BY <3>2, <3>3, <3>4, <3>5 DEF ConnInv
  <2> QED BY <2>1, <2>2
<1> QED BY <1>2, <1>3 DEF Inv

LEMMA ListenerInv ==
  ASSUME Inv, Listener \/ Stop \/ StopCloses
  PROVE  Inv'
<1>1. /\ TypeOK /\ thread \in [Conns -> Labels] /\ running_threads_ = Cardinality(Counted)
      /\ listening \in {"unbound", "bound", "select", "accept", "failed", "drain", "returned"}
      /\ svr_sock_ \in {"socket", "INVALID"}
      /\ accepting \in BOOLEAN /\ is_running_ \in BOOLEAN
      /\ stopping \in {"no", "closing", "stopped"}
  BY DEF Inv, TypeOK
<1>2. UNCHANGED thread => UNCHANGED Counted
  BY DEF Counted
<1>3. ASSUME UNCHANGED threadVars
      PROVE  /\ UNCHANGED <<count, request, read, answers>>
             /\ thread' \in [Conns -> Labels] /\ thread' = thread
             /\ running_threads_' = Cardinality(Counted')
  BY <1>1, <1>2, <1>3 DEF threadVars
<1>4. ASSUME Reset, UNCHANGED running_threads_
      PROVE  /\ thread' \in [Conns -> Labels]
             /\ running_threads_' = Cardinality(Counted')
             /\ \A c \in Conns : \/ thread'[c] = thread[c]
                                 \/ thread[c] = "backlog" /\ thread'[c] \in {"accepted", "refused"}
  <2>1. thread' \in [Conns -> Labels] /\ Cardinality(Counted') = Cardinality(Counted)
    BY <1>1, <1>4, ResetCounted
  <2>2. \A c \in Conns : \/ thread'[c] = thread[c]
                         \/ thread[c] = "backlog" /\ thread'[c] \in {"accepted", "refused"}
    BY <1>4 DEF Reset, Backlog
  <2> QED BY <1>1, <1>4, <2>1, <2>2
<1>5. CASE Bind
  BY <1>1, <1>3, <1>5, ListenMoves DEF Bind
<1>6. CASE ListenInternal
  BY <1>1, <1>3, <1>6, ListenMoves DEF ListenInternal
<1>7. CASE ListenTimeout
  BY <1>1, <1>3, <1>7, ListenMoves DEF ListenTimeout
<1>8. CASE ListenSelects
  BY <1>1, <1>3, <1>8, ListenMoves DEF ListenSelects
<1>9. CASE \E c \in Conns : Accept(c)
  <2>1. PICK c \in Conns : Accept(c)
    BY <1>9
  <2>2. thread[c] = "backlog" /\ At(c, "accepted")
    BY <2>1 DEF Accept, Backlog, At
  <2>3. UNCHANGED <<running_threads_, count, request, read, answers, stream, clientVars,
                    svr_sock_, accepting, is_running_, stopping>> /\ listening' = "select"
    BY <2>1 DEF Accept
  <2>4. running_threads_' = Cardinality(Counted') /\ thread' \in [Conns -> Labels]
    <3>1. "accepted" \in Labels /\ c \notin Counted
      BY <2>2 DEF Labels, Counted
    <3> QED BY <1>1, <2>2, <2>3, <3>1, ThreadsCounted
  <2>5. \A d \in Conns : \/ thread'[d] = thread[d]
                         \/ thread[d] = "backlog" /\ thread'[d] \in {"accepted", "refused"}
    BY <1>1, <2>2 DEF At
  <2> QED BY <1>1, <2>3, <2>4, <2>5, ListenMoves
<1>10. CASE AcceptFails
  BY <1>1, <1>3, <1>10, ListenMoves DEF AcceptFails
<1>11. CASE ListenLeavesLoop
  <2>1. CASE svr_sock_ = "socket"
    BY <1>1, <1>4, <1>11, <2>1, ListenMoves DEF ListenLeavesLoop
  <2>2. CASE svr_sock_ # "socket"
    <3>1. UNCHANGED threadVars /\ UNCHANGED <<accepting, svr_sock_, is_running_, stopping, stream, clientVars>>
          /\ listening' = "drain"
      BY <1>11, <2>2 DEF ListenLeavesLoop, threadVars
    <3> QED BY <1>1, <1>3, <3>1, ListenMoves
  <2> QED BY <2>1, <2>2
<1>12. CASE ListenReturns
  BY <1>1, <1>3, <1>12, ListenMoves DEF ListenReturns
<1>13. CASE Stop
  BY <1>1, <1>3, <1>13, ListenMoves DEF Stop
<1>14. CASE StopCloses
  BY <1>1, <1>4, <1>14, ListenMoves DEF StopCloses
<1> QED BY <1>5, <1>6, <1>7, <1>8, <1>9, <1>10, <1>11, <1>12, <1>13, <1>14 DEF Listener

-----------------------------------------------------------------------------
LEMMA InitInv == Init => Inv
<1> SUFFICES ASSUME Init PROVE Inv
  OBVIOUS
<1>1. KeepAliveMax \in Nat \ {0} /\ MaxMessages \in Nat
  BY HttpServerAssumption
<1>2. TypeOK
  <2>1. Counted = {}
    BY DEF Init, Counted
  <2>2. Cardinality(Counted) = 0
    BY <2>1, FS_EmptySet
  <2>3. 0 \in 0..KeepAliveMax /\ 0 \in 0..MaxMessages
    BY ONLY <1>1
  <2>4. /\ thread \in [Conns -> Labels] /\ count \in [Conns -> 0..KeepAliveMax]
        /\ read \in [Conns -> Nat] /\ gone \in [Conns -> BOOLEAN]
        /\ request \in [Conns -> [of : 0..MaxMessages, body : BOOLEAN, close : BOOLEAN]]
    BY <2>3 DEF Init, Labels, NoRequest
  <2> QED BY <2>2, <2>4 DEF Init, TypeOK
<1>3. TextsTyped
  BY DEF Init, TextsTyped
<1>4. ASSUME NEW c \in Conns PROVE ConnInv(c)
  <2>1. /\ thread[c] = "none" /\ stream[c] = <<>> /\ read[c] = 0 /\ answers[c] = <<>>
        /\ sent[c] = <<>> /\ sending[c] = <<>>
    BY DEF Init
  <2>2. LinesSent(c)
    BY <1>1, <2>1 DEF LinesSent
  <2>3. CountsAnswers(c)
    BY <2>1 DEF CountsAnswers, Busy
  <2>4. AnswersRead(c)
    BY <2>1 DEF AnswersRead, HeardBy, Reading
  <2>5. CloseIsLast(c)
    BY <2>1 DEF CloseIsLast, Closing
  <2> QED BY <2>2, <2>3, <2>4, <2>5 DEF ConnInv
<1> QED BY <1>2, <1>3, <1>4 DEF Inv

LEMMA NextInv == Inv /\ [Next]_vars => Inv'
<1> SUFFICES ASSUME Inv, [Next]_vars PROVE Inv'
  OBVIOUS
<1>1. CASE Listener \/ Stop \/ StopCloses
  BY <1>1, ListenerInv
<1>2. ASSUME NEW c \in Conns, Serve(c) PROVE Inv'
  BY <1>2, ThreadCountsInv, LabelSteps, LineSteps, WriteResponseInv DEF Serve
<1>3. ASSUME NEW c \in Conns, ClientStep(c) PROVE Inv'
  BY <1>3, LabelSteps, BeginInv, ArriveInv, LeaveInv DEF ClientStep
<1>4. CASE UNCHANGED vars
  <2>1. UNCHANGED <<listenVars, count, request, read, answers, stream, clientVars,
                    thread, running_threads_>>
    BY <1>4 DEF vars, threadVars
  <2>2. TypeOK' /\ TextsTyped'
    BY <2>1 DEF Inv, TypeOK, TextsTyped, Counted, listenVars, clientVars
  <2>3. ASSUME NEW c \in Conns PROVE ConnInv(c)'
    BY <2>1, RowKeptInv DEF Inv, RowKept, clientVars
  <2> QED BY <2>2, <2>3 DEF Inv
<1> QED BY <1>1, <1>2, <1>3, <1>4 DEF Next

LEMMA SpecInv == Spec => []Inv
<1>1. Init => Inv
  BY InitInv
<1>2. Inv /\ [Next]_vars => Inv'
  BY NextInv
<1> QED BY <1>1, <1>2, PTL DEF Spec

(* The types, and running_threads_ as the number of threads between their  *)
(* two turns at the mutex (thread and Server::close in httplib).           *)
THEOREM HttpServerTypeOK == Spec => []TypeOK
<1>1. Inv => TypeOK
  BY DEF Inv
<1> QED BY <1>1, SpecInv, PTL

(* Who has the listening socket: without it nobody waits in its queue, and *)
(* listen() leaves one open only to a stop() that has begun.               *)
SocketInv ==
  /\ ~ accepting => Backlog = {}
  /\ listening = "unbound" => ~ accepting
  /\ accepting /\ svr_sock_ = "INVALID" => stopping = "closing"
  /\ accepting /\ listening \in {"drain", "returned"} => stopping = "closing"

(* A reset empties the queue, and no thread goes back to it.               *)
LEMMA Queue ==
  ASSUME thread \in [Conns -> Labels]
  PROVE  /\ UNCHANGED thread => Backlog' = Backlog
         /\ Reset => Backlog' = {}
         /\ \A c \in Conns : \A label : label # "backlog" /\ At(c, label) => Backlog' \subseteq Backlog
<1>1. UNCHANGED thread => Backlog' = Backlog
  BY DEF Backlog
<1>2. Reset => Backlog' = {}
  BY DEF Reset, Backlog
<1>3. ASSUME NEW c \in Conns, NEW label, label # "backlog", At(c, label)
      PROVE  Backlog' \subseteq Backlog
  BY <1>3 DEF At, Backlog
<1> QED BY <1>1, <1>2, <1>3

LEMMA SocketStep ==
  ASSUME Inv, SocketInv, [Next]_vars
  PROVE  SocketInv'
<1>1. thread \in [Conns -> Labels] /\ svr_sock_ \in {"socket", "INVALID"}
  BY DEF Inv, TypeOK
<1>2. CASE UNCHANGED vars
  BY <1>1, <1>2, Queue DEF vars, listenVars, threadVars, SocketInv
<1>3. CASE Listener
  <2>1. CASE Bind
    BY <1>1, <2>1, Queue DEF Bind, SocketInv, threadVars
  <2>2. CASE ListenInternal \/ ListenTimeout \/ ListenSelects \/ AcceptFails \/ ListenReturns
    BY <1>1, <2>2, Queue DEF ListenInternal, ListenTimeout, ListenSelects, AcceptFails,
         ListenReturns, SocketInv, threadVars
  <2>3. CASE \E c \in Conns : Accept(c)
    <3>1. PICK c \in Conns : Accept(c)
      BY <2>3
    <3>2. At(c, "accepted")
      BY <3>1 DEF Accept, At
    <3>3. Backlog' \subseteq Backlog
      BY <1>1, <3>2, Queue
    <3> QED BY <3>1, <3>3 DEF Accept, SocketInv
  <2>4. CASE ListenLeavesLoop
    <3>1. CASE svr_sock_ = "socket"
      BY <1>1, <2>4, <3>1, Queue DEF ListenLeavesLoop, SocketInv
    <3>2. CASE svr_sock_ # "socket"
      BY <1>1, <2>4, <3>2, Queue DEF ListenLeavesLoop, SocketInv
    <3> QED BY <3>1, <3>2
  <2> QED BY <1>3, <2>1, <2>2, <2>3, <2>4 DEF Listener
<1>4. CASE Stop
  BY <1>1, <1>4, Queue DEF Stop, SocketInv, threadVars
<1>5. CASE StopCloses
  BY <1>1, <1>5, Queue DEF StopCloses, SocketInv
<1>6. ASSUME NEW c \in Conns, Serve(c) \/ ClientStep(c)
      PROVE  SocketInv'
  <2>1. UNCHANGED listenVars
    BY <1>6 DEF Serve, ThreadCounts, KeepAliveSelects, KeepAliveTimeout, KeepAliveUsedUp,
         RequestEnds, RequestLine, HeaderLine, Content, RequestTruncated, WriteResponse,
         CloseSocket, ThreadEnds, ClientStep, Connect, Begin, Arrive, Leave
  <2>2. accepting \/ Backlog' \subseteq Backlog
    <3>1. CASE Serve(c)
      <4>1. UNCHANGED thread \/ \E label : label # "backlog" /\ At(c, label)
        BY <3>1 DEF Serve, ThreadCounts, KeepAliveSelects, KeepAliveTimeout, KeepAliveUsedUp,
             RequestEnds, RequestLine, HeaderLine, Content, RequestTruncated, WriteResponse,
             CloseSocket, ThreadEnds
      <4> QED BY <1>1, <4>1, Queue
    <3>2. CASE ClientStep(c)
      <4>1. accepting \/ UNCHANGED thread
        BY <3>2 DEF ClientStep, Connect, Begin, Arrive, Leave, threadVars
      <4> QED BY <1>1, <4>1, Queue
    <3> QED BY <1>6, <3>1, <3>2
  <2> QED BY <2>1, <2>2 DEF listenVars, SocketInv
<1> QED BY <1>2, <1>3, <1>4, <1>5, <1>6 DEF Next

(* Once listen() has returned, and a stop() that had begun with it, there  *)
(* is no listening socket, and no client waits in its queue.               *)
THEOREM ListenerIsClosed == Spec => []ListenerClosed
<1>1. Init => SocketInv
  BY DEF Init, SocketInv, Backlog
<1>2. Inv /\ SocketInv /\ [Next]_vars => SocketInv'
  BY SocketStep
<1>3. SocketInv => ListenerClosed
  BY DEF SocketInv, ListenerClosed
<1> QED BY <1>1, <1>2, <1>3, SpecInv, PTL DEF Spec

(* The step of which connection, and of which kind, it is.                 *)
LEMMA ClosingSteps ==
  ASSUME Inv, [Next]_vars, NEW c \in Conns, thread[c] # "close", thread'[c] = "close"
  PROVE  KeepAliveTimeout(c) \/ KeepAliveUsedUp(c) \/ RequestEnds(c) \/ WriteResponse(c)
<1>1. thread \in [Conns -> Labels]
  BY DEF Inv, TypeOK
<1>2. ~ UNCHANGED thread
  OBVIOUS
<1>3. ~ UNCHANGED vars /\ ~ Stop
  BY <1>2 DEF vars, threadVars, Stop
<1>4. ~ Reset
  BY <1>1 DEF Reset
<1>5. ~ Listener /\ ~ StopCloses
  <2>1. ASSUME NEW d \in Conns, Accept(d) PROVE FALSE
    BY <1>1, <2>1 DEF Accept
  <2> QED BY <1>2, <1>4, <2>1 DEF Listener, Bind, ListenInternal, ListenTimeout, ListenSelects,
             AcceptFails, ListenLeavesLoop, ListenReturns, StopCloses, threadVars
<1>6. ASSUME NEW d \in Conns, NEW label, At(d, label), d # c \/ label # "close" PROVE FALSE
  BY <1>1, <1>6 DEF At
<1>7. ASSUME NEW d \in Conns, ClientStep(d) PROVE FALSE
  BY <1>2, <1>6, <1>7 DEF ClientStep, Connect, Begin, Arrive, Leave, threadVars
<1>8. ASSUME NEW d \in Conns, Serve(d)
      PROVE  /\ d = c
             /\ KeepAliveTimeout(d) \/ KeepAliveUsedUp(d) \/ RequestEnds(d) \/ WriteResponse(d)
  <2>1. ~ ThreadCounts(d) /\ ~ KeepAliveSelects(d) /\ ~ CloseSocket(d) /\ ~ ThreadEnds(d)
    BY <1>6 DEF ThreadCounts, KeepAliveSelects, CloseSocket, ThreadEnds
  <2>2. ~ RequestLine(d) /\ ~ HeaderLine(d) /\ ~ Content(d) /\ ~ RequestTruncated(d)
    BY <1>2, <1>6 DEF RequestLine, HeaderLine, Content, RequestTruncated
  <2>3. KeepAliveTimeout(d) \/ KeepAliveUsedUp(d) \/ RequestEnds(d) \/ WriteResponse(d)
    BY <1>8, <2>1, <2>2 DEF Serve
  <2>4. \E label \in Labels : At(d, label)
    BY <2>3 DEF KeepAliveTimeout, KeepAliveUsedUp, RequestEnds, WriteResponse, Labels
  <2> QED BY <1>6, <2>3, <2>4
<1> QED BY <1>3, <1>5, <1>7, <1>8 DEF Next

(* The thread closes a connection of its own accord only after an answer   *)
(* that says so, or when nothing that the client sent is left unread.      *)
THEOREM ClosesAreAnnounced == Spec => ClosesAnnounced
<1>1. Inv /\ [Next]_vars =>
        \A c \in Conns :
          thread[c] # "close" /\ thread'[c] = "close"
            => \/ stream[c] = <<>>
               \/ answers'[c] # <<>> /\ answers'[c][Len(answers'[c])].close
  <2> SUFFICES ASSUME Inv, [Next]_vars, NEW c \in Conns,
                      thread[c] # "close", thread'[c] = "close", stream[c] # <<>>
               PROVE  answers'[c] # <<>> /\ answers'[c][Len(answers'[c])].close
    OBVIOUS
  <2>1. KeepAliveUsedUp(c) \/ WriteResponse(c)
    BY ClosingSteps DEF KeepAliveTimeout, RequestEnds, Ended
  <2>2. CASE KeepAliveUsedUp(c)
    <3>1. Closing(c)
      BY <2>2 DEF KeepAliveUsedUp, Inv, ConnInv, CloseIsLast
    <3> QED BY <2>2, <3>1 DEF KeepAliveUsedUp, Closing
  <2>3. CASE WriteResponse(c)
    <3>1. request[c].close
      BY <2>3 DEF WriteResponse, At, Inv, TypeOK
    <3> QED BY <2>3, <3>1, AnswerGiven
  <2> QED BY <2>1, <2>2, <2>3
<1> QED BY <1>1, SpecInv, PTL DEF Spec, ClosesAnnounced

-----------------------------------------------------------------------------
(* The dialogue that the server keeps.                                     *)

Asked == [c \in Conns |-> read[c] + Len(stream[c])]
Seen(ans) == [at |-> ans.at, close |-> ans.close]
SeenAll(s) == [i \in 1..Len(s) |-> Seen(s[i])]
Said == [c \in Conns |-> SeenAll(answers[c])]

LEMMA SeenAllTyped ==
  ASSUME NEW s \in Seq(Answer)
  PROVE  /\ SeenAll(s) \in Seq([at : Nat, close : BOOLEAN])
         /\ Len(SeenAll(s)) = Len(s) /\ Len(s) \in Nat
         /\ SeenAll(s) # <<>> <=> s # <<>>
<1> DEFINE S == [at : Nat, close : BOOLEAN]
<1>1. Len(s) \in Nat /\ SeenAll(s) = [i \in 1..Len(s) |-> Seen(s[i])]
  BY LenProperties DEF SeenAll
<1>2. ASSUME NEW i \in 1..Len(s) PROVE Seen(s[i]) \in S
  <2>1. s[i] \in Answer
    BY ElementOfSeq
  <2> QED BY <2>1 DEF Seen, Answer
<1> HIDE DEF S
<1>3. SeenAll(s) \in [1..Len(s) -> S]
  BY ONLY <1>1, <1>2
<1>4. SeenAll(s) \in Seq(S)
  BY ONLY <1>1, <1>3, SeqDef
<1>5. Len(SeenAll(s)) = Len(s)
  <2>1. DOMAIN SeenAll(s) = 1..Len(s)
    BY <1>3
  <2>2. DOMAIN SeenAll(s) = 1..Len(SeenAll(s)) /\ Len(SeenAll(s)) \in Nat
    BY <1>4, LenProperties
  <2> QED BY ONLY <1>1, <2>1, <2>2
<1>6. SeenAll(s) # <<>> <=> s # <<>>
  <2>1. Len(<<>>) = 0
    BY EmptySeq
  <2>2. SeenAll(s) # <<>> => Len(SeenAll(s)) # 0
    BY <1>4, EmptySeq
  <2>3. s # <<>> => Len(s) # 0
    BY EmptySeq
  <2> QED BY <1>5, <2>1, <2>2, <2>3
<1> QED BY <1>1, <1>4, <1>5, <1>6 DEF S

LEMMA SeenAllAppend ==
  ASSUME NEW s \in Seq(Answer), NEW ans \in Answer
  PROVE  SeenAll(Append(s, ans)) = Append(SeenAll(s), Seen(ans))
<1> DEFINE S == [at : Nat, close : BOOLEAN]
           t == Append(s, ans)
<1>1. /\ t \in Seq(Answer) /\ Len(t) = Len(s) + 1 /\ Len(s) \in Nat
      /\ \A i \in 1..Len(s) : t[i] = s[i]
      /\ t[Len(s) + 1] = ans
  BY AppendProperties, LenProperties
<1>2. Seen(ans) \in S
  BY DEF Seen, Answer
<1>3. SeenAll(s) \in Seq(S) /\ Len(SeenAll(s)) = Len(s)
  BY SeenAllTyped
<1> HIDE DEF t, S
<1>4. SeenAll(t) \in Seq(S) /\ Len(SeenAll(t)) = Len(t)
  BY <1>1, SeenAllTyped DEF S
<1>5. /\ Append(SeenAll(s), Seen(ans)) \in Seq(S)
      /\ Len(Append(SeenAll(s), Seen(ans))) = Len(s) + 1
      /\ \A i \in 1..Len(s) : Append(SeenAll(s), Seen(ans))[i] = SeenAll(s)[i]
      /\ Append(SeenAll(s), Seen(ans))[Len(s) + 1] = Seen(ans)
  BY <1>2, <1>3, AppendProperties
<1>6. ASSUME NEW i \in 1..Len(SeenAll(t))
      PROVE  SeenAll(t)[i] = Append(SeenAll(s), Seen(ans))[i]
  <2>1. i \in 1..Len(t)
    BY <1>4
  <2>2. i \in 1..Len(s) \/ i = Len(s) + 1
    BY ONLY <1>1, <2>1
  <2>3. SeenAll(t)[i] = Seen(t[i])
    BY <2>1 DEF SeenAll
  <2>4. i \in 1..Len(s) => SeenAll(s)[i] = Seen(s[i])
    BY DEF SeenAll
  <2> QED BY <1>1, <1>5, <2>2, <2>3, <2>4
<1>7. SeenAll(t) = Append(SeenAll(s), Seen(ans))
  BY <1>1, <1>4, <1>5, <1>6, SeqEqual
<1> QED BY <1>7 DEF t

LEMMA SaidKept ==
  ASSUME UNCHANGED answers
  PROVE  UNCHANGED Said
BY DEF Said

LEMMA AskedKept ==
  ASSUME UNCHANGED <<stream, read>>
  PROVE  UNCHANGED Asked
BY DEF Asked

(* A line that is taken was asked before.                                  *)
LEMMA AskedTaken ==
  ASSUME Inv, NEW c \in Conns, stream[c] # <<>>, TakeLine(c)
  PROVE  UNCHANGED Asked
<1>1. /\ read'[c] = read[c] + 1 /\ read[c] \in Nat
      /\ Len(stream'[c]) = Len(stream[c]) - 1 /\ Len(stream[c]) \in Nat
      /\ \A d \in Conns \ {c} : stream'[d] = stream[d] /\ read'[d] = read[d]
  BY LineTaken DEF Inv, TypeOK
<1>2. read'[c] + Len(stream'[c]) = read[c] + Len(stream[c])
  BY ONLY <1>1
<1>3. \A d \in Conns : read'[d] + Len(stream'[d]) = read[d] + Len(stream[d])
  BY <1>1, <1>2
<1> QED BY <1>3 DEF Asked

(* A line that arrives is one more.                                        *)
LEMMA AskedMore ==
  ASSUME Inv, NEW c \in Conns, sent[c] # <<>>, NEW kind \in Kinds, UNCHANGED read,
         stream' = [stream EXCEPT ![c] = Append(@, [kind |-> kind, of |-> Len(sent[c])])]
  PROVE  Asked' = [Asked EXCEPT ![c] = @ + 1]
<1>1. /\ Len(stream[c]) \in Nat /\ Len(stream'[c]) = Len(stream[c]) + 1 /\ read[c] \in Nat
      /\ \A d \in Conns \ {c} : stream'[d] = stream[d]
  BY LineArrives DEF Inv, TypeOK
<1>2. read[c] + Len(stream'[c]) = (read[c] + Len(stream[c])) + 1
  BY ONLY <1>1
<1>3. \A d \in Conns :
        read'[d] + Len(stream'[d]) = IF d = c THEN (read[c] + Len(stream[c])) + 1
                                     ELSE read[d] + Len(stream[d])
  BY <1>1, <1>2
<1> QED BY <1>3 DEF Asked

LEMMA SaidMore ==
  ASSUME Inv, NEW c \in Conns, NEW ans \in Answer,
         answers' = [answers EXCEPT ![c] = Append(@, ans)]
  PROVE  Said' = [Said EXCEPT ![c] = Append(@, Seen(ans))]
<1>1. answers \in [Conns -> Seq(Answer)]
  BY DEF Inv, TextsTyped
<1>2. \A d \in Conns : answers'[d] = IF d = c THEN Append(answers[c], ans) ELSE answers[d]
  BY <1>1
<1>3. SeenAll(Append(answers[c], ans)) = Append(SeenAll(answers[c]), Seen(ans))
  BY <1>1, SeenAllAppend
<1>4. \A d \in Conns : Said'[d] = SeenAll(answers'[d]) /\ Said[d] = SeenAll(answers[d])
  BY DEF Said
<1>5. \A d \in Conns : Said'[d] = IF d = c THEN Append(Said[c], Seen(ans)) ELSE Said[d]
  BY <1>2, <1>3, <1>4, ZenonT(40)
<1>6. Said' = [d \in Conns |-> Said'[d]] /\ Said = [d \in Conns |-> Said[d]]
  BY DEF Said
<1> QED BY ONLY <1>5, <1>6

LEMMA DialogueOf ==
  /\ Dialogue!Init <=> /\ Asked = [c \in Conns |-> 0] /\ Said = [c \in Conns |-> <<>>]
  /\ \A c \in Conns :
       Asked' = [Asked EXCEPT ![c] = @ + 1] /\ UNCHANGED Said => Dialogue!Ask(c)
BY DEF Dialogue!Init, Dialogue!Ask, Asked, Said, SeenAll, Seen

LEMMA DialogueSees ==
  ASSUME Inv, NEW c \in Conns
  PROVE  (Dialogue!Last(c) <=> Closing(c)) /\ Dialogue!Heard(c) = HeardBy(c)
<1>1. /\ answers[c] \in Seq(Answer) /\ Len(answers[c]) \in Nat
      /\ answers[c] # <<>> => Len(answers[c]) # 0
  BY HeardTyped, EmptySeq
<1>2. /\ SeenAll(answers[c]) # <<>> <=> answers[c] # <<>>
      /\ Len(SeenAll(answers[c])) = Len(answers[c])
  BY <1>1, SeenAllTyped
<1>3. ASSUME answers[c] # <<>>
      PROVE  SeenAll(answers[c])[Len(answers[c])] = Seen(answers[c][Len(answers[c])])
  <2>1. Len(answers[c]) \in 1..Len(answers[c])
    BY <1>1, <1>3
  <2> QED BY <2>1 DEF SeenAll
<1>4. Dialogue!Last(c) <=> /\ SeenAll(answers[c]) # <<>>
                           /\ SeenAll(answers[c])[Len(SeenAll(answers[c]))].close
  BY DEF Dialogue!Last, SeenAll, Seen
<1>5. Dialogue!Heard(c) = IF SeenAll(answers[c]) = <<>> THEN 0
                          ELSE SeenAll(answers[c])[Len(SeenAll(answers[c]))].at
  BY DEF Dialogue!Heard, SeenAll, Seen
<1> QED BY <1>2, <1>3, <1>4, <1>5 DEF Closing, HeardBy, Seen

LEMMA DialogueAnswers ==
  ASSUME NEW c \in Conns, ~ Dialogue!Last(c), NEW ans \in Answer,
         ans.at \in Dialogue!Heard(c) + 1 .. Asked[c],
         Len(Said[c]) + 1 = KeepAliveMax => ans.close,
         Said' = [Said EXCEPT ![c] = Append(@, Seen(ans))],
         UNCHANGED Asked
  PROVE  Dialogue!Answer(c)
<1>1. ans.close \in BOOLEAN /\ Seen(ans) = [at |-> ans.at, close |-> ans.close]
  BY DEF Answer, Seen
<1> DEFINE a == ans.at
           b == ans.close
<1>2. /\ a \in Dialogue!Heard(c) + 1 .. Asked[c] /\ b \in BOOLEAN
      /\ Len(Said[c]) + 1 = KeepAliveMax => b
      /\ Said' = [Said EXCEPT ![c] = Append(@, [at |-> a, close |-> b])]
  BY <1>1
<1> HIDE DEF a, b
<1>3. Dialogue!Answer(c) <=>
        /\ ~ Dialogue!Last(c)
        /\ \E at \in Dialogue!Heard(c) + 1 .. Asked[c], close \in BOOLEAN :
             /\ Len(Said[c]) + 1 = KeepAliveMax => close
             /\ Said' = [Said EXCEPT ![c] = Append(@, [at |-> at, close |-> close])]
        /\ UNCHANGED Asked
  BY DEF Dialogue!Answer, Said, SeenAll, Seen, Asked
<1> QED BY <1>2, <1>3

(* Which step of the dialogue a step of the server is.                     *)
LEMMA ServeDialogue ==
  ASSUME Inv, NEW c \in Conns, Serve(c)
  PROVE  UNCHANGED <<Asked, Said>> \/ Dialogue!Answer(c)
<1>1. CASE \/ ThreadCounts(c) \/ KeepAliveSelects(c) \/ KeepAliveTimeout(c) \/ KeepAliveUsedUp(c)
           \/ RequestEnds(c) \/ RequestTruncated(c) \/ CloseSocket(c) \/ ThreadEnds(c)
  <2>1. UNCHANGED <<stream, read, answers>>
    BY <1>1 DEF ThreadCounts, KeepAliveSelects, KeepAliveTimeout, KeepAliveUsedUp,
         RequestEnds, RequestTruncated, CloseSocket, ThreadEnds
  <2> QED BY <2>1, SaidKept, AskedKept
<1>2. CASE RequestLine(c) \/ HeaderLine(c) \/ Content(c)
  <2>1. stream[c] # <<>> /\ TakeLine(c) /\ UNCHANGED answers
    BY <1>2 DEF RequestLine, HeaderLine, Content
  <2> QED BY <2>1, SaidKept, AskedTaken
<1>3. CASE WriteResponse(c)
  <2>1. PICK ans \in Answer :
          /\ answers' = [answers EXCEPT ![c] = Append(@, ans)]
          /\ ans.at = read[c]
          /\ ans.close = (LastConnection(c) \/ request[c].close)
    BY <1>3, AnswerGiven
  <2>2. Said' = [Said EXCEPT ![c] = Append(@, Seen(ans))]
    BY <2>1, SaidMore
  <2>3. UNCHANGED Asked
    BY <1>3, AskedKept DEF WriteResponse
  <2>4. /\ ConnInv(c) /\ thread[c] \in {"respond", "bad request"}
        /\ read[c] \in Nat /\ stream[c] \in Seq([kind : Kinds, of : Nat])
    BY <1>3 DEF WriteResponse, Inv, TypeOK, TextsTyped
  <2>5. ~ Dialogue!Last(c)
    <3>1. ~ Closing(c)
      BY <2>4 DEF ConnInv, CloseIsLast
    <3> QED BY <3>1, DialogueSees
  <2>6. ans.at \in Dialogue!Heard(c) + 1 .. Asked[c]
    <3>1. HeardBy(c) < read[c] /\ HeardBy(c) \in Nat /\ Dialogue!Heard(c) = HeardBy(c)
      BY <2>4, HeardTyped, DialogueSees DEF ConnInv, AnswersRead, Reading
    <3>2. Asked[c] = read[c] + Len(stream[c]) /\ Len(stream[c]) \in Nat
      BY <2>4, LenProperties DEF Asked
    <3>3. ans.at = read[c] /\ read[c] \in Nat
      BY <2>1, <2>4
    <3> QED BY ONLY <3>1, <3>2, <3>3
  <2>7. Len(Said[c]) + 1 = KeepAliveMax => ans.close
    <3>1. Len(Said[c]) = Len(answers[c]) /\ Len(answers[c]) \in Nat
      BY HeardTyped, SeenAllTyped DEF Said
    <3>2. Len(answers[c]) + count[c] = KeepAliveMax
      BY <2>4 DEF ConnInv, CountsAnswers, Busy
    <3>3. count[c] \in 0..KeepAliveMax /\ KeepAliveMax \in Nat
      BY HttpServerAssumption DEF Inv, TypeOK
    <3>4. Len(Said[c]) + 1 = KeepAliveMax => count[c] = 1
      BY ONLY <3>1, <3>2, <3>3
    <3> QED BY <2>1, <3>4 DEF LastConnection
  <2> QED BY <2>1, <2>2, <2>3, <2>5, <2>6, <2>7, DialogueAnswers
<1> QED BY <1>1, <1>2, <1>3 DEF Serve

LEMMA ClientDialogue ==
  ASSUME Inv, NEW c \in Conns, ClientStep(c)
  PROVE  UNCHANGED <<Asked, Said>> \/ Dialogue!Ask(c)
<1>1. UNCHANGED <<answers, read>> /\ UNCHANGED Said
  BY SaidKept DEF ClientStep, Connect, Begin, Arrive, Leave, threadVars
<1>2. CASE UNCHANGED stream
  BY <1>1, <1>2, AskedKept
<1>3. ASSUME sending[c] # <<>>, NEW kind \in Kinds,
             stream' = [stream EXCEPT ![c] = Append(@, [kind |-> kind, of |-> Len(sent[c])])]
      PROVE  Dialogue!Ask(c)
  <2>1. sent[c] # <<>>
    BY <1>3 DEF Inv, ConnInv, LinesSent
  <2> QED BY <1>1, <1>3, <2>1, AskedMore, DialogueOf
<1>4. CASE Arrive(c)
  <2>1. Head(sending[c]) \in Kinds /\ sending[c] # <<>>
    BY <1>4, HeadTailProperties DEF Arrive, Inv, TextsTyped
  <2> QED BY <1>3, <1>4, <2>1 DEF Arrive
<1>5. CASE Leave(c)
  BY <1>2, <1>3, <1>5 DEF Leave, Kinds
<1>6. CASE Connect(c) \/ \E m \in Messages[c] : Begin(c, m)
  BY <1>2, <1>6 DEF Connect, Begin
<1> QED BY <1>4, <1>5, <1>6 DEF ClientStep

(* The thread of a connection, with its counter, its flags and its         *)
(* timeout, keeps a dialogue in which each answer is for something new and *)
(* the first that says close, one of the first Most, is the last.          *)
THEOREM ServerKeepsDialogue == Spec => ImplementsDialogue
<1>1. Init => Dialogue!Init
  <2> SUFFICES ASSUME Init PROVE Asked = [c \in Conns |-> 0] /\ Said = [c \in Conns |-> <<>>]
    BY DialogueOf
  <2>1. \A c \in Conns : read[c] + Len(stream[c]) = 0
    BY EmptySeq DEF Init
  <2>2. SeenAll(<<>>) = <<>>
    BY SeenAllTyped, EmptySeq
  <2> QED BY <2>1, <2>2 DEF Init, Asked, Said
<1>2. Inv /\ [Next]_vars => [Dialogue!Next]_<<Asked, Said>>
  <2> SUFFICES ASSUME Inv, [Next]_vars PROVE Dialogue!Next \/ UNCHANGED <<Asked, Said>>
    OBVIOUS
  <2>1. CASE Listener \/ Stop \/ StopCloses
    <3>1. UNCHANGED <<stream, read, answers>>
      BY <2>1 DEF Listener, Bind, ListenInternal, ListenTimeout, ListenSelects, Accept,
           AcceptFails, ListenLeavesLoop, ListenReturns, Stop, StopCloses, threadVars
    <3> QED BY <3>1, SaidKept, AskedKept
  <2>2. ASSUME NEW c \in Conns, Serve(c) \/ ClientStep(c)
        PROVE  Dialogue!Next \/ UNCHANGED <<Asked, Said>>
    BY <2>2, ServeDialogue, ClientDialogue DEF Dialogue!Next
  <2>3. CASE UNCHANGED vars
    <3>1. UNCHANGED <<stream, read, answers>>
      BY <2>3 DEF vars, threadVars
    <3> QED BY <3>1, SaidKept, AskedKept
  <2> QED BY <2>1, <2>2, <2>3 DEF Next
<1>3. [Dialogue!Next]_<<Asked, Said>> =>
        [Dialogue!Next]_<<[c \in Conns |-> read[c] + Len(stream[c])],
                          [c \in Conns |-> [i \in 1..Len(answers[c]) |->
                             [at |-> answers[c][i].at, close |-> answers[c][i].close]]]>>
  BY DEF Asked, Said, SeenAll, Seen
<1> QED BY <1>1, <1>2, <1>3, SpecInv, PTL DEF Spec, ImplementsDialogue, Dialogue!Spec

-----------------------------------------------------------------------------
(* The answers of a connection whose client sends proper messages.         *)

(* What may follow what in a proper message.                               *)
LEMMA ProperLines ==
  ASSUME NEW m, m \in Seq(Kinds), Proper(m)
  PROVE  /\ Len(m) \in Nat /\ Len(m) >= 2 /\ m[1] \in {"get", "post"}
         /\ \A j \in 1..Len(m) - 1 :
              \/ m[j] \in {"get", "post", "close", "junk"} /\ m[j + 1] \in {"close", "junk", "blank"}
              \/ m[j] = "blank" /\ m[1] = "post" /\ m[j + 1] = "body"
         /\ (m[Len(m)] = "blank" /\ m[1] = "get") \/ m[Len(m)] = "body"
<1>1. Len(m) \in Nat
  BY LenProperties
<1>2. PICK n \in 2..Len(m) :
        /\ \A i \in 2..n - 1 : m[i] \in {"close", "junk"}
        /\ m[n] = "blank"
        /\ \/ m[1] = "get" /\ Len(m) = n
           \/ m[1] = "post" /\ Len(m) = n + 1 /\ m[n + 1] = "body"
  BY DEF Proper
<1>3. n \in Nat /\ n >= 2 /\ Len(m) >= 2
  BY ONLY <1>1, <1>2
<1>4. m[1] \in {"get", "post"} /\ ((m[Len(m)] = "blank" /\ m[1] = "get") \/ m[Len(m)] = "body")
  BY <1>2
<1>5. ASSUME NEW j \in 1..Len(m) - 1
      PROVE  \/ m[j] \in {"get", "post", "close", "junk"} /\ m[j + 1] \in {"close", "junk", "blank"}
             \/ m[j] = "blank" /\ m[1] = "post" /\ m[j + 1] = "body"
  <2>1. j \in Nat /\ j >= 1 /\ (j < n \/ (j = n /\ Len(m) = n + 1))
    BY ONLY <1>1, <1>2, <1>3, j \in 1..Len(m) - 1
  <2>2. CASE j = n
    BY <1>2, <1>3, <2>1, <2>2
  <2>3. CASE j < n
    <3>1. j = 1 \/ j \in 2..n - 1
      BY ONLY <1>3, <2>1, <2>3
    <3>2. m[j] \in {"get", "post", "close", "junk"}
      BY <1>2, <1>4, <3>1
    <3>3. j + 1 = n \/ j + 1 \in 2..n - 1
      BY ONLY <1>3, <2>1, <2>3
    <3>4. m[j + 1] \in {"close", "junk", "blank"}
      BY <1>2, <3>3
    <3> QED BY <3>2, <3>4
  <2> QED BY <2>1, <2>2, <2>3
<1> QED BY <1>1, <1>3, <1>4, <1>5

LEMMA ComingTyped ==
  ASSUME Inv, NEW c \in Conns
  PROVE  /\ Coming(c) \in Nat /\ Len(stream[c]) \in Nat /\ Len(sending[c]) \in Nat
         /\ Len(sent[c]) \in Nat
         /\ Len(stream[c]) <= Coming(c)
         /\ stream[c] # <<>> => Coming(c) > 0
         /\ stream[c] = <<>> /\ gone[c] => Coming(c) = 0
         /\ \A i \in 1..Coming(c) : Line(c, i).of \in 1..Len(sent[c])
<1>1. /\ stream[c] \in Seq([kind : Kinds, of : Nat]) /\ sending[c] \in Seq(Kinds)
      /\ sent[c] \in Seq(Seq(Kinds)) /\ gone[c] \in BOOLEAN
      /\ LinesSent(c)
  BY DEF Inv, TypeOK, TextsTyped, ConnInv
<1>2. /\ Len(stream[c]) \in Nat /\ Len(sending[c]) \in Nat /\ Len(sent[c]) \in Nat
      /\ stream[c] # <<>> => Len(stream[c]) # 0
      /\ stream[c] = <<>> => Len(stream[c]) = 0
      /\ sent[c] # <<>> => Len(sent[c]) # 0
      /\ sending[c] = <<>> => Len(sending[c]) = 0
  BY <1>1, EmptySeq, LenProperties
<1> DEFINE held == Len(stream[c])
           owed == Len(sending[c])
<1>n. held \in Nat /\ owed \in Nat
  BY <1>2
<1>3. Coming(c) = held \/ Coming(c) = held + owed
  <2>1. Coming(c) = held + 0 \/ Coming(c) = held + owed
    BY DEF Coming
  <2> HIDE DEF held, owed
  <2> QED BY ONLY <1>n, <2>1
<1>4. Coming(c) \in Nat /\ Len(stream[c]) <= Coming(c)
  <2> HIDE DEF held, owed
  <2>1. Coming(c) \in Nat /\ held <= Coming(c)
    BY ONLY <1>n, <1>3
  <2> QED BY <2>1 DEF held
<1>5. stream[c] # <<>> => Coming(c) > 0
  BY ONLY <1>2, <1>4
<1>6. stream[c] = <<>> /\ gone[c] => Coming(c) = 0
  BY <1>2 DEF Coming
<1>7. ASSUME NEW i \in 1..Coming(c) PROVE Line(c, i).of \in 1..Len(sent[c])
  <2>1. i \in Nat /\ i >= 1 /\ i <= Coming(c)
    BY ONLY <1>4, i \in 1..Coming(c)
  <2>2. CASE i <= Len(stream[c])
    <3>1. i \in 1..Len(stream[c])
      BY ONLY <1>2, <2>1, <2>2
    <3>2. stream[c][i].of \in 1..Len(sent[c])
      BY <1>1, <3>1 DEF LinesSent
    <3> QED BY <2>2, <3>2 DEF Line
  <2>3. CASE ~ (i <= Len(stream[c]))
    <3>1. Coming(c) # Len(stream[c])
      BY ONLY <1>2, <2>1, <2>3
    <3>2. Coming(c) = Len(stream[c]) + Len(sending[c])
      BY <1>3, <3>1
    <3>3. Len(sending[c]) # 0
      <4> HIDE DEF held, owed
      <4>1. owed # 0
        BY <1>n, <1>3, <3>1 DEF held
      <4> QED BY <4>1 DEF owed
    <3>4. sent[c] # <<>>
      BY <1>1, <1>2, <3>3 DEF LinesSent
    <3>5. Len(sent[c]) \in 1..Len(sent[c])
      BY ONLY <1>2, <3>4
    <3> QED BY <2>3, <3>5 DEF Line
  <2> QED BY <2>2, <2>3
<1> QED BY <1>2, <1>4, <1>5, <1>6, <1>7

(* What is coming stays the same: a line that arrives was coming already.  *)
LEMMA FollowsKept ==
  ASSUME Inv, NEW c \in Conns, NEW place, Follows(c, place),
         Coming(c)' = Coming(c), \A i \in 1..Coming(c) : Line(c, i)' = Line(c, i),
         sent'[c] = sent[c], gone'[c] = gone[c]
  PROVE  Follows(c, place)'
<1>1. Coming(c) \in Nat
  BY ComingTyped
<1>2. \A line : After(c, line)' = After(c, line)
  BY DEF After
<1>3. ASSUME NEW i \in 1..Coming(c), NEW p, Fits(c, p, i) PROVE Fits(c, p, i)'
  BY <1>3 DEF Fits, Cut
<1>4. (Coming(c) > 0 => Fits(c, place, 1))'
  <2>1. Coming(c) > 0 => 1 \in 1..Coming(c)
    BY ONLY <1>1
  <2> QED BY <1>3, <2>1 DEF Follows
<1>5. (\A i \in 1..Coming(c) - 1 : Fits(c, After(c, Line(c, i)), i + 1))'
  <2> SUFFICES ASSUME NEW i \in 1..Coming(c) - 1
               PROVE  Fits(c, After(c, Line(c, i)), i + 1)'
    OBVIOUS
  <2>1. i \in 1..Coming(c) /\ i + 1 \in 1..Coming(c)
    BY ONLY <1>1, i \in 1..Coming(c) - 1
  <2>2. Fits(c, After(c, Line(c, i)), i + 1)
    BY DEF Follows
  <2>3. After(c, Line(c, i))' = After(c, Line(c, i))
    BY <2>1 DEF After
  <2> QED BY <1>3, <2>1, <2>2, <2>3 DEF Fits, Cut
<1>6. (~ gone[c] => (IF Coming(c) = 0 THEN place ELSE After(c, Line(c, Coming(c))))
                      = Place("line", Len(sent[c]) + 1))'
  <2>1. Coming(c) # 0 => Coming(c) \in 1..Coming(c)
    BY ONLY <1>1
  <2>2. Coming(c) # 0 => After(c, Line(c, Coming(c)))' = After(c, Line(c, Coming(c)))
    BY <2>1 DEF After
  <2> QED BY <2>2 DEF Follows, Place
<1> QED BY <1>4, <1>5, <1>6 DEF Follows

(* The first line is taken, and the next place is after it.                *)
LEMMA FollowsTaken ==
  ASSUME Inv, NEW c \in Conns, NEW place, NEW next, Follows(c, place),
         stream[c] # <<>>, TakeLine(c),
         sent'[c] = sent[c], sending'[c] = sending[c], gone'[c] = gone[c],
         Coming(c) > 1 \/ ~ gone[c] => next = After(c, Line(c, 1))
  PROVE  Follows(c, next)' /\ Coming(c)' = Coming(c) - 1 /\ Coming(c) \in Nat \ {0}
<1>1. /\ Coming(c) \in Nat /\ Len(stream[c]) \in Nat /\ Len(sending[c]) \in Nat
      /\ Coming(c) > 0
  BY ComingTyped
<1>2. Len(stream'[c]) = Len(stream[c]) - 1
      /\ \A i \in 1..Len(stream'[c]) : stream'[c][i] = stream[c][i + 1]
  BY LineTaken
<1> DEFINE held == Len(stream[c])
           owed == Len(sending[c])
<1>3. Coming(c)' = Coming(c) - 1
  <2>1. Coming(c) = held + (IF gone[c] THEN 0 ELSE owed)
        /\ Coming(c)' = (held - 1) + (IF gone[c] THEN 0 ELSE owed)
    BY <1>2 DEF Coming
  <2>2. held \in Nat /\ owed \in Nat
    BY <1>1
  <2> HIDE DEF held, owed
  <2> QED BY ONLY <2>1, <2>2
<1>4. ASSUME NEW i \in 1..Coming(c)' PROVE Line(c, i)' = Line(c, i + 1)
  <2>1. i \in Nat /\ i >= 1
    BY ONLY <1>1, <1>3, i \in 1..Coming(c)'
  <2>2. held \in Nat /\ Len(stream'[c]) = held - 1
    BY <1>1, <1>2
  <2>3. CASE i <= Len(stream'[c])
    <3> HIDE DEF held
    <3>1. i \in 1..Len(stream'[c]) /\ i + 1 <= held
      BY ONLY <2>1, <2>2, <2>3
    <3> QED BY <1>2, <2>3, <3>1 DEF Line, held
  <2>4. CASE ~ (i <= Len(stream'[c]))
    <3>1. ~ (i + 1 <= held) /\ i - Len(stream'[c]) = (i + 1) - held
      <4> HIDE DEF held
      <4> QED BY ONLY <2>1, <2>2, <2>4
    <3> QED BY <2>4, <3>1 DEF Line
  <2> QED BY <2>3, <2>4
<1>5. \A line : After(c, line)' = After(c, line)
  BY DEF After
<1>6. ASSUME NEW i \in 1..Coming(c)', NEW p, Fits(c, p, i + 1) PROVE Fits(c, p, i)'
  <2>1. Cut(c, i + 1) => Cut(c, i)'
    <3>1. i + 1 = Coming(c) => i = Coming(c)'
      BY ONLY <1>1, <1>3, i \in 1..Coming(c)'
    <3> QED BY <1>4, <3>1 DEF Cut
  <2> QED BY <1>4, <1>6, <2>1 DEF Fits
<1>7. (Coming(c) > 0 => Fits(c, next, 1))'
  <2> SUFFICES ASSUME Coming(c)' > 0 PROVE Fits(c, next, 1)'
    OBVIOUS
  <2>1. Coming(c) > 1 /\ 1 \in 1..Coming(c)' /\ 1 \in 1..Coming(c) - 1 /\ 1 + 1 = 2
    BY ONLY <1>1, <1>3, Coming(c)' > 0
  <2>2. Fits(c, After(c, Line(c, 1)), 1 + 1)
    BY <2>1 DEF Follows
  <2>3. Fits(c, next, 1 + 1)
    BY <2>1, <2>2
  <2> QED BY ONLY <1>6, <2>1, <2>3
<1>8. (\A i \in 1..Coming(c) - 1 : Fits(c, After(c, Line(c, i)), i + 1))'
  <2> SUFFICES ASSUME NEW i \in 1..Coming(c)' - 1
               PROVE  Fits(c, After(c, Line(c, i)), i + 1)'
    OBVIOUS
  <2>1. i \in 1..Coming(c)' /\ i + 1 \in 1..Coming(c)' /\ i + 1 \in 1..Coming(c) - 1
    BY ONLY <1>1, <1>3, i \in 1..Coming(c)' - 1
  <2>2. Fits(c, After(c, Line(c, i + 1)), (i + 1) + 1)
    BY <2>1 DEF Follows
  <2>3. After(c, Line(c, i))' = After(c, Line(c, i + 1))
    BY <1>4, <2>1 DEF After
  <2>4. i + 1 + 1 = (i + 1) + 1
    OBVIOUS
  <2>5. Line(c, i + 1)' = Line(c, (i + 1) + 1)
    BY <1>4, <2>1
  <2>6. Cut(c, (i + 1) + 1) => Cut(c, i + 1)'
    <3>1. (i + 1) + 1 = Coming(c) => i + 1 = Coming(c)'
      BY ONLY <1>1, <1>3, i \in 1..Coming(c)' - 1
    <3> QED BY <2>5, <3>1 DEF Cut
  <2> QED BY <2>2, <2>3, <2>5, <2>6 DEF Fits
<1>9. (~ gone[c] => (IF Coming(c) = 0 THEN next ELSE After(c, Line(c, Coming(c))))
                      = Place("line", Len(sent[c]) + 1))'
  <2> SUFFICES ASSUME ~ gone[c]
               PROVE  (IF Coming(c)' = 0 THEN next ELSE After(c, Line(c, Coming(c)))')
                        = Place("line", Len(sent[c]) + 1)
    BY DEF Place
  <2>1. After(c, Line(c, Coming(c))) = Place("line", Len(sent[c]) + 1)
    BY <1>1 DEF Follows
  <2>2. CASE Coming(c)' = 0
    <3>1. Coming(c) = 1
      BY ONLY <1>1, <1>3, <2>2
    <3> QED BY <2>1, <2>2, <3>1
  <2>3. CASE Coming(c)' # 0
    <3>1. Coming(c)' \in 1..Coming(c)' /\ Coming(c)' + 1 = Coming(c)
      BY ONLY <1>1, <1>3, <2>3
    <3>2. After(c, Line(c, Coming(c)))' = After(c, Line(c, Coming(c)))
      BY <1>4, <3>1 DEF After
    <3> QED BY <2>1, <2>3, <3>2
  <2> QED BY <2>2, <2>3
<1> QED BY <1>1, <1>3, <1>7, <1>8, <1>9 DEF Follows

(* The client begins a proper message where it is with what it has sent.   *)
LEMMA FollowsBegun ==
  ASSUME Inv, NEW c \in Conns, NEW place, Follows(c, place),
         NEW m \in Messages[c], Proper(m), Begin(c, m)
  PROVE  Follows(c, place)'
<1>n. PICK n : n = Coming(c)
  OBVIOUS
<1>k. PICK k : k = Len(sent[c])
  OBVIOUS
<1>1. /\ ~ gone[c] /\ sending[c] = <<>> /\ UNCHANGED <<stream, gone>>
      /\ sent' = [sent EXCEPT ![c] = Append(sent[c], m)]
      /\ sending' = [sending EXCEPT ![c] = m]
  BY DEF Begin, Connected
<1>2. /\ m \in Seq(Kinds) /\ sent \in [Conns -> Seq(Seq(Kinds))]
      /\ sending \in [Conns -> Seq(Kinds)]
  BY HttpServerAssumption DEF Inv, TextsTyped, Kinds
<1>3. /\ sending'[c] = m /\ sent'[c] = Append(sent[c], m)
      /\ n \in Nat /\ k \in Nat /\ n = Len(stream[c])
      /\ \A i \in 1..n : Line(c, i).of \in 1..k
  <2>1. Coming(c) = Len(stream[c]) + 0 /\ Len(stream[c]) \in Nat
    BY <1>1, ComingTyped, EmptySeq DEF Coming
  <2> QED BY <1>1, <1>2, <1>n, <1>k, <2>1, ComingTyped
<1>4. /\ Len(sent'[c]) = k + 1 /\ sent'[c][k + 1] = m
      /\ \A j \in 1..k : sent'[c][j] = sent[c][j]
  <2> DEFINE M == Seq(Kinds)
  <2>1. sent[c] \in Seq(M) /\ m \in M
    BY <1>2
  <2> HIDE DEF M
  <2> QED BY <1>3, <1>k, <2>1, AppendProperties
<1>5. /\ Len(m) \in Nat /\ Len(m) >= 2 /\ m[1] \in {"get", "post"}
      /\ \A j \in 1..Len(m) - 1 :
           \/ m[j] \in {"get", "post", "close", "junk"} /\ m[j + 1] \in {"close", "junk", "blank"}
           \/ m[j] = "blank" /\ m[1] = "post" /\ m[j + 1] = "body"
      /\ (m[Len(m)] = "blank" /\ m[1] = "get") \/ m[Len(m)] = "body"
  BY <1>2, ProperLines
<1>6. Coming(c)' = n + Len(m)
  BY <1>1, <1>3 DEF Coming
<1>7. ASSUME NEW i \in 1..n PROVE Line(c, i)' = Line(c, i)
  BY <1>1, <1>3 DEF Line
<1>8. ASSUME NEW j \in 1..Len(m) PROVE Line(c, n + j)' = [kind |-> m[j], of |-> k + 1]
  <2>1. ~ (n + j <= n) /\ (n + j) - n = j
    BY ONLY <1>3, <1>5, j \in 1..Len(m)
  <2> QED BY <1>1, <1>3, <1>4, <2>1 DEF Line
<1>9. ASSUME NEW i \in 1..n PROVE After(c, Line(c, i))' = After(c, Line(c, i))
  <2>1. Line(c, i)' = Line(c, i) /\ sent'[c][Line(c, i).of] = sent[c][Line(c, i).of]
    BY <1>3, <1>4, <1>7
  <2> QED BY <2>1 DEF After
<1>10. ASSUME NEW i \in 1..n, NEW p, Fits(c, p, i) PROVE Fits(c, p, i)'
  <2>1. ~ Cut(c, i) /\ Line(c, i)' = Line(c, i) /\ p.of = Line(c, i).of
    BY <1>1, <1>7, <1>10 DEF Cut, Fits
  <2>2. sent'[c][p.of] = sent[c][p.of]
    BY <1>3, <1>4, <2>1
  <2> QED BY <1>10, <2>1, <2>2 DEF Fits
<1>11. (IF n = 0 THEN place ELSE After(c, Line(c, n))) = Place("line", k + 1)
  BY <1>1, <1>n, <1>k DEF Follows
<1>12. Fits(c, Place("line", k + 1), n + 1)'
  <2>1. 1 \in 1..Len(m)
    BY ONLY <1>5
  <2>2. Line(c, n + 1)' = [kind |-> m[1], of |-> k + 1]
    BY <1>8, <2>1
  <2> QED BY <1>4, <2>2 DEF Fits, Place
<1>13. (Coming(c) > 0 => Fits(c, place, 1))'
  <2>1. CASE n = 0
    BY <1>3, <1>11, <1>12, <2>1
  <2>2. CASE n # 0
    <3>1. 1 \in 1..n /\ n > 0
      BY ONLY <1>3, <2>2
    <3>2. Fits(c, place, 1)
      BY <1>n, <3>1 DEF Follows
    <3> QED BY <1>10, <3>1, <3>2
  <2> QED BY <2>1, <2>2
<1>14. ASSUME NEW j \in 1..Len(m) - 1
       PROVE  Fits(c, After(c, Line(c, n + j)), n + j + 1)'
  <2>1. j \in 1..Len(m) /\ j + 1 \in 1..Len(m) /\ n + j + 1 = n + (j + 1)
    <3>1. n \in Nat /\ Len(m) \in Nat
      BY <1>3, <1>5
    <3> QED BY ONLY <3>1, j \in 1..Len(m) - 1
  <2>2. /\ Line(c, n + j)' = [kind |-> m[j], of |-> k + 1]
        /\ Line(c, n + j + 1)' = [kind |-> m[j + 1], of |-> k + 1]
    BY <1>8, <2>1
  <2>3. CASE m[j] \in {"get", "post", "close", "junk"} /\ m[j + 1] \in {"close", "junk", "blank"}
    <3>1. After(c, Line(c, n + j))' = Place("headers", k + 1)
      BY <2>2, <2>3 DEF After, Place
    <3> QED BY <2>2, <2>3, <3>1 DEF Fits, Place
  <2>4. CASE m[j] = "blank" /\ m[1] = "post" /\ m[j + 1] = "body"
    <3>1. After(c, Line(c, n + j))' = Place("content", k + 1)
      BY <1>4, <2>2, <2>4 DEF After, Place
    <3> QED BY <2>2, <2>4, <3>1 DEF Fits, Place
  <2> QED BY <1>5, <2>3, <2>4
<1>15. ASSUME NEW i \in 1..Coming(c)' - 1
       PROVE  Fits(c, After(c, Line(c, i)), i + 1)'
  <2>1. \/ i \in 1..n - 1 /\ i \in 1..n /\ i + 1 \in 1..n
        \/ i = n /\ n \in 1..n
        \/ i - n \in 1..Len(m) - 1 /\ i = n + (i - n)
    BY ONLY <1>3, <1>5, <1>6, i \in 1..Coming(c)' - 1
  <2>2. CASE i \in 1..n - 1 /\ i \in 1..n /\ i + 1 \in 1..n
    <3>1. Fits(c, After(c, Line(c, i)), i + 1)
      BY <1>n, <2>2 DEF Follows
    <3>2. After(c, Line(c, i))' = After(c, Line(c, i))
      BY <1>9, <2>2
    <3>3. /\ ~ Cut(c, i + 1) /\ Line(c, i + 1)' = Line(c, i + 1)
          /\ After(c, Line(c, i)).of = Line(c, i + 1).of
      BY <1>1, <1>7, <2>2, <3>1 DEF Cut, Fits
    <3>4. sent'[c][Line(c, i + 1).of] = sent[c][Line(c, i + 1).of]
      BY <1>3, <1>4, <2>2
    <3> QED BY <3>1, <3>2, <3>3, <3>4 DEF Fits
  <2>3. CASE i = n /\ n \in 1..n
    <3>1. After(c, Line(c, i))' = Place("line", k + 1)
      BY <1>3, <1>9, <1>11, <2>3
    <3> QED BY <1>12, <2>3, <3>1 DEF Fits
  <2>4. CASE i - n \in 1..Len(m) - 1 /\ i = n + (i - n)
    <3>1. PICK j \in 1..Len(m) - 1 : i = n + j
      BY <2>4
    <3> QED BY <1>14, <3>1
  <2> QED BY <2>1, <2>2, <2>3, <2>4
<1>16. (~ gone[c] => (IF Coming(c) = 0 THEN place ELSE After(c, Line(c, Coming(c))))
                       = Place("line", Len(sent[c]) + 1))'
  <2>1. Coming(c)' # 0 /\ Len(m) \in 1..Len(m)
    BY ONLY <1>3, <1>5, <1>6
  <2>2. Line(c, Coming(c))' = [kind |-> m[Len(m)], of |-> k + 1]
    BY <1>6, <1>8, <2>1
  <2>3. After(c, Line(c, Coming(c)))' = Place("line", (k + 1) + 1)
    BY <1>4, <1>5, <2>2 DEF After, Place
  <2> QED BY <1>4, <2>1, <2>3 DEF Place
<1> QED BY <1>13, <1>15, <1>16 DEF Follows

(* The client leaves: the last of what arrives may be part of a line.      *)
LEMMA FollowsLeft ==
  ASSUME Inv, NEW c \in Conns, NEW place, Follows(c, place), Leave(c)
  PROVE  Follows(c, place)'
<1>n. PICK n : n = Len(stream[c])
  OBVIOUS
<1>1. /\ ~ gone[c] /\ gone'[c] = TRUE /\ UNCHANGED <<sent, sending>>
      /\ Coming(c) \in Nat /\ n \in Nat /\ Len(sending[c]) \in Nat
      /\ Coming(c) = n + Len(sending[c])
  BY <1>n, ComingTyped DEF Leave, Connected, Inv, TypeOK, Coming
<1>c. Coming(c)' = Len(stream'[c]) + 0
  BY <1>1 DEF Coming
<1>2. ASSUME NEW i \in 1..n
      PROVE  Line(c, i) = stream[c][i]
  BY <1>1, <1>n DEF Line
<1>3. \/ /\ Coming(c)' = n
         /\ \A i \in 1..Coming(c)' : Line(c, i)' = Line(c, i)
      \/ /\ Coming(c)' = n + 1 /\ Coming(c) > n
         /\ \A i \in 1..n : Line(c, i)' = Line(c, i)
         /\ Line(c, n + 1)' = [kind |-> "junk", of |-> Line(c, n + 1).of]
  <2>1. CASE UNCHANGED stream
    <3>1. Coming(c)' = n
      <4>1. n \in Nat /\ Coming(c)' = n + 0
        BY <1>1, <1>c, <1>n, <2>1
      <4> QED BY ONLY <4>1
    <3> QED BY <1>1, <1>2, <1>n, <2>1, <3>1 DEF Line
  <2>2. CASE /\ sending[c] # <<>>
             /\ stream' = [stream EXCEPT ![c] = Append(@, [kind |-> "junk", of |-> Len(sent[c])])]
    <3>1. sent[c] # <<>> /\ "junk" \in Kinds /\ Len(sending[c]) # 0
      BY <2>2, EmptySeq DEF Inv, TextsTyped, ConnInv, LinesSent, Kinds
    <3>2. /\ Len(stream'[c]) = n + 1
          /\ \A i \in 1..n : stream'[c][i] = stream[c][i]
          /\ stream'[c][n + 1] = [kind |-> "junk", of |-> Len(sent[c])]
      BY <1>n, <2>2, <3>1, LineArrives
    <3>3. Coming(c)' = n + 1
      <4>1. n \in Nat /\ Coming(c)' = (n + 1) + 0
        BY <1>1, <1>c, <3>2
      <4> QED BY ONLY <4>1
    <3>4. Coming(c) > n
      <4>1. Len(sending[c]) \in Nat \ {0}
        BY <1>1, <3>1
      <4> QED BY ONLY <1>1, <4>1
    <3>5. ASSUME NEW i \in 1..n PROVE Line(c, i)' = Line(c, i)
      <4>1. i <= n + 1
        BY ONLY <1>1, i \in 1..n
      <4> QED BY <1>2, <3>2, <4>1 DEF Line
    <3>6. Line(c, n + 1)' = [kind |-> "junk", of |-> Line(c, n + 1).of]
      <4>1. ~ (n + 1 <= n) /\ n + 1 <= n + 1
        BY ONLY <1>1
      <4>2. Line(c, n + 1).of = Len(sent[c])
        BY <1>n, <4>1 DEF Line
      <4> QED BY <3>2, <4>1, <4>2 DEF Line
    <3> QED BY <3>3, <3>4, <3>5, <3>6
  <2> QED BY <2>1, <2>2 DEF Leave
<1>4. /\ Coming(c)' \in Nat /\ Coming(c)' <= Coming(c)
      /\ \A i \in 1..Coming(c)' :
           \/ Line(c, i)' = Line(c, i)
           \/ i = Coming(c)' /\ Line(c, i)' = [kind |-> "junk", of |-> Line(c, i).of]
  <2>1. CASE Coming(c)' = n
    BY <1>1, <1>3, <2>1
  <2>2. CASE Coming(c)' = n + 1 /\ Coming(c) > n
    <3>1. \A i \in 1..n + 1 : i \in 1..n \/ i = n + 1
      BY ONLY <1>1
    <3>2. Coming(c)' \in Nat /\ Coming(c)' <= Coming(c)
      BY ONLY <1>1, <2>2
    <3>3. Coming(c)' # n
      BY ONLY <1>1, <2>2
    <3> QED BY <1>3, <2>2, <3>1, <3>2, <3>3
  <2> QED BY <1>3, <2>1, <2>2
<1>5. ASSUME NEW i \in 1..Coming(c)', NEW p, Fits(c, p, i) PROVE Fits(c, p, i)'
  <2>1. ~ Cut(c, i)
    BY <1>1 DEF Cut
  <2>2. CASE Line(c, i)' = Line(c, i)
    BY <1>1, <1>5, <2>1, <2>2 DEF Fits
  <2>3. CASE i = Coming(c)' /\ Line(c, i)' = [kind |-> "junk", of |-> Line(c, i).of]
    <3>1. Cut(c, i)' /\ Line(c, i)'.of = p.of
      BY <1>1, <1>5, <2>3 DEF Cut, Fits
    <3> QED BY <3>1 DEF Fits
  <2> QED BY <1>4, <2>2, <2>3
<1>6. (Coming(c) > 0 => Fits(c, place, 1))'
  <2> SUFFICES ASSUME Coming(c)' > 0 PROVE Fits(c, place, 1)'
    OBVIOUS
  <2>1. 1 \in 1..Coming(c)' /\ Coming(c) > 0
    BY ONLY <1>1, <1>4, Coming(c)' > 0
  <2> QED BY <1>5, <2>1 DEF Follows
<1>7. (\A i \in 1..Coming(c) - 1 : Fits(c, After(c, Line(c, i)), i + 1))'
  <2> SUFFICES ASSUME NEW i \in 1..Coming(c)' - 1
               PROVE  Fits(c, After(c, Line(c, i)), i + 1)'
    OBVIOUS
  <2>1. /\ i \in 1..Coming(c)' /\ i # Coming(c)' /\ i + 1 \in 1..Coming(c)'
        /\ i \in 1..Coming(c) - 1
    BY ONLY <1>1, <1>4, i \in 1..Coming(c)' - 1
  <2>2. After(c, Line(c, i))' = After(c, Line(c, i))
    BY <1>1, <1>4, <2>1 DEF After
  <2>3. Fits(c, After(c, Line(c, i)), i + 1)
    BY <2>1 DEF Follows
  <2>4. PICK p : p = After(c, Line(c, i))
    OBVIOUS
  <2>5. Fits(c, p, i + 1)
    BY <2>3, <2>4
  <2>6. Fits(c, p, i + 1)'
    BY <1>5, <2>1, <2>5
  <2> QED BY <2>2, <2>4, <2>6 DEF Fits
<1> QED BY <1>1, <1>6, <1>7 DEF Follows

LEMMA NothingFollows ==
  ASSUME NEW c \in Conns, Coming(c)' = 0, gone'[c]
  PROVE  Follows(c, Now(c))'
<1>1. \A i \in 1..Coming(c)' - 1 : FALSE
  BY SMT
<1>2. ~ (Coming(c)' > 0)
  BY SMT
<1> QED BY <1>1, <1>2 DEF Follows

TextKept(c) ==
  /\ request'[c] = request[c] /\ stream'[c] = stream[c] /\ answers'[c] = answers[c]
  /\ sent'[c] = sent[c] /\ sending'[c] = sending[c] /\ gone'[c] = gone[c]

(* The thread moves, or stays, and neither reads nor answers.              *)
LEMMA MovesInOrder ==
  ASSUME Inv, NEW c \in Conns, InOrder(c), TextKept(c),
         NEW label, thread'[c] = label,
         \/ label = thread[c]
         \/ label \in {"refused", "close", "closed", "ended"}
         \/ /\ thread[c] \in {"none", "backlog", "accepted", "select"}
            /\ label \in {"backlog", "accepted", "select", "line"}
         \/ /\ thread[c] \in {"headers", "content"} /\ Ended(c)
            /\ label \in {"bad request", "respond"}
  PROVE  InOrder(c)'
<1>1. (\A i \in 1..Len(answers[c]) : answers[c][i].to = i)'
  BY DEF InOrder, TextKept
<1>2. ASSUME thread'[c] \in Conversing PROVE thread[c] \in Conversing
  BY <1>2 DEF Conversing, Busy
<1>3. Coming(c)' = Coming(c) /\ \A i : Line(c, i)' = Line(c, i)
  BY DEF Coming, Line, TextKept
<1>4. PICK place : place = Now(c)
  OBVIOUS
<1>5. ASSUME Follows(c, place) PROVE Follows(c, place)'
  BY <1>3, <1>5, FollowsKept DEF TextKept
<1>6. CASE ~ (thread[c] \in {"headers", "content"} /\ label \in {"bad request", "respond"})
  <2>1. ASSUME thread'[c] \in Conversing PROVE Now(c)' = place
    BY <1>4, <1>6, <2>1 DEF Now, TextKept, Conversing, Busy, Place
  <2>2. ASSUME thread'[c] \in Conversing PROVE Follows(c, Now(c))'
    <3>1. Follows(c, place)'
      BY <1>2, <1>4, <1>5, <2>2 DEF InOrder
    <3> QED BY <2>1, <2>2, <3>1 DEF Follows
  <2>3. ASSUME thread'[c] \in Conversing
        PROVE  /\ thread'[c] \in Reading => request'[c].of = Len(answers'[c]) + 1
               /\ thread'[c] = "headers" =>
                    request'[c].body <=> sent'[c][request'[c].of][1] # "get"
               /\ thread'[c] = "bad request" => Coming(c)' = 0 /\ gone'[c]
    BY <1>2, <1>3, <1>6, <2>3 DEF InOrder, TextKept, Reading
  <2> QED BY <1>1, <2>2, <2>3 DEF InOrder
<1>7. CASE thread[c] \in {"headers", "content"} /\ label \in {"bad request", "respond"}
  <2>1. Ended(c)
    BY <1>7
  <2>2. Coming(c)' = 0 /\ gone'[c]
    BY <1>3, <2>1, ComingTyped DEF Ended, TextKept
  <2>3. Follows(c, Now(c))'
    BY <2>2, NothingFollows
  <2>4. thread'[c] \in Reading => request'[c].of = Len(answers'[c]) + 1
    BY <1>7 DEF InOrder, TextKept, Reading, Conversing, Busy
  <2> QED BY <1>1, <1>7, <2>2, <2>3, <2>4 DEF InOrder
<1> QED BY <1>6, <1>7

LEMMA ProperKept ==
  ASSUME NEW c \in Conns, sent'[c] = sent[c]
  PROVE  ProperSoFar(c)' <=> ProperSoFar(c)
BY DEF ProperSoFar

LEMMA OthersInOrder ==
  ASSUME Inv, OrderInv, NEW c \in Conns,
         \A d \in Conns \ {c} : thread'[d] = thread[d] /\ TextKept(d),
         ProperSoFar(c)' => InOrder(c)'
  PROVE  OrderInv'
<1>1. ASSUME NEW d \in Conns \ {c}, ProperSoFar(d)' PROVE InOrder(d)'
  <2>1. InOrder(d)
    BY <1>1, ProperKept DEF OrderInv, TextKept
  <2>2. thread'[d] = thread[d] /\ TextKept(d)
    BY <1>1
  <2> QED BY <2>1, <2>2, MovesInOrder
<1> QED BY <1>1 DEF OrderInv

LEMMA LabelStepsOrder ==
  ASSUME Inv, OrderInv, NEW c \in Conns,
         \/ ThreadCounts(c) \/ KeepAliveSelects(c) \/ KeepAliveTimeout(c) \/ KeepAliveUsedUp(c)
         \/ RequestEnds(c) \/ RequestTruncated(c)
         \/ CloseSocket(c) \/ ThreadEnds(c) \/ Connect(c)
  PROVE  OrderInv'
<1>1. /\ thread \in [Conns -> Labels]
      /\ \A d \in Conns : TextKept(d)
  BY DEF ThreadCounts, KeepAliveSelects, KeepAliveTimeout, KeepAliveUsedUp, RequestEnds,
     RequestTruncated, CloseSocket, ThreadEnds, Connect, TextKept, clientVars, Inv, TypeOK
<1>2. \E label \in Labels :
        /\ At(c, label)
        /\ \/ label \in {"refused", "close", "closed", "ended"}
           \/ /\ thread[c] \in {"none", "backlog", "accepted", "select"}
              /\ label \in {"backlog", "accepted", "select", "line"}
           \/ /\ thread[c] \in {"headers", "content"} /\ Ended(c)
              /\ label \in {"bad request", "respond"}
  BY DEF ThreadCounts, KeepAliveSelects, KeepAliveTimeout, KeepAliveUsedUp, RequestEnds,
     RequestTruncated, CloseSocket, ThreadEnds, Connect, Labels
<1>3. PICK label \in Labels :
        /\ thread'[c] = label /\ \A d \in Conns \ {c} : thread'[d] = thread[d]
        /\ \/ label \in {"refused", "close", "closed", "ended"}
           \/ /\ thread[c] \in {"none", "backlog", "accepted", "select"}
              /\ label \in {"backlog", "accepted", "select", "line"}
           \/ /\ thread[c] \in {"headers", "content"} /\ Ended(c)
              /\ label \in {"bad request", "respond"}
  BY <1>1, <1>2 DEF At
<1>4. ASSUME ProperSoFar(c)' PROVE InOrder(c)'
  <2>1. InOrder(c)
    BY <1>1, <1>4, ProperKept DEF OrderInv, TextKept
  <2> QED BY <1>1, <1>3, <2>1, MovesInOrder
<1> QED BY <1>1, <1>3, <1>4, OthersInOrder

(* Where the thread is after a line that fits.                             *)
LEMMA LineStepsOrder ==
  ASSUME Inv, OrderInv, NEW c \in Conns, RequestLine(c) \/ HeaderLine(c) \/ Content(c)
  PROVE  OrderInv'
<1>1. /\ stream[c] # <<>> /\ TakeLine(c) /\ thread[c] \in {"line", "headers", "content"}
      /\ UNCHANGED <<answers, sent, sending, gone>>
  BY DEF RequestLine, HeaderLine, Content, clientVars
<1>2. /\ thread \in [Conns -> Labels] /\ request \in [Conns -> Requests]
      /\ request[c] \in Requests
  BY DEF Inv, TypeOK, Requests
<1>3. \A d \in Conns \ {c} : thread'[d] = thread[d] /\ TextKept(d)
  <2>1. \A d \in Conns \ {c} : stream'[d] = stream[d]
    BY <1>1, LineTaken
  <2>2. \A d \in Conns \ {c} : thread'[d] = thread[d] /\ request'[d] = request[d]
    BY <1>2 DEF RequestLine, HeaderLine, Content, At
  <2> QED BY <1>1, <2>1, <2>2 DEF TextKept
<1>4. SUFFICES ASSUME ProperSoFar(c)' PROVE InOrder(c)'
  BY <1>3, OthersInOrder
<1>5. InOrder(c) /\ ProperSoFar(c)
  BY <1>1, <1>4, ProperKept DEF OrderInv
<1>6. PICK k : k = Len(answers[c]) + 1
  OBVIOUS
<1>7. PICK line : line = Line(c, 1) /\ line = stream[c][1] /\ line = Head(stream[c])
  <2>1. 1 <= Len(stream[c]) /\ Head(stream[c]) = stream[c][1]
    BY <1>1, LineTaken
  <2> QED BY <2>1 DEF Line
<1>8. thread[c] \in Conversing /\ Follows(c, Now(c)) /\ Fits(c, Now(c), 1)
      /\ Coming(c) \in Nat \ {0} /\ 1 \in 1..Coming(c)
  <2>1. thread[c] \in Conversing /\ Follows(c, Now(c))
    BY <1>1, <1>5 DEF InOrder, Conversing, Busy
  <2>2. Coming(c) \in Nat /\ Coming(c) > 0
    BY <1>1, ComingTyped
  <2>3. 1 \in 1..Coming(c) /\ Coming(c) # 0
    BY ONLY <2>2
  <2> QED BY <2>1, <2>2, <2>3 DEF Follows
<1>9. /\ line.of = k
      /\ Now(c) = Place(thread[c], k)
      /\ k \in 1..Len(sent[c]) /\ sent[c][k][1] \in {"get", "post"}
  <2>1. Now(c) = Place(thread[c], k) /\ line.of = k
    BY <1>1, <1>6, <1>7, <1>8 DEF Now, Fits, Place
  <2>2. k \in 1..Len(sent[c])
    BY <1>7, <1>8, <2>1, ComingTyped
  <2>3. sent[c][k] \in Seq(Kinds) /\ Proper(sent[c][k])
    <3> DEFINE M == Seq(Kinds)
    <3>1. sent[c] \in Seq(M)
      BY DEF Inv, TextsTyped
    <3> HIDE DEF M
    <3>2. sent[c][k] \in M
      BY <2>2, <3>1, ElementOfSeq
    <3> QED BY <1>5, <2>2, <3>2 DEF ProperSoFar, M
  <2>4. sent[c][k][1] \in {"get", "post"}
    BY <2>3, ProperLines
  <2> QED BY <2>1, <2>2, <2>4
<1>10. \/ Coming(c) = 1 /\ gone[c] /\ line.kind = "junk"
       \/ thread[c] = "line" /\ line.kind = sent[c][k][1]
       \/ thread[c] = "headers" /\ line.kind \in {"close", "junk", "blank"}
       \/ thread[c] = "content" /\ line.kind = "body"
  BY <1>7, <1>8, <1>9 DEF Fits, Cut, Place
<1>11. /\ \A i \in 1..Len(answers[c]) : answers[c][i].to = i
       /\ thread[c] \in Reading => request[c].of = k
       /\ thread[c] = "headers" => (request[c].body <=> sent[c][k][1] # "get")
  <2>1. \A i \in 1..Len(answers[c]) : answers[c][i].to = i
    BY <1>5 DEF InOrder
  <2>2. thread[c] \in Reading => request[c].of = k
    BY <1>5, <1>6, <1>8 DEF InOrder
  <2>3. thread[c] = "headers" => (request[c].body <=> sent[c][request[c].of][1] # "get")
    BY <1>5, <1>8 DEF InOrder
  <2>4. thread[c] = "headers" => thread[c] \in Reading
    BY DEF Reading
  <2> QED BY <2>1, <2>2, <2>3, <2>4
<1>12. /\ thread'[c] \in Reading /\ request'[c].of = k
       /\ thread'[c] = "headers" => (request'[c].body <=> sent[c][k][1] # "get")
       /\ thread'[c] = "bad request" => Coming(c) = 1 /\ gone[c]
       /\ Coming(c) > 1 \/ ~ gone[c] =>
            After(c, line) = Place(IF thread'[c] = "respond" THEN "line" ELSE thread'[c],
                                   IF thread'[c] = "respond" THEN k + 1 ELSE k)
  <2>n. Coming(c) > 1 \/ ~ gone[c] => ~ (Coming(c) = 1 /\ gone[c])
    <3>1. Coming(c) > 1 => Coming(c) # 1
      BY ONLY <1>8
    <3> QED BY <3>1
  <2>1. CASE RequestLine(c)
    <3>1. thread[c] = "line"
      BY <2>1 DEF RequestLine
    <3>2. CASE line.kind \in {"get", "post"}
      <4>1. /\ thread'[c] = "headers"
            /\ request'[c] = [of |-> line.of, body |-> line.kind = "post", close |-> FALSE]
        BY <1>2, <1>7, <2>1, <3>2 DEF RequestLine, At
      <4>2. line.kind = sent[c][k][1]
        BY <1>10, <3>1, <3>2
      <4>3. After(c, line) = Place("headers", k)
        BY <1>9, <3>2 DEF After
      <4>4. request'[c].body <=> sent[c][k][1] # "get"
        <5>1. request'[c].body = (line.kind = "post")
          BY <4>1
        <5>2. (line.kind = "post") <=> (line.kind # "get")
          BY <3>2
        <5> QED BY <4>2, <5>1, <5>2
      <4> QED BY <1>9, <4>1, <4>3, <4>4 DEF Reading
    <3>3. CASE line.kind \notin {"get", "post"}
      <4>1. thread'[c] = "bad request" /\ request'[c].of = line.of
        <5>1. /\ request' = [request EXCEPT ![c] = [NoRequest EXCEPT !.of = line.of]]
              /\ At(c, "bad request")
          BY <1>7, <2>1, <3>3 DEF RequestLine
        <5> QED BY <1>2, <5>1 DEF At, NoRequest
      <4>2. Coming(c) = 1 /\ gone[c]
        BY <1>9, <1>10, <3>1, <3>3
      <4> QED BY <1>9, <2>n, <4>1, <4>2 DEF Reading
    <3> QED BY <3>2, <3>3
  <2>2. CASE HeaderLine(c)
    <3>1. thread[c] = "headers" /\ line.kind \in {"close", "junk", "blank"}
      BY <1>10, <2>2 DEF HeaderLine
    <3>2. request'[c].of = k /\ request'[c].body = request[c].body
      BY <1>2, <1>11, <2>2, <3>1 DEF HeaderLine, Requests, Reading
    <3>3. CASE line.kind # "blank"
      <4>1. thread'[c] = "headers"
        BY <1>7, <2>2, <3>1, <3>3 DEF HeaderLine
      <4>2. After(c, line) = Place("headers", k)
        BY <1>9, <3>1, <3>3 DEF After
      <4> QED BY <1>11, <3>1, <3>2, <4>1, <4>2 DEF Reading
    <3>4. CASE line.kind = "blank" /\ request[c].body
      <4>1. thread'[c] = "content"
        BY <1>2, <1>7, <2>2, <3>4 DEF HeaderLine, At
      <4>2. After(c, line) = Place("content", k)
        BY <1>9, <1>11, <3>1, <3>4 DEF After
      <4> QED BY <3>2, <4>1, <4>2 DEF Reading
    <3>5. CASE line.kind = "blank" /\ ~ request[c].body
      <4>1. thread'[c] = "respond"
        BY <1>2, <1>7, <2>2, <3>5 DEF HeaderLine, At
      <4>2. After(c, line) = Place("line", k + 1)
        BY <1>9, <1>11, <3>1, <3>5 DEF After
      <4> QED BY <3>2, <4>1, <4>2 DEF Reading
    <3> QED BY <3>3, <3>4, <3>5
  <2>3. CASE Content(c)
    <3>1. thread[c] = "content" /\ thread'[c] = "respond" /\ request'[c] = request[c]
      BY <1>2, <2>3 DEF Content, At
    <3>2. (Coming(c) = 1 /\ gone[c]) \/ line.kind = "body"
      BY <1>10, <3>1
    <3>3. line.kind = "body" => After(c, line) = Place("line", k + 1)
      BY <1>9 DEF After
    <3> QED BY <1>11, <2>n, <3>1, <3>2, <3>3 DEF Reading
  <2> QED BY <2>1, <2>2, <2>3
<1>13. PICK next : next = Place(IF thread'[c] = "respond" THEN "line" ELSE thread'[c],
                                IF thread'[c] = "respond" THEN k + 1 ELSE k)
  OBVIOUS
<1>14. PICK place : place = Now(c)
  OBVIOUS
<1>15. Follows(c, place)
  BY <1>8, <1>14
<1>16. Follows(c, next)' /\ Coming(c)' = Coming(c) - 1
  <2>1. Coming(c) > 1 \/ ~ gone[c] => next = After(c, Line(c, 1))
    BY <1>7, <1>12, <1>13
  <2> QED BY <1>1, <1>15, <2>1, FollowsTaken
<1>17. CASE thread'[c] = "bad request"
  <2>1. Coming(c)' = 0 /\ gone'[c]
    <3>1. Coming(c) = 1 /\ Coming(c)' = Coming(c) - 1 /\ gone'[c]
      BY <1>1, <1>12, <1>16, <1>17
    <3> QED BY ONLY <3>1
  <2>2. Follows(c, Now(c))'
    BY <2>1, NothingFollows
  <2> QED BY <1>1, <1>6, <1>11, <1>12, <1>17, <2>1, <2>2 DEF InOrder
<1>18. CASE thread'[c] # "bad request"
  <2>1. Now(c)' = next
    <3>1. k + 1 = Len(answers[c]) + 2
      BY <1>6, HeardTyped
    <3> QED BY <1>1, <1>6, <1>12, <1>13, <1>18, <3>1 DEF Now, Place, Reading
  <2>2. Follows(c, Now(c))'
    BY <1>16, <2>1 DEF Follows
  <2> QED BY <1>1, <1>6, <1>11, <1>12, <1>18, <2>2 DEF InOrder
<1> QED BY <1>17, <1>18

LEMMA WriteResponseOrder ==
  ASSUME Inv, OrderInv, NEW c \in Conns, WriteResponse(c)
  PROVE  OrderInv'
<1>1. /\ thread[c] \in {"respond", "bad request"}
      /\ UNCHANGED <<stream, sent, sending, gone>>
      /\ thread \in [Conns -> Labels] /\ request \in [Conns -> Requests]
      /\ answers \in [Conns -> Seq(Answer)] /\ Len(answers[c]) \in Nat
  BY HeardTyped DEF WriteResponse, clientVars, Inv, TypeOK, TextsTyped, Requests
<1>2. PICK ans \in Answer :
        /\ answers' = [answers EXCEPT ![c] = Append(@, ans)]
        /\ ans.to = request[c].of
        /\ Len(answers'[c]) = Len(answers[c]) + 1
        /\ answers'[c][Len(answers'[c])] = ans
        /\ \A i \in 1..Len(answers[c]) : answers'[c][i] = answers[c][i]
  BY AnswerGiven
<1>3. /\ thread'[c] \in {"close", "select"}
      /\ \A d \in Conns \ {c} : thread'[d] = thread[d] /\ TextKept(d)
  BY <1>1, <1>2 DEF WriteResponse, At, TextKept
<1>4. SUFFICES ASSUME ProperSoFar(c)' PROVE InOrder(c)'
  BY <1>3, OthersInOrder
<1>5. InOrder(c)
  BY <1>1, <1>4, ProperKept DEF OrderInv
<1>6. thread[c] \in Reading /\ thread[c] \in Conversing
  BY <1>1 DEF Reading, Conversing, Busy
<1>7. ASSUME NEW i \in 1..Len(answers'[c]) PROVE answers'[c][i].to = i
  <2>1. i \in 1..Len(answers[c]) \/ i = Len(answers[c]) + 1
    <3>1. Len(answers[c]) \in Nat /\ Len(answers'[c]) = Len(answers[c]) + 1
      BY <1>1, <1>2
    <3> QED BY ONLY <3>1, i \in 1..Len(answers'[c])
  <2>2. i = Len(answers[c]) + 1 => answers'[c][i].to = i
    BY <1>2, <1>5, <1>6 DEF InOrder
  <2> QED BY <1>2, <1>5, <2>1, <2>2 DEF InOrder
<1>8. thread'[c] \notin Reading /\ thread'[c] \notin {"headers", "bad request"}
  BY <1>3 DEF Reading
<1>9. CASE thread[c] = "bad request"
  <2>1. Coming(c)' = 0 /\ gone'[c]
    BY <1>1, <1>5, <1>6, <1>9 DEF InOrder, Coming
  <2>2. Follows(c, Now(c))'
    BY <2>1, NothingFollows
  <2> QED BY <1>7, <1>8, <2>2 DEF InOrder
<1>10. CASE thread[c] = "respond"
  <2>1. PICK place : place = Now(c)
    OBVIOUS
  <2>2. Follows(c, place)
    BY <1>5, <1>6, <2>1 DEF InOrder
  <2>3. Coming(c)' = Coming(c) /\ \A i : Line(c, i)' = Line(c, i)
    BY <1>1 DEF Coming, Line
  <2>4. Follows(c, place)'
    BY <1>1, <2>2, <2>3, FollowsKept
  <2>5. thread'[c] = "select" => Now(c)' = place
    <3>1. Len(answers'[c]) + 1 = Len(answers[c]) + 2
      <4>1. Len(answers[c]) \in Nat /\ Len(answers'[c]) = Len(answers[c]) + 1
        BY <1>1, <1>2
      <4> QED BY ONLY <4>1
    <3> QED BY <1>10, <2>1, <3>1 DEF Now, Place
  <2>6. thread'[c] = "select" => Follows(c, Now(c))'
    BY <2>4, <2>5 DEF Follows
  <2>7. thread'[c] = "close" => thread'[c] \notin Conversing
    BY DEF Conversing, Busy
  <2> QED BY <1>3, <1>7, <1>8, <2>6, <2>7 DEF InOrder
<1> QED BY <1>1, <1>9, <1>10

(* What the client does leaves the thread and its answers as they are.     *)
LEMMA ClientInOrder ==
  ASSUME Inv, NEW c \in Conns, InOrder(c), UNCHANGED <<thread, request, answers>>,
         gone[c] => gone'[c],
         thread[c] = "headers" => sent'[c][request[c].of] = sent[c][request[c].of],
         Coming(c) = 0 /\ gone[c] => Coming(c)' = 0,
         NEW place, place = Now(c), Follows(c, place) => Follows(c, place)'
  PROVE  InOrder(c)'
<1>1. Now(c)' = Now(c)
  BY DEF Now, Place
<1>2. thread[c] \in Conversing => Follows(c, Now(c))'
  BY <1>1 DEF InOrder, Follows
<1> QED BY <1>2 DEF InOrder

LEMMA ClientStepsOrder ==
  ASSUME Inv, OrderInv, NEW c \in Conns, ClientStep(c)
  PROVE  OrderInv'
<1>1. CASE Connect(c)
  BY <1>1, LabelStepsOrder
<1>2. CASE (\E m \in Messages[c] : Begin(c, m)) \/ Arrive(c) \/ Leave(c)
  <2>1. /\ UNCHANGED <<thread, request, answers>> /\ ~ gone[c]
        /\ gone \in [Conns -> BOOLEAN] /\ stream \in [Conns -> Seq([kind : Kinds, of : Nat])]
        /\ sent \in [Conns -> Seq(Seq(Kinds))] /\ sending \in [Conns -> Seq(Kinds)]
    BY <1>2 DEF Begin, Arrive, Leave, Connected, threadVars, Inv, TypeOK, TextsTyped
  <2>2. \A d \in Conns \ {c} : thread'[d] = thread[d] /\ TextKept(d)
    BY <1>2, <2>1 DEF Begin, Arrive, Leave, TextKept
  <2>3. SUFFICES ASSUME ProperSoFar(c)' PROVE InOrder(c)'
    BY <2>2, OthersInOrder
  <2>4. PICK place : place = Now(c)
    OBVIOUS
  <2>5. ASSUME NEW m \in Messages[c], Begin(c, m) PROVE InOrder(c)'
    <3>1. /\ m \in Seq(Kinds) /\ sent' = [sent EXCEPT ![c] = Append(sent[c], m)]
      BY <2>5, HttpServerAssumption DEF Begin, Kinds
    <3>2. /\ Len(sent[c]) \in Nat /\ Len(sent'[c]) = Len(sent[c]) + 1
          /\ sent'[c][Len(sent[c]) + 1] = m
          /\ \A k \in 1..Len(sent[c]) : sent'[c][k] = sent[c][k]
      <4> DEFINE M == Seq(Kinds)
      <4>1. sent[c] \in Seq(M) /\ m \in M /\ sent'[c] = Append(sent[c], m)
        BY <2>1, <3>1
      <4> HIDE DEF M
      <4> QED BY <4>1, AppendProperties, LenProperties
    <3>3. ProperSoFar(c) /\ Proper(m)
      <4>1. \A k \in 1..Len(sent[c]) : k \in 1..Len(sent'[c])
        BY ONLY <3>2
      <4>2. Len(sent[c]) + 1 \in 1..Len(sent'[c])
        BY ONLY <3>2
      <4> QED BY <2>3, <3>2, <4>1, <4>2 DEF ProperSoFar
    <3>4. InOrder(c)
      BY <3>3 DEF OrderInv
    <3>5. Follows(c, place) => Follows(c, place)'
      BY <2>5, <3>3, FollowsBegun
    <3>6. thread[c] = "headers" => sent'[c][request[c].of] = sent[c][request[c].of]
      <4> SUFFICES ASSUME thread[c] = "headers"
                   PROVE  request[c].of \in 1..Len(sent[c])
        BY <3>2
      <4>1. thread[c] \in Conversing /\ thread[c] \in Reading
        BY DEF Conversing, Busy, Reading
      <4>2. Follows(c, Now(c)) /\ request[c].of = Len(answers[c]) + 1
        BY <3>4, <4>1 DEF InOrder
      <4>3. Now(c) = Place("headers", request[c].of)
        BY <4>2 DEF Now
      <4>4. Coming(c) # 0
        BY <2>1, <4>2, <4>3 DEF Follows, Place
      <4>5. Coming(c) > 0 /\ 1 \in 1..Coming(c)
        <5>1. Coming(c) \in Nat
          BY ComingTyped
        <5> QED BY ONLY <4>4, <5>1
      <4>6. Line(c, 1).of = request[c].of
        BY <4>2, <4>3, <4>5 DEF Follows, Fits, Place
      <4> QED BY <4>5, <4>6, ComingTyped
    <3>7. gone[c] => gone'[c]
      BY <2>5 DEF Begin
    <3> QED BY <2>1, <2>4, <3>4, <3>5, <3>6, <3>7, ClientInOrder
  <2>6. CASE Arrive(c) \/ Leave(c)
    <3>1. UNCHANGED sent /\ (gone[c] => gone'[c])
      BY <2>1, <2>6 DEF Arrive, Leave
    <3>2. InOrder(c)
      BY <2>3, <3>1, ProperKept DEF OrderInv
    <3>3. CASE Leave(c)
      <4>1. Follows(c, place) => Follows(c, place)'
        BY <3>3, FollowsLeft
      <4> QED BY <2>1, <2>4, <3>1, <3>2, <4>1, ClientInOrder
    <3>4. CASE Arrive(c)
      <4>1. PICK n : n = Len(stream[c])
        OBVIOUS
      <4>2. /\ sending[c] # <<>> /\ sending[c] \in Seq(Kinds)
            /\ stream' = [stream EXCEPT ![c] =
                            Append(@, [kind |-> Head(sending[c]), of |-> Len(sent[c])])]
            /\ sending'[c] = Tail(sending[c]) /\ UNCHANGED gone
        BY <2>1, <3>4 DEF Arrive
      <4>3. /\ Head(sending[c]) \in Kinds /\ Head(sending[c]) = sending[c][1]
            /\ Len(sending'[c]) = Len(sending[c]) - 1
            /\ \A i \in 1..Len(sending'[c]) : sending'[c][i] = sending[c][i + 1]
            /\ Len(sending[c]) \in Nat \ {0}
        <5>1. Head(sending[c]) = sending[c][1]
          BY DEF Head
        <5> QED BY <4>2, <5>1, HeadTailProperties, EmptySeq
      <4>4. sent[c] # <<>>
        BY <4>2 DEF Inv, ConnInv, LinesSent
      <4>5. /\ n \in Nat /\ Len(stream'[c]) = n + 1
            /\ \A i \in 1..n : stream'[c][i] = stream[c][i]
            /\ stream'[c][n + 1] = [kind |-> sending[c][1], of |-> Len(sent[c])]
        BY <4>1, <4>2, <4>3, <4>4, LineArrives, ZenonT(40)
      <4>6. Coming(c) = n + Len(sending[c])
        BY <2>1, <4>1 DEF Coming
      <4>7. Coming(c)' = Coming(c)
        <5>1. Coming(c)' = (n + 1) + (Len(sending[c]) - 1)
          BY <2>1, <4>2, <4>3, <4>5 DEF Coming
        <5>2. Len(sending[c]) \in Nat /\ n \in Nat
          BY <4>3, <4>5
        <5>3. \A k \in Nat : (n + 1) + (k - 1) = n + k
          BY ONLY <5>2
        <5> QED BY <4>6, <5>1, <5>2, <5>3
      <4>8. ASSUME NEW i \in 1..Coming(c) PROVE Line(c, i)' = Line(c, i)
        <5>n. Len(sending[c]) \in Nat
          BY <4>3
        <5>1. \/ i \in 1..n /\ i <= n /\ i <= n + 1
              \/ i = n + 1 /\ ~ (i <= n) /\ i - n = 1
              \/ /\ ~ (i <= n) /\ ~ (i <= n + 1)
                 /\ i - (n + 1) \in 1..Len(sending[c]) - 1
                 /\ (i - (n + 1)) + 1 = i - n
          BY ONLY <4>5, <4>6, <5>n, i \in 1..Coming(c)
        <5>2. CASE i \in 1..n /\ i <= n /\ i <= n + 1
          BY <4>1, <4>5, <5>2 DEF Line
        <5>3. CASE i = n + 1 /\ ~ (i <= n) /\ i - n = 1
          <6>1. i <= n + 1
            BY ONLY <4>5, <5>3
          <6> QED BY <4>1, <4>5, <5>3, <6>1 DEF Line
        <5>4. CASE /\ ~ (i <= n) /\ ~ (i <= n + 1)
                   /\ i - (n + 1) \in 1..Len(sending[c]) - 1
                   /\ (i - (n + 1)) + 1 = i - n
          BY <3>1, <4>1, <4>3, <4>5, <5>4 DEF Line
        <5> QED BY <5>1, <5>2, <5>3, <5>4
      <4>9. Follows(c, place) => Follows(c, place)'
        BY <3>1, <4>2, <4>7, <4>8, FollowsKept
      <4> QED BY <2>1, <2>4, <3>1, <3>2, <4>9, ClientInOrder
    <3> QED BY <2>6, <3>3, <3>4
  <2> QED BY <1>2, <2>5, <2>6
<1> QED BY <1>1, <1>2 DEF ClientStep

LEMMA ListenerOrder ==
  ASSUME Inv, OrderInv, Listener \/ Stop \/ StopCloses \/ UNCHANGED vars
  PROVE  OrderInv'
<1>1. thread \in [Conns -> Labels]
  BY DEF Inv, TypeOK
<1>2. \A c \in Conns : TextKept(c)
  BY DEF Listener, Bind, ListenInternal, ListenTimeout, ListenSelects, Accept, AcceptFails,
     ListenLeavesLoop, ListenReturns, Stop, StopCloses, threadVars, clientVars, TextKept, vars
<1>3. \/ UNCHANGED thread \/ Reset
      \/ \E c \in Conns : thread[c] = "backlog" /\ At(c, "accepted")
  BY DEF Listener, Bind, ListenInternal, ListenTimeout, ListenSelects, Accept, AcceptFails,
     ListenLeavesLoop, ListenReturns, Stop, StopCloses, threadVars, vars, Backlog, At
<1>4. \A c \in Conns : \/ thread'[c] = thread[c]
                       \/ thread[c] = "backlog" /\ thread'[c] \in {"accepted", "refused"}
  BY <1>1, <1>3 DEF Reset, Backlog, At
<1>5. ASSUME NEW c \in Conns, ProperSoFar(c)' PROVE InOrder(c)'
  <2>1. InOrder(c)
    BY <1>2, <1>5, ProperKept DEF OrderInv, TextKept
  <2>2. PICK label : label = thread'[c]
    OBVIOUS
  <2> QED BY <1>2, <1>4, <2>1, <2>2, MovesInOrder
<1> QED BY <1>5 DEF OrderInv

LEMMA OrderInit == Init => OrderInv
<1> SUFFICES ASSUME Init, NEW c \in Conns PROVE InOrder(c)
  BY DEF OrderInv
<1>1. /\ thread[c] = "none" /\ stream[c] = <<>> /\ answers[c] = <<>> /\ sent[c] = <<>>
      /\ sending[c] = <<>> /\ gone[c] = FALSE
  BY DEF Init
<1>2. Coming(c) = 0
  BY <1>1, EmptySeq DEF Coming
<1>3. Len(<<>>) = 0 /\ (\A i \in 1..0 - 1 : FALSE) /\ (\A i \in 1..0 : FALSE) /\ ~ (0 > 0)
  BY SMT
<1>4. Follows(c, Now(c))
  BY <1>1, <1>2, <1>3 DEF Follows, Now
<1> QED BY <1>1, <1>3, <1>4 DEF InOrder, Reading

(* As long as a client sends proper messages, the i-th answer is to the    *)
(* i-th of them, wherever the arriving lines and the thread are.           *)
THEOREM AnswersAreInOrder == Spec => []AnswersInOrder
<1>1. Inv /\ OrderInv /\ [Next]_vars => OrderInv'
  <2> SUFFICES ASSUME Inv, OrderInv, [Next]_vars PROVE OrderInv'
    OBVIOUS
  <2>1. CASE Listener \/ Stop \/ StopCloses \/ UNCHANGED vars
    BY <2>1, ListenerOrder
  <2>2. ASSUME NEW c \in Conns, Serve(c) PROVE OrderInv'
    BY <2>2, LabelStepsOrder, LineStepsOrder, WriteResponseOrder DEF Serve
  <2>3. ASSUME NEW c \in Conns, ClientStep(c) PROVE OrderInv'
    BY <2>3, ClientStepsOrder
  <2> QED BY <2>1, <2>2, <2>3 DEF Next
<1>2. OrderInv => AnswersInOrder
  BY DEF OrderInv, InOrder, ProperSoFar, AnswersInOrder
<1> QED BY <1>1, <1>2, OrderInit, SpecInv, PTL DEF Spec
=============================================================================
