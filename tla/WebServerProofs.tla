-------------------------- MODULE WebServerProofs ---------------------------
(***************************************************************************)
(* Proofs about WebServer, for any set of connections, any finite set of   *)
(* sockets and any queue at least as long as there are sockets.            *)
(***************************************************************************)
EXTENDS WebServer, FiniteSetTheorems, TLAPS

\* The initial state has the right types.
LEMMA InitTypeOK == Init => TypeOK
  BY DEF Init, TypeOK, HandlerPc

USE DEF server, handlers, receiver, history, wvars

\* Steps of the clients and of the task webserver keep the types.
LEMMA ServerTypeOK ==
  ASSUME TypeOK, Server \/ \E c \in Conn, r \in Request : Connect(c, r)
  PROVE  TypeOK'
<1>1. CASE \E c \in Conn, r \in Request : Connect(c, r)
  BY <1>1, TypeOK DEF Connect, TypeOK
<1>2. CASE Listen
  BY <1>2, TypeOK DEF Listen, TypeOK
<1>3. CASE \E f \in Fd : Accept(f)
  BY <1>3, TypeOK DEF Accept, TypeOK, FreeFd
<1>4. CASE AcceptFail
  BY <1>4, TypeOK DEF AcceptFail, TypeOK, HandlerPc
<1>5. CASE \E ok \in BOOLEAN : CreateReceiver(ok)
  BY <1>5, TypeOK DEF CreateReceiver, TypeOK
<1>6. CASE \E ok \in BOOLEAN : CreateHandler(ok)
  BY <1>6, TypeOK DEF CreateHandler, TypeOK, HandlerPc
<1>7. CASE Again
  BY <1>7, TypeOK DEF Again, TypeOK
<1> QED
  BY <1>1, <1>2, <1>3, <1>4, <1>5, <1>6, <1>7 DEF Server

\* Steps of the handlers and of the receiver keep the types.
LEMMA TaskTypeOK ==
  ASSUME TypeOK, (\E c \in Conn : Handler(c)) \/ Dequeue \/ CommandDone
  PROVE  TypeOK'
<1>1. ASSUME NEW c \in Conn, Handler(c)  PROVE TypeOK'
  <2> USE TypeOK DEF TypeOK, HandlerPc, HandlerAt
  <2>1. CASE HttpStart(c)  BY <2>1 DEF HttpStart
  <2>2. CASE HttpRecv(c)   BY <2>2 DEF HttpRecv
  <2>3. CASE HttpReject(c) BY <2>3 DEF HttpReject
  <2>4. CASE HttpReset(c)  BY <2>4 DEF HttpReset
  <2>5. CASE HttpSend(c)
    <3>1. Append(queue, c) \in Seq(Conn) /\ Append(posted, c) \in Seq(Conn)
      OBVIOUS
    <3>2. queue' \in Seq(Conn) /\ posted' \in Seq(Conn)
      BY <2>5, <3>1 DEF HttpSend
    <3> QED
      BY <2>5, <3>2 DEF HttpSend
  <2>6. CASE HttpReply(c)  BY <2>6 DEF HttpReply
  <2>7. CASE HttpClose(c)  BY <2>7 DEF HttpClose
  <2> QED
    BY <1>1, <2>1, <2>2, <2>3, <2>4, <2>5, <2>6, <2>7 DEF Handler
<1>2. CASE Dequeue
  BY <1>2, TypeOK DEF Dequeue, TypeOK
<1>3. CASE CommandDone
  BY <1>3, TypeOK DEF CommandDone, TypeOK
<1> QED
  BY <1>1, <1>2, <1>3

LEMMA StepTypeOK == TypeOK /\ [Next]_wvars => TypeOK'
<1> SUFFICES ASSUME TypeOK, [Next]_wvars PROVE TypeOK'
  OBVIOUS
<1>1. CASE UNCHANGED wvars
  BY <1>1, TypeOK DEF TypeOK
<1> QED
  BY <1>1, TypeOK, ServerTypeOK, TaskTypeOK DEF Next

\* The variables of webserver.c keep their types in every behaviour.
THEOREM TypeCorrect == Spec => []TypeOK
  BY StepTypeOK, InitTypeOK, PTL DEF Spec

-----------------------------------------------------------------------------
(* Sockets.                                                                 *)

\* What is known of connections, descriptors and sockets together.
SocketInv == BacklogFresh /\ UnusedFresh /\ AcceptedHeld /\ SocketsDistinct

LEMMA InitSocketInv == Init => SocketInv
  BY DEF Init, SocketInv, BacklogFresh, UnusedFresh, AcceptedHeld, SocketsDistinct, Working

LEMMA ServerSocketInv ==
  ASSUME TypeOK, SocketInv, Server \/ \E c \in Conn, r \in Request : Connect(c, r)
  PROVE  SocketInv'
<1> USE TypeOK, SocketInv, FdAssumption, ConnAssumption, RequestAssumption
    DEF TypeOK, SocketInv
<1>1. ASSUME NEW c \in Conn, NEW r \in Request, Connect(c, r)  PROVE SocketInv'
  <2>1. BacklogFresh'
    BY <1>1 DEF Connect, BacklogFresh, UnusedFresh
  <2>2. UnusedFresh' /\ AcceptedHeld' /\ SocketsDistinct'
    BY <1>1 DEF Connect, UnusedFresh, AcceptedHeld, SocketsDistinct, Working
  <2> QED
    BY <2>1, <2>2
<1>2. CASE Listen
  BY <1>2 DEF Listen, BacklogFresh, UnusedFresh, AcceptedHeld, SocketsDistinct, Working
<1>3. ASSUME NEW f \in Fd, Accept(f)  PROVE SocketInv'
  <2>1. /\ Head(backlog) = backlog[1] /\ 1 \in 1..Len(backlog) /\ Head(backlog) \in Conn
        /\ Len(backlog') = Len(backlog) - 1
        /\ \A i \in 1..Len(backlog') : backlog'[i] = backlog[i + 1] /\ i + 1 \in 1..Len(backlog)
    BY <1>3 DEF Accept
  <2>2. BacklogFresh'
    BY <1>3, <2>1 DEF Accept, BacklogFresh
  <2>3. UnusedFresh' /\ AcceptedHeld'
    BY <1>3, <2>1 DEF Accept, BacklogFresh, UnusedFresh, AcceptedHeld
  <2>4. SocketsDistinct'
    BY <1>3, <2>1 DEF Accept, BacklogFresh, SocketsDistinct, Working, FreeFd
  <2> QED
    BY <2>2, <2>3, <2>4
<1>4. CASE AcceptFail
  <2>1. /\ Head(backlog) = backlog[1] /\ 1 \in 1..Len(backlog) /\ Head(backlog) \in Conn
        /\ Len(backlog') = Len(backlog) - 1
        /\ \A i \in 1..Len(backlog') : backlog'[i] = backlog[i + 1] /\ i + 1 \in 1..Len(backlog)
    BY <1>4 DEF AcceptFail
  <2>2. BacklogFresh'
    BY <1>4, <2>1 DEF AcceptFail, BacklogFresh
  <2>3. UnusedFresh' /\ AcceptedHeld' /\ SocketsDistinct'
    BY <1>4, <2>1
    DEF AcceptFail, BacklogFresh, UnusedFresh, AcceptedHeld, SocketsDistinct, Working
  <2> QED
    BY <2>2, <2>3
<1>5. CASE \E ok \in BOOLEAN : CreateReceiver(ok)
  BY <1>5
  DEF CreateReceiver, BacklogFresh, UnusedFresh, AcceptedHeld, SocketsDistinct, Working
<1>6. ASSUME NEW ok \in BOOLEAN, CreateHandler(ok)  PROVE SocketInv'
  <2>1. acc \in Conn /\ sock[acc] = new_fd /\ new_fd \in Fd
    BY <1>6 DEF CreateHandler, AcceptedHeld
  <2>2. BacklogFresh' /\ UnusedFresh'
    BY <1>6, <2>1 DEF CreateHandler, BacklogFresh, UnusedFresh
  <2>3. AcceptedHeld' /\ SocketsDistinct'
    BY <1>6, <2>1 DEF CreateHandler, AcceptedHeld, SocketsDistinct, Working
  <2> QED
    BY <2>2, <2>3
<1>7. CASE Again
  BY <1>7 DEF Again, BacklogFresh, UnusedFresh, AcceptedHeld, SocketsDistinct, Working
<1> QED
  BY <1>1, <1>2, <1>3, <1>4, <1>5, <1>6, <1>7 DEF Server

LEMMA TaskSocketInv ==
  ASSUME TypeOK, SocketInv, (\E c \in Conn : Handler(c)) \/ Dequeue \/ CommandDone
  PROVE  SocketInv'
<1> USE TypeOK, SocketInv, FdAssumption DEF TypeOK, SocketInv
<1>1. ASSUME NEW c \in Conn, Handler(c)  PROVE SocketInv'
  <2>1. CASE HttpClose(c)
    <3>1. hfd[c] = sock[c] /\ hfd[c] \in Fd
      BY <2>1 DEF HttpClose, HandlerAt, SocketsDistinct, Working
    <3>2. sock' = [sock EXCEPT ![c] = NoFd]
      BY <2>1, <3>1 DEF HttpClose, SocketsDistinct
    <3>3. hpc' = [hpc EXCEPT ![c] = "gone"] /\ hpc[c] = "close"
      BY <2>1 DEF HttpClose, HandlerAt
    <3>4. BacklogFresh' /\ UnusedFresh' /\ AcceptedHeld'
      BY <2>1, <3>2, <3>3 DEF HttpClose, BacklogFresh, UnusedFresh, AcceptedHeld
    <3>5. SocketsDistinct'
      BY <2>1, <3>1, <3>2, <3>3 DEF HttpClose, SocketsDistinct, Working
    <3> QED
      BY <3>4, <3>5
  <2>2. CASE HttpStart(c)
    BY <2>2 DEF HttpStart, HandlerAt, BacklogFresh, UnusedFresh, AcceptedHeld,
                SocketsDistinct, Working
  <2>3. CASE HttpRecv(c) \/ HttpReject(c) \/ HttpReset(c) \/ HttpSend(c) \/ HttpReply(c)
    <3>1. /\ Working(c) /\ \A d \in Conn : Working(d)' <=> Working(d)
          /\ \A d \in Conn : d # c => hpc'[d] = hpc[d]
          /\ hpc'[c] \notin {"none", "ready"}
          /\ UNCHANGED <<backlog, sock, wpc, acc, new_fd, para, hfd, req>>
      BY <2>3 DEF HttpRecv, HttpReject, HttpReset, HttpSend, HttpReply, HandlerAt, Working
    <3>2. BacklogFresh' /\ UnusedFresh' /\ AcceptedHeld' /\ SocketsDistinct'
      BY <3>1 DEF BacklogFresh, UnusedFresh, AcceptedHeld, SocketsDistinct, Working
    <3> QED
      BY <3>2
  <2> QED
    BY <1>1, <2>1, <2>2, <2>3 DEF Handler
<1>2. CASE Dequeue \/ CommandDone
  BY <1>2, SMTT(30) DEF Dequeue, CommandDone, BacklogFresh, UnusedFresh, AcceptedHeld,
              SocketsDistinct, Working
<1> QED
  BY <1>1, <1>2

LEMMA SocketInvInductive == TypeOK /\ SocketInv /\ [Next]_wvars => SocketInv'
<1> SUFFICES ASSUME TypeOK, SocketInv, [Next]_wvars PROVE SocketInv'
  OBVIOUS
<1>1. CASE UNCHANGED wvars
  BY <1>1 DEF SocketInv, BacklogFresh, UnusedFresh, AcceptedHeld, SocketsDistinct, Working
<1> QED
  BY <1>1, ServerSocketInv, TaskSocketInv DEF Next

LEMMA SocketInvAlways == Spec => []SocketInv
  BY InitSocketInv, SocketInvInductive, TypeCorrect, PTL DEF Spec

\* Every handler of webserver.c works on the socket of its own connection and
\* no two handlers share one, for any number of connections and sockets.
THEOREM HandlersOwnTheirSockets == Spec => []HandlerOwnsSocket
<1>1. SocketInv => HandlerOwnsSocket
  BY FdAssumption DEF SocketInv, SocketsDistinct, HandlerOwnsSocket
<1> QED
  BY <1>1, SocketInvAlways, PTL

\* Every open socket has an owner or is leaked by a failed xTaskCreate.
LEMMA OwnedInductive ==
  TypeOK /\ SocketInv /\ OpenSocketOwned /\ [Next]_wvars => OpenSocketOwned'
<1> SUFFICES ASSUME TypeOK, SocketInv, OpenSocketOwned, [Next]_wvars PROVE OpenSocketOwned'
  OBVIOUS
<1> USE FdAssumption DEF TypeOK, SocketInv, OpenSocketOwned, Working
<1>1. CASE UNCHANGED wvars
  BY <1>1
<1>2. CASE \E c \in Conn, r \in Request : Connect(c, r)
  BY <1>2 DEF Connect
<1>3. CASE Listen \/ Again
  BY <1>3 DEF Listen, Again
<1>4. CASE \E f \in Fd : Accept(f)
  BY <1>4 DEF Accept
<1>5. CASE AcceptFail
  BY <1>5 DEF AcceptFail, BacklogFresh
<1>6. CASE \E ok \in BOOLEAN : CreateReceiver(ok)
  BY <1>6 DEF CreateReceiver
<1>7. CASE \E ok \in BOOLEAN : CreateHandler(ok)
  BY <1>7 DEF CreateHandler
<1>8. ASSUME NEW c \in Conn, Handler(c) PROVE OpenSocketOwned'
  <2>1. CASE HttpClose(c)
    <3>1. hfd[c] = sock[c]
      BY <2>1 DEF HttpClose, HandlerAt, SocketsDistinct
    <3> QED
      BY <2>1, <3>1 DEF HttpClose, HandlerAt
  <2> QED
    BY <1>8, <2>1 DEF Handler, HandlerAt, HttpStart, HttpRecv, HttpReject, HttpReset,
                      HttpSend, HttpReply
<1>9. CASE Dequeue \/ CommandDone
  BY <1>9 DEF Dequeue, CommandDone
<1> QED
  BY <1>1, <1>2, <1>3, <1>4, <1>5, <1>6, <1>7, <1>8, <1>9 DEF Next, Server

\* webserver.c loses no descriptor but the one whose handler it could not start.
THEOREM SocketsAccounted == Spec => []OpenSocketOwned
<1>1. Init => OpenSocketOwned
  BY DEF Init, OpenSocketOwned
<1> QED
  BY <1>1, OwnedInductive, SocketInvAlways, TypeCorrect, PTL DEF Spec

-----------------------------------------------------------------------------
(* The queue.                                                               *)

\* There are at most as many handlers about to post as there are sockets.
LEMMA SendingFitsFd ==
  TypeOK /\ SocketInv =>
    IsFiniteSet(Sending) /\ Cardinality(Sending) <= Cardinality(Fd)
<1> SUFFICES ASSUME TypeOK, SocketInv
             PROVE  IsFiniteSet(Sending) /\ Cardinality(Sending) <= Cardinality(Fd)
  OBVIOUS
<1> DEFINE f == [c \in Sending |-> hfd[c]]
<1>1. f \in Injection(Sending, Fd)
  BY FdAssumption, SocketInv
  DEF SocketInv, SocketsDistinct, Working, Sending, Injection, IsInjective
<1> QED
  BY <1>1, FdAssumption, FS_Injection

\* A step that neither posts nor resets leaves the handlers about to post alone.
LEMMA SendingChanges ==
  ASSUME TypeOK, SocketInv, [Next]_wvars
  PROVE  \/ \E c \in Conn : HttpReset(c) /\ Sending' = Sending \cup {c}
         \/ \E c \in Conn : HttpSend(c) /\ c \in Sending /\ Sending' = Sending \ {c}
         \/ Dequeue /\ Sending' = Sending
         \/ Sending' = Sending /\ UNCHANGED <<queue, posted, ran>>
<1> USE TypeOK, SocketInv DEF TypeOK, SocketInv, Sending
<1>1. CASE UNCHANGED wvars
  BY <1>1
<1>2. CASE \E c \in Conn, r \in Request : Connect(c, r)
  BY <1>2 DEF Connect
<1>3. CASE Listen \/ Again
  BY <1>3 DEF Listen, Again
<1>4. CASE \E f \in Fd : Accept(f)
  BY <1>4 DEF Accept
<1>5. CASE AcceptFail
  BY <1>5, SMTT(30) DEF AcceptFail, BacklogFresh
<1>6. CASE \E ok \in BOOLEAN : CreateReceiver(ok)
  BY <1>6 DEF CreateReceiver
<1>7. CASE \E ok \in BOOLEAN : CreateHandler(ok)
  BY <1>7 DEF CreateHandler, AcceptedHeld
<1>8. ASSUME NEW c \in Conn, Handler(c)
      PROVE  \/ HttpReset(c) /\ Sending' = Sending \cup {c}
             \/ HttpSend(c) /\ c \in Sending /\ Sending' = Sending \ {c}
             \/ Sending' = Sending /\ UNCHANGED <<queue, posted, ran>>
  <2>1. CASE HttpReset(c)
    BY <2>1 DEF HttpReset, HandlerAt
  <2>2. CASE HttpSend(c)
    BY <2>2 DEF HttpSend, HandlerAt
  <2>3. CASE HttpStart(c) \/ HttpRecv(c) \/ HttpReject(c) \/ HttpReply(c) \/ HttpClose(c)
    BY <2>3 DEF HttpStart, HttpRecv, HttpReject, HttpReply, HttpClose, HandlerAt
  <2> QED
    BY <1>8, <2>1, <2>2, <2>3 DEF Handler
<1>9. CASE Dequeue
  BY <1>9 DEF Dequeue
<1>10. CASE CommandDone
  BY <1>10 DEF CommandDone
<1> QED
  BY <1>1, <1>2, <1>3, <1>4, <1>5, <1>6, <1>7, <1>8, <1>9, <1>10 DEF Next, Server

LEMMA QueueRoomInductive ==
  ASSUME TypeOK, TypeOK', SocketInv, SocketInv', QueueHasRoom, [Next]_wvars
  PROVE  QueueHasRoom'
<1>1. /\ IsFiniteSet(Sending) /\ Cardinality(Sending) \in Nat
      /\ IsFiniteSet(Sending)' /\ Cardinality(Sending') \in Nat
      /\ Cardinality(Sending') <= Cardinality(Fd)
      /\ Cardinality(Fd) \in Nat
  <2>1. IsFiniteSet(Sending)
    BY SendingFitsFd
  <2>2. (TypeOK /\ SocketInv =>
           IsFiniteSet(Sending) /\ Cardinality(Sending) <= Cardinality(Fd))'
    BY SendingFitsFd, PTL
  <2>3. IsFiniteSet(Sending') /\ Cardinality(Sending') <= Cardinality(Fd)
    BY <2>2
  <2> QED
    BY <2>1, <2>3, FdAssumption, FS_CardinalityType
<1>2. ASSUME NEW c \in Conn, HttpReset(c) PROVE QueueHasRoom'
  BY <1>1, <1>2 DEF HttpReset, QueueHasRoom
<1>3. ASSUME NEW c \in Conn, HttpSend(c), c \in Sending, Sending' = Sending \ {c}
      PROVE  QueueHasRoom'
  <2>1. Cardinality(Sending') = Cardinality(Sending) - 1
    BY <1>1, <1>3, FS_RemoveElement
  <2>2. Len(queue') <= Len(queue) + 1
    BY <1>3 DEF HttpSend, TypeOK
  <2>3. Len(queue) \in Nat /\ Len(queue') \in Nat
    BY DEF TypeOK
  <2> QED
    BY <1>1, <2>1, <2>2, <2>3 DEF QueueHasRoom
<1>4. CASE Dequeue /\ Sending' = Sending
  <2>1. Len(queue') = Len(queue) - 1 /\ Len(queue) \in Nat
    BY <1>4 DEF Dequeue, TypeOK
  <2> QED
    BY <1>1, <1>4, <2>1 DEF QueueHasRoom
<1>5. CASE Sending' = Sending /\ UNCHANGED queue
  BY <1>5 DEF QueueHasRoom
<1> QED
  BY <1>2, <1>3, <1>4, <1>5, SendingChanges

LEMMA QueueRoomInit == Init => QueueHasRoom
<1> SUFFICES ASSUME Init PROVE QueueHasRoom
  OBVIOUS
<1>1. Sending = {} /\ Len(queue) = 0
  BY DEF Init, Sending
<1> QED
  BY <1>1, FS_EmptySet, FS_CardinalityType, FdAssumption DEF QueueHasRoom

LEMMA QueueRoomAlways == Spec => []QueueHasRoom
<1>1. TypeOK /\ TypeOK' /\ SocketInv /\ SocketInv' /\ QueueHasRoom /\ [Next]_wvars
        => QueueHasRoom'
  BY QueueRoomInductive
<1> QED
  BY <1>1, QueueRoomInit, TypeCorrect, SocketInvAlways, PTL DEF Spec

LEMMA RoomMeansAccepted ==
  ASSUME TypeOK, SocketInv, QueueHasRoom
  PROVE  SendNeverRefused
<1> SUFFICES ASSUME NEW c \in Conn, hpc[c] = "send" PROVE Len(queue) < QueueLen
  BY DEF SendNeverRefused
<1>1. IsFiniteSet(Sending) /\ c \in Sending /\ Cardinality(Sending) \in Nat
  BY SendingFitsFd, FS_CardinalityType DEF Sending
<1>2. IsFiniteSet(Sending \ {c}) /\ Cardinality(Sending \ {c}) = Cardinality(Sending) - 1
  BY <1>1, FS_RemoveElement
<1>3. Cardinality(Sending \ {c}) \in Nat /\ Cardinality(Fd) \in Nat /\ Len(queue) \in Nat
  BY <1>2, FS_CardinalityType, FdAssumption DEF TypeOK
<1> QED
  BY <1>1, <1>2, <1>3, QueueAssumption DEF QueueHasRoom

\* xQueueSend with a timeout of 0 never fails in handle_http_request as long as
\* the queue has at least as many places as the server has sockets (30 and 8).
THEOREM PostsAreAccepted == Spec => []SendNeverRefused
<1>1. TypeOK /\ SocketInv /\ QueueHasRoom => SendNeverRefused
  BY RoomMeansAccepted
<1> QED
  BY <1>1, TypeCorrect, SocketInvAlways, QueueRoomAlways, PTL

\* What Range contains after the queue's two operations.
LEMMA RangeAppend ==
  ASSUME NEW S, NEW s \in Seq(S), NEW x \in S
  PROVE  Range(Append(s, x)) = Range(s) \cup {x} /\ Last(Append(s, x)) = x
  BY DEF Range, Last

LEMMA RangeTail ==
  ASSUME NEW S, NEW s \in Seq(S), s # << >>
  PROVE  Range(s) = {Head(s)} \cup Range(Tail(s))
<1>1. Range(s) \subseteq {Head(s)} \cup Range(Tail(s))
  <2> SUFFICES ASSUME NEW i \in 1..Len(s) PROVE s[i] \in {Head(s)} \cup Range(Tail(s))
    BY DEF Range
  <2>1. CASE i = 1
    BY <2>1
  <2>2. CASE i # 1
    <3>1. i - 1 \in DOMAIN Tail(s) /\ Tail(s)[i - 1] = s[i]
      BY <2>2
    <3> QED
      BY <3>1 DEF Range
  <2> QED
    BY <2>1, <2>2
<1>2. {Head(s)} \cup Range(Tail(s)) \subseteq Range(s)
  BY DEF Range
<1> QED
  BY <1>1, <1>2

LEMMA NewestInductive ==
  ASSUME TypeOK, SocketInv, SendNeverRefused, NewestSurvives, [Next]_wvars
  PROVE  NewestSurvives'
<1> USE DEF NewestSurvives, Newest
<1>1. ASSUME NEW c \in Conn, HttpReset(c), Sending' = Sending \cup {c}
      PROVE  NewestSurvives'
  BY <1>1
<1>2. ASSUME NEW c \in Conn, HttpSend(c), c \in Sending  PROVE NewestSurvives'
  <2>1. queue' = Append(queue, c) /\ posted' = Append(posted, c)
    BY <1>2 DEF HttpSend, SendNeverRefused, Sending
  <2>2. c \in Range(queue') /\ Last(posted') = c
    BY <2>1, RangeAppend DEF TypeOK
  <2>3. Len(posted') = Len(posted) + 1 /\ Len(posted) \in Nat
    BY <2>1 DEF TypeOK
  <2>4. posted' # << >>
    BY <2>3
  <2> QED
    BY <2>2, <2>4
<1>3. CASE Dequeue /\ Sending' = Sending
  <2>1. Range(queue) = {Head(queue)} \cup Range(queue')
    BY <1>3, RangeTail DEF Dequeue, TypeOK
  <2>2. Range(ran') = Range(ran) \cup {Head(queue)}
    BY <1>3, RangeAppend DEF Dequeue, TypeOK
  <2>3. UNCHANGED posted
    BY <1>3 DEF Dequeue
  <2> QED
    BY <1>3, <2>1, <2>2, <2>3
<1>4. CASE Sending' = Sending /\ UNCHANGED <<queue, posted, ran>>
  BY <1>4
<1> QED
  BY <1>1, <1>2, <1>3, <1>4, SendingChanges

\* The command handle_http_request posted last is still queued or has been
\* carried out, unless another handler is about to post a newer one.
THEOREM NewestNeverLost == Spec => []NewestSurvives
<1>1. Init => NewestSurvives
  BY DEF Init, NewestSurvives
<1>2. TypeOK /\ SocketInv /\ SendNeverRefused /\ NewestSurvives /\ [Next]_wvars
        => NewestSurvives'
  BY NewestInductive
<1> QED
  BY <1>1, <1>2, TypeCorrect, SocketInvAlways, PostsAreAccepted, PTL DEF Spec

\* A post leaves the order of the earlier ones alone and comes after them all.
LEMMA BeforeAppend ==
  ASSUME NEW s \in Seq(Conn), NEW c \in Conn, NEW t, t = Append(s, c)
  PROVE  /\ \A x, y : Before(s, x, y) => Before(t, x, y)
         /\ \A x \in Range(s) : Before(t, x, c)
<1>1. /\ Len(s) \in Nat /\ Len(t) = Len(s) + 1
      /\ t[Len(s) + 1] = c
      /\ \A k \in 1..Len(s) : t[k] = s[k] /\ k \in 1..Len(t)
  OBVIOUS
<1>2. \A x, y : Before(s, x, y) => Before(t, x, y)
  BY <1>1 DEF Before
<1>3. ASSUME NEW x \in Range(s) PROVE Before(t, x, c)
  <2>1. PICK k \in 1..Len(s) : s[k] = x
    BY DEF Range
  <2>2. k < Len(s) + 1 /\ Len(s) + 1 \in 1..Len(t)
    BY <1>1
  <2> QED
    BY <1>1, <2>1, <2>2 DEF Before
<1> QED
  BY <1>2, <1>3

LEMMA OrderInductive ==
  ASSUME TypeOK, SocketInv, SendNeverRefused, OrderKept, [Next]_wvars
  PROVE  OrderKept'
<1>1. ASSUME NEW c \in Conn, HttpReset(c) PROVE OrderKept'
  <2>1. ran' = ran /\ posted' = posted /\ queue' = << >>
    BY <1>1 DEF HttpReset
  <2>2. RunsInPostOrder'
    BY <2>1 DEF OrderKept, RunsInPostOrder
  <2>3. Range(queue') = {} /\ Len(queue') = 0
    BY <2>1 DEF Range
  <2> QED
    BY <2>1, <2>2, <2>3 DEF OrderKept
<1>2. ASSUME NEW c \in Conn, HttpSend(c), c \in Sending PROVE OrderKept'
  <2>1. queue' = Append(queue, c) /\ posted' = Append(posted, c) /\ ran' = ran
    BY <1>2 DEF HttpSend, SendNeverRefused, Sending
  <2>2. /\ Len(queue) \in Nat /\ Len(queue') = Len(queue) + 1
        /\ queue'[Len(queue) + 1] = c
        /\ \A i \in 1..Len(queue) : queue'[i] = queue[i]
    BY <2>1 DEF TypeOK
  <2>3. /\ \A i \in 1..Len(queue) : queue[i] \in Range(posted)
        /\ \A i \in 1..Len(ran) : ran[i] \in Range(posted)
    <3>1. /\ \A i \in 1..Len(queue) : queue[i] \in Range(queue)
          /\ \A i \in 1..Len(ran) : ran[i] \in Range(ran)
      BY DEF TypeOK, Range
    <3> QED
      BY <3>1 DEF OrderKept
  <2>4. /\ \A x, y : Before(posted, x, y) => Before(posted', x, y)
        /\ \A x \in Range(posted) : Before(posted', x, c)
    BY <2>1, BeforeAppend DEF TypeOK
  <2>5. RunsInPostOrder'
    BY <2>1, <2>4 DEF OrderKept, RunsInPostOrder
  <2>6. ASSUME NEW i \in 1..Len(ran'), NEW j \in 1..Len(queue')
        PROVE  Before(posted', ran'[i], queue'[j])
    <3>1. CASE j = Len(queue) + 1
      BY <2>1, <2>2, <2>3, <2>4, <3>1
    <3>2. CASE j \in 1..Len(queue)
      BY <2>1, <2>2, <2>4, <3>2 DEF OrderKept
    <3> QED
      BY <2>2, <3>1, <3>2
  <2>7. ASSUME NEW i \in 1..Len(queue'), NEW j \in 1..Len(queue'), i < j
        PROVE  Before(posted', queue'[i], queue'[j])
    <3>1. CASE j = Len(queue) + 1
      BY <2>2, <2>3, <2>4, <2>7, <3>1
    <3>2. CASE j \in 1..Len(queue)
      BY <2>2, <2>4, <2>7, <3>2 DEF OrderKept
    <3> QED
      BY <2>2, <3>1, <3>2
  <2>8. Range(ran') \cup Range(queue') \subseteq Range(posted')
    BY <2>1, RangeAppend DEF OrderKept, TypeOK
  <2> QED
    BY <2>5, <2>6, <2>7, <2>8 DEF OrderKept
<1>3. CASE Dequeue
  <2>1. queue' = Tail(queue) /\ ran' = Append(ran, Head(queue)) /\ posted' = posted
    BY <1>3 DEF Dequeue
  <2>2. /\ Len(queue) \in Nat /\ Len(ran) \in Nat /\ Len(queue) > 0
        /\ Len(queue') = Len(queue) - 1 /\ Len(ran') = Len(ran) + 1
        /\ ran'[Len(ran) + 1] = queue[1]
        /\ \A i \in 1..Len(ran) : ran'[i] = ran[i]
        /\ \A i \in 1..Len(queue') : queue'[i] = queue[i + 1] /\ i + 1 \in 1..Len(queue)
    BY <1>3, <2>1 DEF Dequeue, TypeOK
  <2>3. ASSUME NEW i \in 1..Len(ran'), NEW j \in 1..Len(ran'), i < j
        PROVE  Before(posted', ran'[i], ran'[j])
    <3>1. i \in 1..Len(ran)
      BY <2>2, <2>3
    <3>2. CASE j = Len(ran) + 1
      BY <2>1, <2>2, <3>1, <3>2 DEF OrderKept
    <3>3. CASE j \in 1..Len(ran)
      BY <2>1, <2>2, <2>3, <3>1, <3>3 DEF OrderKept, RunsInPostOrder
    <3> QED
      BY <2>2, <3>2, <3>3
  <2>4. ASSUME NEW i \in 1..Len(ran'), NEW j \in 1..Len(queue')
        PROVE  Before(posted', ran'[i], queue'[j])
    <3>1. CASE i = Len(ran) + 1
      BY <2>1, <2>2, <3>1 DEF OrderKept
    <3>2. CASE i \in 1..Len(ran)
      BY <2>1, <2>2, <3>2 DEF OrderKept
    <3> QED
      BY <2>2, <3>1, <3>2
  <2>5. ASSUME NEW i \in 1..Len(queue'), NEW j \in 1..Len(queue'), i < j
        PROVE  Before(posted', queue'[i], queue'[j])
    BY <2>1, <2>2, <2>5 DEF OrderKept
  <2>6. Range(ran') \cup Range(queue') \subseteq Range(posted')
    <3>1. Range(queue) = {Head(queue)} \cup Range(queue')
      BY <1>3, RangeTail DEF Dequeue, TypeOK
    <3>2. Range(ran') = Range(ran) \cup {Head(queue)}
      BY <1>3, RangeAppend DEF Dequeue, TypeOK
    <3> QED
      BY <2>1, <3>1, <3>2 DEF OrderKept
  <2> QED
    BY <2>3, <2>4, <2>5, <2>6 DEF OrderKept, RunsInPostOrder
<1>4. CASE UNCHANGED <<queue, posted, ran>>
  BY <1>4 DEF OrderKept, RunsInPostOrder
<1> QED
  BY <1>1, <1>2, <1>3, <1>4, SendingChanges

\* web_recdata carries out commands in the order handle_http_request posted
\* them, however many handlers empty the queue in between.
THEOREM CommandsRunInOrder == Spec => []RunsInPostOrder
<1>1. Init => OrderKept
  BY DEF Init, OrderKept, RunsInPostOrder, Range
<1>2. TypeOK /\ SocketInv /\ SendNeverRefused /\ OrderKept /\ [Next]_wvars => OrderKept'
  BY OrderInductive
<1>3. OrderKept => RunsInPostOrder
  BY DEF OrderKept
<1> QED
  BY <1>1, <1>2, <1>3, TypeCorrect, SocketInvAlways, PostsAreAccepted, PTL DEF Spec

LEMMA AnswerInductive ==
  ASSUME TypeOK, SocketInv, SendNeverRefused, PostedBeforeAnswer, [Next]_wvars
  PROVE  PostedBeforeAnswer'
<1> USE DEF PostedBeforeAnswer, TypeOK
<1>1. ASSUME NEW c \in Conn, HttpSend(c) PROVE PostedBeforeAnswer'
  <2>1. posted' = Append(posted, c)
    BY <1>1 DEF HttpSend, HandlerAt, SendNeverRefused
  <2>2. Range(posted') = Range(posted) \cup {c}
    BY <2>1, RangeAppend
  <2>3. UNCHANGED resp /\ \A d \in Conn : d # c => hpc'[d] = hpc[d]
    BY <1>1 DEF HttpSend, HandlerAt
  <2> QED
    BY <2>2, <2>3
<1>2. ASSUME NEW c \in Conn, HttpReply(c) PROVE PostedBeforeAnswer'
  BY <1>2 DEF HttpReply, HandlerAt
<1>3. ASSUME UNCHANGED <<resp, posted>>,
             \A d \in Conn : hpc'[d] = "reply" => hpc[d] = "reply"
      PROVE  PostedBeforeAnswer'
  BY <1>3
<1>4. ASSUME NEW c \in Conn, Handler(c), ~HttpSend(c), ~HttpReply(c)
      PROVE  PostedBeforeAnswer'
  BY <1>3, <1>4 DEF Handler, HandlerAt, HttpStart, HttpRecv, HttpReject, HttpReset, HttpClose
<1>5. CASE AcceptFail
  BY <1>3, <1>5 DEF AcceptFail
<1>6. CASE \E ok \in BOOLEAN : CreateHandler(ok)
  BY <1>3, <1>6 DEF CreateHandler
<1> QED
  BY <1>1, <1>2, <1>3, <1>4, <1>5, <1>6
  DEF Next, Server, Connect, Listen, Accept, CreateReceiver, Again, Dequeue, CommandDone

\* A client of handle_http_request that has an answer has its command accepted.
THEOREM AnswersAcknowledge == Spec => []AnsweredMeansPosted
<1>1. Init => PostedBeforeAnswer
  BY DEF Init, PostedBeforeAnswer
<1>2. TypeOK /\ SocketInv /\ SendNeverRefused /\ PostedBeforeAnswer /\ [Next]_wvars
        => PostedBeforeAnswer'
  BY AnswerInductive
<1>3. PostedBeforeAnswer => AnsweredMeansPosted
  BY DEF PostedBeforeAnswer, AnsweredMeansPosted
<1> QED
  BY <1>1, <1>2, <1>3, TypeCorrect, SocketInvAlways, PostsAreAccepted, PTL DEF Spec

-----------------------------------------------------------------------------
(* The receiver.                                                            *)

LEMMA HandleInductive ==
  ASSUME TypeOK, HandleCounts, [Next]_wvars
  PROVE  HandleCounts'
<1> USE DEF HandleCounts, TypeOK
<1>1. CASE \E ok \in BOOLEAN : CreateReceiver(ok)
  BY <1>1 DEF CreateReceiver
<1>2. CASE Dequeue
  BY <1>2 DEF Dequeue
<1>3. CASE CommandDone
  BY <1>3 DEF CommandDone
<1>4. CASE UNCHANGED receiver
  BY <1>4
<1>5. ASSUME NEW c \in Conn, Handler(c) PROVE UNCHANGED receiver
  BY <1>5 DEF Handler, HttpStart, HttpRecv, HttpReject, HttpReset, HttpSend, HttpReply,
              HttpClose
<1> QED
  BY <1>1, <1>2, <1>3, <1>4, <1>5
  DEF Next, Server, Connect, Listen, Accept, AcceptFail, CreateHandler, Again

\* webserver creates web_recdata once, so motors are driven by one command at
\* a time.
THEOREM OneReceiver == Spec => []OneCommandAtATime
<1>1. Init => HandleCounts
  BY DEF Init, HandleCounts
<1>2. TypeOK /\ HandleCounts /\ [Next]_wvars => HandleCounts'
  BY HandleInductive
<1>3. TypeOK /\ HandleCounts => OneCommandAtATime
  BY DEF TypeOK, HandleCounts, OneCommandAtATime
<1> QED
  BY <1>1, <1>2, <1>3, TypeCorrect, PTL DEF Spec
=============================================================================
