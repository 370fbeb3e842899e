--------------------------- MODULE MailboxProofs ----------------------------
(***************************************************************************)
(* WebServer implements Mailbox, for any set of connections, any finite    *)
(* set of sockets and any queue at least as long as there are sockets: the *)
(* initial states map to initial states and every step maps to a step of   *)
(* the mailbox or leaves it alone.                                         *)
(***************************************************************************)
EXTENDS WebServerProofs

\* The queue holds the commands posted last through posts, resets and takes.
LEMMA SuffixInductive ==
  ASSUME TypeOK, SocketInv, SendNeverRefused, QueueIsSuffix, [Next]_wvars
  PROVE  QueueIsSuffix'
<1> USE TypeOK, QueueIsSuffix DEF TypeOK, QueueIsSuffix
<1>1. ASSUME NEW c \in Conn, HttpReset(c)  PROVE QueueIsSuffix'
  BY <1>1 DEF HttpReset
<1>2. ASSUME NEW c \in Conn, HttpSend(c), c \in Sending  PROVE QueueIsSuffix'
  <2>1. queue' = Append(queue, c) /\ posted' = Append(posted, c)
    BY <1>2 DEF HttpSend, SendNeverRefused, Sending
  <2>2. /\ Len(queue') = Len(queue) + 1 /\ Len(posted') = Len(posted) + 1
        /\ \A i \in 1..Len(queue) : queue'[i] = queue[i]
        /\ \A i \in 1..Len(posted) : posted'[i] = posted[i]
        /\ queue'[Len(queue) + 1] = c /\ posted'[Len(posted) + 1] = c
    BY <2>1
  <2>3. ASSUME NEW i \in 1..Len(queue')
        PROVE  queue'[i] = posted'[Len(posted') - Len(queue') + i]
    <3>1. Len(queue) \in Nat /\ Len(posted) \in Nat
      OBVIOUS
    <3>2. Len(posted') - Len(queue') + i = Len(posted) - Len(queue) + i
      BY <2>2, <3>1
    <3>3. CASE i = Len(queue) + 1
      BY <2>2, <3>1, <3>2, <3>3
    <3>4. CASE i \in 1..Len(queue)
      <4>1. Len(posted) - Len(queue) + i \in 1..Len(posted)
        BY <3>1, <3>4
      <4> QED
        BY <2>2, <3>2, <3>4, <4>1
    <3> QED
      BY <2>2, <3>1, <3>3, <3>4
  <2>4. Len(queue') <= Len(posted')
    BY <2>2
  <2> QED
    BY <2>3, <2>4
<1>3. CASE Dequeue
  <2>1. /\ UNCHANGED posted /\ Len(queue') = Len(queue) - 1
        /\ \A i \in 1..Len(queue') : queue'[i] = queue[i + 1]
    BY <1>3 DEF Dequeue
  <2>2. Len(queue) \in Nat /\ Len(posted) \in Nat /\ Len(queue) > 0
    BY <1>3 DEF Dequeue
  <2>3. ASSUME NEW i \in 1..Len(queue')
        PROVE  queue'[i] = posted'[Len(posted') - Len(queue') + i]
    <3>1. i + 1 \in 1..Len(queue)
      BY <2>1, <2>2
    <3>2. Len(posted) - Len(queue) + (i + 1) = Len(posted') - Len(queue') + i
      BY <2>1, <2>2
    <3> QED
      BY <2>1, <3>1, <3>2
  <2> QED
    BY <2>1, <2>2, <2>3
<1>4. CASE UNCHANGED <<queue, posted, ran>>
  BY <1>4
<1> QED
  BY <1>1, <1>2, <1>3, <1>4, SendingChanges

LEMMA SuffixAlways == Spec => []QueueIsSuffix
<1>1. Init => QueueIsSuffix
  BY DEF Init, QueueIsSuffix
<1>2. TypeOK /\ SocketInv /\ SendNeverRefused /\ QueueIsSuffix /\ [Next]_wvars
        => QueueIsSuffix'
  BY SuffixInductive
<1> QED
  BY <1>1, <1>2, TypeCorrect, SocketInvAlways, PostsAreAccepted, PTL DEF Spec

\* xQueueReset withdraws, xQueueSend posts, xQueueReceive takes; every other
\* step of the tasks leaves the mailbox alone.
LEMMA StepImplements ==
  ASSUME TypeOK, SocketInv, SendNeverRefused, QueueIsSuffix, [Next]_wvars
  PROVE  [M!Next]_(M!mvars)
<1> USE TypeOK, QueueIsSuffix DEF TypeOK, QueueIsSuffix
<1>1. ASSUME NEW c \in Conn, HttpReset(c), Sending' = Sending \cup {c}
      PROVE  M!Withdraw(c)
  <2>1. queue' = << >> /\ UNCHANGED <<posted, ran>> /\ c \notin Sending
    BY <1>1 DEF HttpReset, HandlerAt, history, Sending
  <2>2. Len(queue') = 0 /\ Len(posted) \in Nat
    BY <2>1
  <2>3. Len(posted') - Len(queue') + 1 = Len(posted) + 1
    BY <2>1, <2>2
  <2> QED
    BY <1>1, <2>1, <2>3 DEF M!Withdraw
<1>2. ASSUME NEW c \in Conn, HttpSend(c), c \in Sending, Sending' = Sending \ {c}
      PROVE  M!Post(c)
  <2>1. queue' = Append(queue, c) /\ posted' = Append(posted, c) /\ UNCHANGED ran
    BY <1>2 DEF HttpSend, SendNeverRefused, Sending
  <2>2. Len(queue') = Len(queue) + 1 /\ Len(posted') = Len(posted) + 1
    BY <2>1
  <2> QED
    BY <1>2, <2>1, <2>2 DEF M!Post
<1>3. CASE Dequeue /\ Sending' = Sending
  <2>1. /\ UNCHANGED posted /\ Len(queue) > 0 /\ Len(queue') = Len(queue) - 1
        /\ ran' = Append(ran, queue[1])
    BY <1>3 DEF Dequeue
  <2>2. queue[1] = posted[Len(posted) - Len(queue) + 1]
    BY <2>1
  <2> QED
    BY <1>3, <2>1, <2>2 DEF M!Next, M!Take
<1>4. CASE Sending' = Sending /\ UNCHANGED <<queue, posted, ran>>
  BY <1>4 DEF M!mvars
<1> QED
  BY <1>1, <1>2, <1>3, <1>4, SendingChanges DEF M!Next

\* The handlers' resets and posts and the receiver's takes implement the
\* mailbox in which the newest command wins.
THEOREM QueueIsMailbox == Spec => MailboxImplemented
<1>1. Init => M!Init
  BY DEF Init, M!Init, Sending
<1>2. TypeOK /\ SocketInv /\ SendNeverRefused /\ QueueIsSuffix /\ [Next]_wvars
        => [M!Next]_(M!mvars)
  BY StepImplements
<1> QED
  BY <1>1, <1>2, TypeCorrect, SocketInvAlways, PostsAreAccepted, SuffixAlways, PTL
  DEF Spec, MailboxImplemented, M!Spec

-----------------------------------------------------------------------------
(* The command taken last.                                                  *)

USE DEF server, handlers, receiver, history, wvars

\* A take that leaves the queue empty has taken the newest command.
LEMMA TakenInductive ==
  ASSUME TypeOK, SocketInv, SendNeverRefused, QueueIsSuffix, NewestTaken, [Next]_wvars
  PROVE  NewestTaken'
<1> USE TypeOK, NewestTaken DEF TypeOK, NewestTaken
<1>1. ASSUME NEW c \in Conn, HttpReset(c), Sending' = Sending \cup {c}
      PROVE  NewestTaken'
  BY <1>1
<1>2. ASSUME NEW c \in Conn, HttpSend(c), c \in Sending  PROVE NewestTaken'
  <2>1. queue' = Append(queue, c)
    BY <1>2 DEF HttpSend, SendNeverRefused, Sending
  <2>2. Len(queue') = Len(queue) + 1 /\ Len(queue) \in Nat
    BY <2>1
  <2> QED
    BY <2>2
<1>3. CASE Dequeue /\ Sending' = Sending
  <2>1. /\ queue # << >> /\ queue' = Tail(queue) /\ UNCHANGED posted
        /\ ran' = Append(ran, Head(queue))
    BY <1>3 DEF Dequeue
  <2>2. Last(ran') = Head(queue) /\ Len(ran') = Len(ran) + 1 /\ Len(ran) \in Nat
    BY <2>1, RangeAppend
  <2>3. ran' # << >>
    BY <2>2
  <2>4. CASE queue' = << >>
    <3>1. Len(queue') = Len(queue) - 1 /\ Len(queue) \in Nat
      BY <2>1
    <3>2. Len(queue) = 1
      BY <2>4, <3>1
    <3>3. Head(queue) = queue[1]
      BY <3>2
    <3>4. queue[1] = posted[Len(posted) - 1 + 1] /\ Len(posted) \in Nat
      BY <3>2, QueueIsSuffix DEF QueueIsSuffix
    <3>5. Last(posted) = Head(queue)
      BY <3>3, <3>4 DEF Last
    <3> QED
      BY <2>1, <2>2, <2>3, <3>5
  <2> QED
    BY <2>1, <2>4
<1>4. CASE Sending' = Sending /\ UNCHANGED <<queue, posted, ran>>
  BY <1>4
<1> QED
  BY <1>1, <1>2, <1>3, <1>4, SendingChanges

\* A request, once sent, stays the connection's request.
LEMMA RequestsStay ==
  ASSUME TypeOK, [Next]_wvars, NEW c \in Conn, req[c] # NoReq
  PROVE  req'[c] = req[c]
<1>1. CASE \E d \in Conn, r \in Request : Connect(d, r)
  BY <1>1 DEF Connect, TypeOK
<1>2. CASE \E d \in Conn : Handler(d)
  BY <1>2 DEF Handler, HttpStart, HttpRecv, HttpReject, HttpReset, HttpSend, HttpReply,
              HttpClose
<1>3. CASE Server \/ Dequeue \/ CommandDone \/ UNCHANGED wvars
  BY <1>3 DEF Server, Listen, Accept, AcceptFail, CreateReceiver, CreateHandler, Again,
              Dequeue, CommandDone
<1> QED
  BY <1>1, <1>2, <1>3 DEF Next

LEMMA KnownInductive ==
  ASSUME TypeOK, SocketInv, CommandsKnown, [Next]_wvars
  PROVE  CommandsKnown'
<1>1. TypeOK'
  BY StepTypeOK
<1>2. ASSUME NEW c \in Conn, req[c] # NoReq PROVE req'[c] # NoReq
  BY <1>2, RequestsStay
<1>3. CASE \E c \in Conn : HttpReset(c)
  BY <1>2, <1>3 DEF HttpReset, CommandsKnown, TypeOK, Last
<1>4. ASSUME NEW c \in Conn, HttpSend(c) PROVE CommandsKnown'
  <2>1. req[c] # NoReq /\ UNCHANGED <<ran, req>>
    BY <1>4 DEF HttpSend, HandlerAt, SocketInv, UnusedFresh
  <2>2. CASE queue' = Append(queue, c)
    <3>1. \A i \in 1..Len(queue') : queue'[i] = IF i <= Len(queue) THEN queue[i] ELSE c
      BY <2>2 DEF TypeOK
    <3>2. \A i \in 1..Len(queue') : i <= Len(queue) => i \in 1..Len(queue)
      BY DEF TypeOK
    <3> QED
      BY <2>1, <3>1, <3>2 DEF CommandsKnown
  <2>3. CASE UNCHANGED queue
    BY <2>1, <2>3 DEF CommandsKnown
  <2> QED
    BY <1>4, <2>2, <2>3 DEF HttpSend
<1>5. CASE Dequeue
  <2>1. /\ queue # << >> /\ queue' = Tail(queue) /\ UNCHANGED req
        /\ ran' = Append(ran, Head(queue)) /\ queue \in Seq(Conn) /\ ran \in Seq(Conn)
    BY <1>5 DEF Dequeue, TypeOK
  <2>2. Last(ran') = queue[1] /\ 1 \in 1..Len(queue)
    BY <2>1, RangeAppend
  <2>3. \A i \in 1..Len(queue') : queue'[i] = queue[i + 1] /\ i + 1 \in 1..Len(queue)
    BY <2>1
  <2> QED
    BY <2>1, <2>2, <2>3 DEF CommandsKnown
<1>6. CASE UNCHANGED <<queue, ran>>
  <2>1. /\ \A i \in 1..Len(queue) : queue[i] \in Conn
        /\ ran # << >> => Last(ran) \in Conn
    BY DEF TypeOK, Last
  <2> QED
    BY <1>2, <1>6, <2>1 DEF CommandsKnown
<1> QED
  BY <1>3, <1>4, <1>5, <1>6, SendingChanges

\* What the composition with the receiver needs to know of the server.
QueueInv == /\ TypeOK /\ SocketInv /\ QueueHasRoom /\ QueueIsSuffix
            /\ NewestTaken /\ CommandsKnown

LEMMA QueueInvInit == Init => QueueInv
<1>1. Init => QueueIsSuffix /\ NewestTaken /\ CommandsKnown
  BY DEF Init, QueueIsSuffix, NewestTaken, CommandsKnown
<1> QED
  BY <1>1, InitTypeOK, InitSocketInv, QueueRoomInit DEF QueueInv

LEMMA QueueInvInductive == QueueInv /\ [Next]_wvars => QueueInv'
<1> SUFFICES ASSUME QueueInv, [Next]_wvars PROVE QueueInv'
  OBVIOUS
<1>1. /\ TypeOK /\ SocketInv /\ QueueHasRoom /\ QueueIsSuffix
      /\ NewestTaken /\ CommandsKnown
  BY DEF QueueInv
<1>2. SendNeverRefused
  BY <1>1, RoomMeansAccepted
<1>3. TypeOK' /\ SocketInv'
  BY <1>1, StepTypeOK, SocketInvInductive
<1>4. QueueHasRoom'
  BY <1>1, <1>3, QueueRoomInductive
<1>5. QueueIsSuffix' /\ NewestTaken' /\ CommandsKnown'
  BY <1>1, <1>2, SuffixInductive, TakenInductive, KnownInductive
<1> QED
  BY <1>3, <1>4, <1>5 DEF QueueInv
=============================================================================
