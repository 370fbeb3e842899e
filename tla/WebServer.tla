----------------------------- MODULE WebServer ------------------------------
(***************************************************************************)
(* The HTTP side of the robot (components/web_server/webserver.c): the     *)
(* task webserver accepts connections and starts one handle_http_request   *)
(* task for each; every handler reads one request, empties the URL queue,  *)
(* posts its own command there, answers and closes; the receiver task      *)
(* web_recdata, started at the first connection, takes the commands out.   *)
(* All tasks interleave freely (two cores, preemption, vTaskDelay).        *)
(*                                                                         *)
(* A connection carries one request and is never reused (the server closes *)
(* it), so the tasks and the queue entries are named by connections.  What *)
(* a command does to the robot is in WebRecdata.                           *)
(***************************************************************************)
EXTENDS Integers, Sequences, FiniteSets, SequencesExt

CONSTANTS
  Conn,      \* the connections clients may open
  Fd,        \* the lwIP sockets left for accepted connections
  Backlog,   \* the second argument of listen (8)
  QueueLen,  \* the length of URLString_queue (30)
  Request,   \* the requests a client may send: records [method, url]
  NoConn, NoFd, NoReq

ASSUME ConnAssumption == NoConn \notin Conn
ASSUME FdAssumption == IsFiniteSet(Fd) /\ NoFd \notin Fd
ASSUME QueueAssumption == QueueLen \in Nat /\ Cardinality(Fd) <= QueueLen
ASSUME RequestAssumption == NoReq \notin Request
ASSUME BacklogAssumption == Backlog \in Nat

VARIABLES
  backlog,   \* connections waiting for accept
  sock,      \* lwIP: the socket of each connection
  wpc,       \* where the task webserver is
  acc,       \* the connection it accepted last
  new_fd,    \* its local variable new_fd
  hpc,       \* where the handler of each connection is
  para,      \* *para_fd, the heap cell handed to the handler
  hfd,       \* the handler's local variable fd
  req,       \* the request a client sends on its connection
  resp,      \* what the handler has answered
  queue,     \* URLString_queue, the entries named by their connection
  urlRecHandle, \* the handle of web_recdata: "NULL" or "set"
  recs,      \* how many web_recdata tasks exist
  busy,      \* how many of them are executing a command
  posted,    \* history: the commands accepted by the queue, in order
  ran        \* history: the commands taken from the queue, in order

server   == <<wpc, acc, new_fd>>
handlers == <<hpc, para, hfd, resp>>
receiver == <<urlRecHandle, recs, busy>>
history  == <<posted, ran>>
wvars == <<backlog, sock, server, handlers, req, queue, receiver, history>>

FreeFd == Fd \ {sock[c] : c \in Conn}

-----------------------------------------------------------------------------
Init ==
  /\ backlog = << >> /\ sock = [c \in Conn |-> NoFd]
  /\ wpc = "start" /\ acc = NoConn /\ new_fd = NoFd
  /\ hpc = [c \in Conn |-> "none"]
  /\ para = [c \in Conn |-> NoFd] /\ hfd = [c \in Conn |-> NoFd]
  /\ req = [c \in Conn |-> NoReq] /\ resp = [c \in Conn |-> "none"]
  /\ queue = << >>
  /\ urlRecHandle = "NULL" /\ recs = 0 /\ busy = 0
  /\ posted = << >> /\ ran = << >>

\* A client connects and sends its request.
Connect(c, r) ==
  /\ wpc \notin {"start", "dead"}
  /\ req[c] = NoReq /\ Len(backlog) < Backlog
  /\ req' = [req EXCEPT ![c] = r] /\ backlog' = Append(backlog, c)
  /\ UNCHANGED <<sock, server, handlers, queue, receiver, history>>

-----------------------------------------------------------------------------
(* The task webserver.                                                      *)

\* socket, bind and listen; a failure of the first two ends the task.
Listen ==
  /\ wpc = "start"
  /\ wpc' \in {"accept", "dead"}
  /\ UNCHANGED <<backlog, sock, acc, new_fd, handlers, req, queue, receiver, history>>

\* accept returns the next connection on a free socket.
Accept(f) ==
  /\ wpc = "accept" /\ backlog # << >> /\ f \in FreeFd
  /\ backlog' = Tail(backlog)
  /\ sock' = [sock EXCEPT ![Head(backlog)] = f]
  /\ acc' = Head(backlog) /\ new_fd' = f
  /\ wpc' = "receiver"
  /\ UNCHANGED <<handlers, req, queue, receiver, history>>

\* accept returns -1 (no socket is left, or the client is gone): the
\* connection is lost and the failure only logged.
AcceptFail ==
  /\ wpc = "accept" /\ backlog # << >>
  /\ backlog' = Tail(backlog)
  /\ hpc' = [hpc EXCEPT ![Head(backlog)] = "dropped"]
  /\ new_fd' = NoFd /\ wpc' = "pause"
  /\ UNCHANGED <<sock, acc, para, hfd, resp, req, queue, receiver, history>>

\* A plausible slip: the test of urlRecHandle left out.
CreateReceiverAlways(ok) ==
  /\ wpc = "receiver"
  /\ urlRecHandle' = IF ok THEN "set" ELSE urlRecHandle
  /\ recs' = IF ok THEN recs + 1 ELSE recs
  /\ wpc' = "task"
  /\ UNCHANGED <<backlog, sock, acc, new_fd, handlers, req, queue, busy, history>>

\* The receiver task is created if its handle is not set yet; xTaskCreate sets
\* the handle only when it succeeds.
CreateReceiver(ok) ==
  /\ wpc = "receiver"
  /\ IF ok /\ urlRecHandle = "NULL"
     THEN urlRecHandle' = "set" /\ recs' = recs + 1
     ELSE UNCHANGED <<urlRecHandle, recs>>
  /\ wpc' = "task"
  /\ UNCHANGED <<backlog, sock, acc, new_fd, handlers, req, queue, busy, history>>

\* The heap cell is filled and the handler task created; when xTaskCreate
\* fails its result is ignored and the socket stays open without an owner.
CreateHandler(ok) ==
  /\ wpc = "task"
  /\ para' = [para EXCEPT ![acc] = new_fd]
  /\ hpc' = [hpc EXCEPT ![acc] = IF ok THEN "ready" ELSE "leaked"]
  /\ wpc' = "pause"
  /\ UNCHANGED <<backlog, sock, acc, new_fd, hfd, resp, req, queue, receiver, history>>

\* The delay at the foot of the accept loop is over.
Again ==
  /\ wpc = "pause" /\ wpc' = "accept"
  /\ UNCHANGED <<backlog, sock, acc, new_fd, handlers, req, queue, receiver, history>>

-----------------------------------------------------------------------------
(* The task handle_http_request of connection c.                            *)

HandlerAt(c, from, to) == hpc[c] = from /\ hpc' = [hpc EXCEPT ![c] = to]

\* A plausible slip: the address of new_fd handed over instead of a heap cell.
HttpStartShared(c) ==
  /\ HandlerAt(c, "ready", "recv")
  /\ hfd' = [hfd EXCEPT ![c] = new_fd]
  /\ UNCHANGED <<backlog, sock, server, para, req, resp, queue, receiver, history>>

\* The task starts and copies the descriptor.
HttpStart(c) ==
  /\ HandlerAt(c, "ready", "recv")
  /\ hfd' = [hfd EXCEPT ![c] = para[c]]
  /\ UNCHANGED <<backlog, sock, server, para, req, resp, queue, receiver, history>>

\* recv returns a request whose type and URI can be told apart.
HttpRecv(c) ==
  /\ HandlerAt(c, "recv", "reset")
  /\ UNCHANGED <<backlog, sock, server, para, hfd, req, resp, queue, receiver, history>>

\* A plausible slip: the error path returns without closing the socket.
HttpRejectNoClose(c) ==
  /\ HandlerAt(c, "recv", "gone")
  /\ UNCHANGED <<backlog, sock, server, para, hfd, req, resp, queue, receiver, history>>

\* recv fails or times out, or its bytes hold no "HTTP" or no blank: the
\* handler goes to requst_error.
HttpReject(c) ==
  /\ HandlerAt(c, "recv", "close")
  /\ UNCHANGED <<backlog, sock, server, para, hfd, req, resp, queue, receiver, history>>

\* A plausible slip: the queue is not emptied.
HttpResetDropped(c) ==
  /\ HandlerAt(c, "reset", "send")
  /\ UNCHANGED <<backlog, sock, server, para, hfd, req, resp, queue, receiver, history>>

\* xQueueReset.
HttpReset(c) ==
  /\ HandlerAt(c, "reset", "send")
  /\ queue' = << >>
  /\ UNCHANGED <<backlog, sock, server, para, hfd, req, resp, receiver, history>>

\* A plausible slip: the newest command goes to the front of the queue.
HttpSendFront(c) ==
  /\ HandlerAt(c, "send", "reply")
  /\ queue' = <<c>> \o queue /\ posted' = Append(posted, c)
  /\ UNCHANGED <<backlog, sock, server, para, hfd, req, resp, receiver, ran>>

\* xQueueSend without waiting; a full queue refuses the command, which is then
\* only reported on the console.
HttpSend(c) ==
  /\ HandlerAt(c, "send", "reply")
  /\ IF Len(queue) < QueueLen
     THEN queue' = Append(queue, c) /\ posted' = Append(posted, c)
     ELSE UNCHANGED <<queue, posted>>
  /\ UNCHANGED <<backlog, sock, server, para, hfd, req, resp, receiver, ran>>

\* The answer: the page for GET, 400 for anything else.  my_write may fail and
\* its result is ignored, so the client sees all or a part of the answer.
HttpReply(c) ==
  /\ HandlerAt(c, "reply", "close")
  /\ resp' = [resp EXCEPT ![c] = IF req[c].method = "GET" THEN "200" ELSE "400"]
  /\ UNCHANGED <<backlog, sock, server, para, hfd, req, queue, receiver, history>>

\* A plausible slip: the reset of the queue that is commented out before the
\* close put back.
HttpCloseReset(c) ==
  /\ HandlerAt(c, "close", "gone")
  /\ sock' = [d \in Conn |-> IF sock[d] = hfd[c] THEN NoFd ELSE sock[d]]
  /\ queue' = << >>
  /\ UNCHANGED <<backlog, server, para, hfd, req, resp, receiver, history>>

\* close(fd), and the task deletes itself.
HttpClose(c) ==
  /\ HandlerAt(c, "close", "gone")
  /\ sock' = [d \in Conn |-> IF sock[d] = hfd[c] THEN NoFd ELSE sock[d]]
  /\ UNCHANGED <<backlog, server, para, hfd, req, resp, queue, receiver, history>>

-----------------------------------------------------------------------------
(* The task web_recdata, as the queue sees it.                              *)

\* xQueueReceive returns the oldest command.
Dequeue ==
  /\ busy < recs /\ queue # << >>
  /\ queue' = Tail(queue) /\ ran' = Append(ran, Head(queue))
  /\ busy' = busy + 1
  /\ UNCHANGED <<backlog, sock, server, handlers, req, urlRecHandle, recs, posted>>

\* A plausible slip: a completion counted without a command.
CommandDoneTwice ==
  /\ recs > 0 /\ busy' = busy - 1
  /\ UNCHANGED <<backlog, sock, server, handlers, req, queue, urlRecHandle, recs, history>>

\* The command is carried out and the task waits on the queue again.
CommandDone ==
  /\ busy > 0 /\ busy' = busy - 1
  /\ UNCHANGED <<backlog, sock, server, handlers, req, queue, urlRecHandle, recs, history>>

-----------------------------------------------------------------------------
Handler(c) ==
  \/ HttpStart(c) \/ HttpRecv(c) \/ HttpReject(c) \/ HttpReset(c)
  \/ HttpSend(c) \/ HttpReply(c) \/ HttpClose(c)

Server ==
  \/ Listen \/ (\E f \in Fd : Accept(f)) \/ AcceptFail
  \/ (\E ok \in BOOLEAN : CreateReceiver(ok) \/ CreateHandler(ok)) \/ Again

Next ==
  \/ \E c \in Conn, r \in Request : Connect(c, r)
  \/ Server
  \/ \E c \in Conn : Handler(c)
  \/ Dequeue \/ CommandDone

\* Every task that can run is run in the end (recv and send give up after the
\* ten seconds set with setsockopt); clients promise nothing.
Fairness ==
  /\ WF_wvars(Server)
  /\ \A c \in Conn : WF_wvars(Handler(c))
  /\ WF_wvars(Dequeue) /\ WF_wvars(CommandDone)

Spec == Init /\ [][Next]_wvars /\ Fairness

-----------------------------------------------------------------------------
(* Properties.                                                              *)

HandlerPc == {"none", "ready", "recv", "reset", "send", "reply", "close", "gone",
              "leaked", "dropped"}

\* Every variable of the three kinds of tasks, of lwIP and of the queue keeps
\* its type.
TypeOK ==
  /\ backlog \in Seq(Conn)
  /\ sock \in [Conn -> Fd \cup {NoFd}]
  /\ wpc \in {"start", "accept", "receiver", "task", "pause", "dead"}
  /\ acc \in Conn \cup {NoConn}
  /\ wpc \in {"receiver", "task"} => acc \in Conn
  /\ new_fd \in Fd \cup {NoFd}
  /\ hpc \in [Conn -> HandlerPc]
  /\ para \in [Conn -> Fd \cup {NoFd}]
  /\ hfd \in [Conn -> Fd \cup {NoFd}]
  /\ req \in [Conn -> Request \cup {NoReq}]
  /\ resp \in [Conn -> {"none", "200", "400"}]
  /\ queue \in Seq(Conn)
  /\ urlRecHandle \in {"NULL", "set"} /\ recs \in Nat /\ busy \in Nat
  /\ posted \in Seq(Conn) /\ ran \in Seq(Conn)

\* A handler that has copied its descriptor and not closed it yet.
Working(c) == hpc[c] \in {"recv", "reset", "send", "reply", "close"}
Sending == {c \in Conn : hpc[c] = "send"}

\* Each handler reads from, answers on and closes the socket of its own
\* connection, and no two of them share one, however accepts, task starts and
\* closes interleave (the descriptor travels through a heap cell per
\* connection, and lwIP reuses the numbers).
HandlerOwnsSocket ==
  /\ \A c \in Conn : Working(c) => hfd[c] \in Fd /\ hfd[c] = sock[c]
  /\ \A c, d \in Conn : c # d /\ Working(c) /\ Working(d) => hfd[c] # hfd[d]

\* No open socket is without an owner, except one whose handler task could not
\* be created: the server holds it, its handler is live, or it is leaked.
OpenSocketOwned ==
  \A c \in Conn : sock[c] # NoFd =>
    \/ wpc \in {"receiver", "task"} /\ acc = c
    \/ hpc[c] = "ready" \/ Working(c) \/ hpc[c] = "leaked"

\* A command sent by a handler is never refused: a handler empties the queue
\* before it posts, so the entries and the handlers about to post together
\* are never more than the sockets, which are fewer than the queue's places.
QueueHasRoom == Len(queue) + Cardinality(Sending) <= Cardinality(Fd)
SendNeverRefused == \A c \in Conn : hpc[c] = "send" => Len(queue) < QueueLen

\* The command posted last.
Newest == IF posted = << >> THEN NoConn ELSE Last(posted)

\* The newest command is never lost, although every handler throws away what
\* the queue holds: it is still queued or was carried out, unless another
\* handler stands between its reset and its own post.
NewestSurvives ==
  \/ posted = << >>
  \/ Sending # {}
  \/ Newest \in Range(queue) \cup Range(ran)

\* A client that has its answer has had its command accepted by the queue.
AnsweredMeansPosted == \A c \in Conn : resp[c] # "none" => c \in Range(posted)

\* Motors are driven by one command at a time (the reason webserver.c:525-527
\* gives for the queue): there is one receiver, created once, and it executes
\* one command.
OneCommandAtATime == recs <= 1 /\ busy <= recs

\* Commands run in the order in which the handlers posted them, whatever was
\* thrown away between two of them.
Before(s, c, d) == \E k, l \in 1..Len(s) : k < l /\ s[k] = c /\ s[l] = d
RunsInPostOrder == \A i, j \in 1..Len(ran) : i < j => Before(posted, ran[i], ran[j])

\* Every connection that got a handler is closed and its socket freed, whatever
\* the client does.
ConnectionReleased == \A c \in Conn : hpc[c] = "ready" ~> (hpc[c] = "gone" /\ sock[c] = NoFd)

\* Once the receiver exists, the newest command is carried out in the end, or
\* a newer one takes its place.
NewestRuns ==
  \A c \in Conn :
    (recs > 0 /\ Newest = c) ~> (c \in Range(ran) \/ Newest # c)

-----------------------------------------------------------------------------
(* The queue between the handlers and the receiver is a mailbox.            *)

\* Pending are the last Len(queue) commands of the log; a handler owes its
\* command from xQueueReset to xQueueSend.
M == INSTANCE Mailbox WITH
       Cmd <- Conn, log <- posted, next <- Len(posted) - Len(queue) + 1,
       owed <- Sending, done <- ran

\* Handlers that reset and post in any order and a receiver that takes between
\* them implement the mailbox: every command runs at most once and in the order
\* of the posts, and xQueueReset only ever drops a command for a newer one.
MailboxImplemented == M!Spec

-----------------------------------------------------------------------------
(* Strengthenings that make the safety properties inductive.                *)

\* Connections waiting for accept: no socket, no handler, none twice.
BacklogFresh ==
  /\ \A i \in 1..Len(backlog) :
       req[backlog[i]] # NoReq /\ hpc[backlog[i]] = "none" /\ sock[backlog[i]] = NoFd
  /\ \A i, j \in 1..Len(backlog) : i # j => backlog[i] # backlog[j]

\* A connection no client has opened yet.
UnusedFresh ==
  \A c \in Conn : req[c] = NoReq => hpc[c] = "none" /\ sock[c] = NoFd

\* The connection webserver holds between accept and the handler's creation.
AcceptedHeld ==
  wpc \in {"receiver", "task"} =>
    /\ new_fd \in Fd /\ sock[acc] = new_fd /\ hpc[acc] = "none"

\* The descriptor on its way to a handler, and no socket used twice.
SocketsDistinct ==
  /\ \A c \in Conn : hpc[c] = "ready" => para[c] \in Fd /\ para[c] = sock[c]
  /\ \A c \in Conn : Working(c) => hfd[c] \in Fd /\ hfd[c] = sock[c]
  /\ \A c, d \in Conn : c # d /\ sock[c] # NoFd => sock[c] # sock[d]

\* A handler past its post has posted.
PostedBeforeAnswer ==
  \A c \in Conn : hpc[c] = "reply" \/ resp[c] # "none" => c \in Range(posted)

\* The order of the posts holds through the queue.
OrderKept ==
  /\ RunsInPostOrder
  /\ \A i \in 1..Len(ran), j \in 1..Len(queue) : Before(posted, ran[i], queue[j])
  /\ \A i, j \in 1..Len(queue) : i < j => Before(posted, queue[i], queue[j])
  /\ Range(ran) \cup Range(queue) \subseteq Range(posted)

\* The handle tells whether the receiver exists.
HandleCounts == recs = (IF urlRecHandle = "set" THEN 1 ELSE 0) /\ busy <= recs

\* What is in the queue are the commands posted last.
QueueIsSuffix ==
  /\ Len(queue) <= Len(posted)
  /\ \A i \in 1..Len(queue) : queue[i] = posted[Len(posted) - Len(queue) + i]

\* NewestSurvives said more sharply: unless another handler is about to post, an
\* empty queue means that the newest command is the one taken last.
NewestTaken ==
  \/ posted = << >> \/ Sending # {} \/ queue # << >>
  \/ ran # << >> /\ Last(ran) = Last(posted)

\* Commands, queued or taken, come from connections that sent a request.
CommandsKnown ==
  /\ \A i \in 1..Len(queue) : req[queue[i]] # NoReq
  /\ ran # << >> => req[Last(ran)] # NoReq
=============================================================================
