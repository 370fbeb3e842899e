------------------------------ MODULE Infantry ------------------------------
(***************************************************************************)
(* The robot under a hand: the control page (index.html) in a browser, the *)
(* HTTP server with its queue (WebServer) and the receiver task with the   *)
(* motors (WebRecdata), composed.  A command travels from the stick through *)
(* a fetch, a connection, a handler task and the queue to the pins.        *)
(***************************************************************************)
EXTENDS Integers, Sequences, FiniteSets

CONSTANTS
  Conn, Fd, Backlog, QueueLen, NoConn, NoFd, NoReq,            \* WebServer
  UIntMod, ServoDelay, LoopDelay, WdtTicks, Preempt, MaxWait,  \* WebRecdata
  Cells,     \* the stick cells the hand may move to: <<x, y>>
  Buttons    \* the commands of the page's buttons

VARIABLES
  backlog, sock, wpc, acc, new_fd, hpc, para, hfd, req, resp, queue,
  urlRecHandle, recs, busy, posted, ran,
  rpc, url, todo, level, angle, duty, delay, wdt, waited, lost, last,
  stick,   \* LastX, LastY of the page (NoCell before its script has run)
  held,    \* a finger or the mouse button is down on the stick
  fetch    \* the fetches issued and not connected yet

Centre == <<5, 5>>
NoCell == << >>

\* "/rocker?val=" and the two coordinates with two digits each.
RockerUrl(cell) == [key |-> "rocker", val |-> 100 * cell[1] + cell[2]]
\* "/", or any other path that web_recdata has no word for.
PageUrl == [key |-> "other", val |-> 0]
Urls == {RockerUrl(cell) : cell \in Cells \cup {Centre}} \cup Buttons \cup {PageUrl}
Get(u) == [method |-> "GET", url |-> u]
Request == {Get(u) : u \in Urls}

W == INSTANCE WebServer
R == INSTANCE WebRecdata

\* The assumptions of the two components.
ASSUME ServerAssumption ==
  /\ NoConn \notin Conn /\ NoReq \notin Request /\ Backlog \in Nat
  /\ IsFiniteSet(Fd) /\ NoFd \notin Fd
  /\ QueueLen \in Nat /\ Cardinality(Fd) <= QueueLen
ASSUME ReceiverAssumption ==
  /\ ServoDelay \in Nat /\ LoopDelay \in Nat /\ WdtTicks \in Nat
  /\ Preempt \in Nat /\ MaxWait \in Nat
  /\ UIntMod \in Nat /\ UIntMod > 270 * 2000

\* new_coordinate's division of pixels gives 0 to 10 in both directions, and no
\* button sends the stick's command word.
ASSUME PageAssumption ==
  /\ Cells \subseteq (0..10) \X (0..10)
  /\ Buttons \subseteq {u \in R!Url : u.key # "rocker"}

web  == <<backlog, sock, wpc, acc, new_fd, hpc, para, hfd, req, resp, queue,
          urlRecHandle, recs, busy, posted, ran>>
rec  == <<rpc, url, todo, level, angle, duty, delay, wdt, waited, lost, last>>
page == <<stick, held, fetch>>
vars == <<web, rec, page>>

\* The robot boots; the page is not loaded yet, or still open from before.
Init == W!Init /\ R!Init /\ stick \in {NoCell, Centre} /\ held = FALSE
          /\ fetch = [c \in Conn |-> NoReq]

-----------------------------------------------------------------------------
(* The page.                                                                *)

Unused(c) == fetch[c] = NoReq /\ req[c] = NoReq

\* new_coordinate: a fetch is issued only when the cell changes.
new_coordinate(cell) ==
  /\ IF cell = stick
     THEN UNCHANGED fetch
     ELSE \E c \in Conn : /\ Unused(c)
                          /\ fetch' = [fetch EXCEPT ![c] = Get(RockerUrl(cell))]
  /\ stick' = cell

\* The browser, or that of another phone, asks for the page itself or for its
\* icon; the request goes the way of a command.
Visit ==
  /\ wpc \notin {"start", "dead"}
  /\ \E c \in Conn : Unused(c) /\ fetch' = [fetch EXCEPT ![c] = Get(PageUrl)]
  /\ UNCHANGED <<web, rec, stick, held>>

\* The page has come and its script runs: it draws the stick at the centre while
\* LastX and LastY are still undefined, so the first call always fetches.
Load ==
  /\ stick = NoCell /\ \E c \in Conn : req[c] = Get(PageUrl) /\ resp[c] = "200"
  /\ new_coordinate(Centre)
  /\ UNCHANGED <<web, rec, held>>

\* The handlers ontouchstart, onmousedown and their move handlers.
Drag(cell) ==
  /\ stick # NoCell /\ wpc \notin {"start", "dead"}
  /\ held' = TRUE /\ new_coordinate(cell)
  /\ UNCHANGED <<web, rec>>

\* ontouchend and onmouseup put the stick back to the centre.  They belong to
\* the document and ontouchend is never taken away: lifting any finger centres
\* the stick, also while another one is still on it.
Release ==
  /\ stick # NoCell /\ held' \in {held, FALSE}
  /\ new_coordinate(Centre)
  /\ UNCHANGED <<web, rec>>

\* The touch is cancelled (a call, a gesture of the system) or the button let go
\* outside the window: no handler of the page runs.
Cancel ==
  /\ held /\ held' = FALSE
  /\ UNCHANGED <<web, rec, stick, fetch>>

\* A button of the page.
Press(u) ==
  /\ stick # NoCell /\ wpc \notin {"start", "dead"}
  /\ \E c \in Conn : Unused(c) /\ fetch' = [fetch EXCEPT ![c] = Get(u)]
  /\ UNCHANGED <<web, rec, stick, held>>

\* The browser opens the connection of a fetch; fetches run in parallel.
Open(c) ==
  /\ fetch[c] # NoReq
  /\ W!Connect(c, fetch[c])
  /\ fetch' = [fetch EXCEPT ![c] = NoReq]
  /\ UNCHANGED <<rec, stick, held>>

-----------------------------------------------------------------------------
(* The tasks.                                                               *)

\* The server; a receiver task it creates starts running.
ServerStep ==
  /\ W!Server
  /\ IF recs' # recs THEN R!Start ELSE UNCHANGED rec
  /\ UNCHANGED page

HandlerStep(c) == W!Handler(c) /\ UNCHANGED <<rec, page>>

\* A plausible slip: xQueuePeek leaves the command in the queue.
PeekCommand ==
  /\ queue # << >> /\ busy < recs
  /\ busy' = busy + 1 /\ ran' = Append(ran, Head(queue))
  /\ R!Receive(req[Head(queue)].url)
  /\ UNCHANGED <<backlog, sock, wpc, acc, new_fd, hpc, para, hfd, req, resp, queue,
                 urlRecHandle, recs, posted, page>>

\* The receiver takes the oldest command of the queue.
TakeCommand ==
  /\ W!Dequeue
  /\ R!Receive(req[Head(queue)].url)
  /\ UNCHANGED page

\* The receiver works on its command, and comes back to the queue.
Work ==
  /\ \/ R!Loop /\ W!CommandDone
     \/ /\ R!DispatchGimbal \/ R!Dispatch \/ R!GpioSetLevel \/ R!ServoSet \/ R!EndCommand
        /\ UNCHANGED web
  /\ UNCHANGED page

Tick == R!Tick /\ UNCHANGED <<web, page>>

Next ==
  \/ Visit \/ Load
  \/ \E cell \in Cells : Drag(cell)
  \/ Release \/ Cancel
  \/ \E u \in Buttons : Press(u)
  \/ \E c \in Conn : Open(c) \/ HandlerStep(c)
  \/ ServerStep \/ TakeCommand \/ Work \/ Tick

\* The tasks run and time passes; the hand and the browser promise nothing.
Fairness ==
  /\ WF_vars(ServerStep) /\ \A c \in Conn : WF_vars(HandlerStep(c))
  /\ WF_vars(TakeCommand) /\ WF_vars(Work) /\ WF_vars(Tick)

Spec == Init /\ [][Next]_vars /\ Fairness

-----------------------------------------------------------------------------
(* Properties.                                                              *)

\* Every request has been dealt with and the receiver waits on an empty queue.
Quiet ==
  /\ \A c \in Conn : fetch[c] = NoReq
  /\ \A c \in Conn : req[c] # NoReq => hpc[c] \in {"gone", "leaked", "dropped"}
  /\ queue = << >> /\ rpc \in {"absent", "recv"}

\* When everything has settled, the wheels (or the friction wheels) do what the
\* last command that reached the queue asked (a page load stops the wheels),
\* whatever was thrown away by xQueueReset on the way and however handlers,
\* receiver and pin writes interleaved.
NewestObeyed ==
  (Quiet /\ recs > 0 /\ posted # << >>) =>
    LET u == req[W!Newest].url
    IN  /\ u.key = "rocker" => R!Obeys(level, u.val \div 100, u.val % 100)
        /\ u.key = "other" => R!Stopped(level)
        /\ u.key = "blaste" => R!Spin(level, R!friction) = 1

\* The composition behaves as WebServer says, its fairness included: the
\* receiver always comes back for the next command.
ServerImplemented == W!Spec

\* What index.html:303-308 and webserver.c:411-417 say together: letting go of
\* the stick sends the centre, and the centre stops the chassis.  So when the
\* stick is released, every fetch was answered with 200 and all is quiet, the
\* robot stands.
RestAfterRelease ==
  ( /\ Quiet /\ ~held /\ stick = Centre
    /\ \A c \in Conn : req[c] # NoReq => resp[c] = "200" ) => R!Stopped(level)

-----------------------------------------------------------------------------
(* A strengthening that makes NewestObeyed inductive.                       *)

\* The receiver's command is the one taken last from the queue and, once it is
\* carried out, the one recorded for the hardware it addresses.
CommandTaken ==
  ran # << >> =>
    /\ req[W!Last(ran)].url = url /\ rpc # "absent"
    /\ R!AtRest => \A g \in R!Groups : R!InGroup(url, g) => last[g] = url
=============================================================================
