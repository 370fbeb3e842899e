------------------------------ MODULE Firmware ------------------------------
(***************************************************************************)
(* The robot from reset on (main.c): app_main sets up motors, servos,      *)
(* WiFi, the DNS task and the web server, aborts into a reboot where it    *)
(* checks a result and goes on where it does not; then phones join, ask    *)
(* for names (DnsServer) and open connections, each of which takes a heap  *)
(* cell for good and a task stack until the idle task frees it, the first  *)
(* one the memory of web_recdata too (webserver.c:533-573).                *)
(* WebServer has the connections in detail; here they only use memory.     *)
(***************************************************************************)
EXTENDS DnsServer

CONSTANTS
  MaxStation,  \* wifi_ap_config.ap.max_connection, 3
  HeapSize,    \* the free heap when app_main ends, in units of a cell
  Stack,       \* what a handler task takes, in the same unit
  RecStack,    \* what the task web_recdata takes
  RecBuf,      \* what web_recdata allocates for itself (pTempBuf, 1024 bytes)
  NetMax,      \* bound on what lwIP and WiFi hold for connections and packets
  Sockets      \* the sockets left for accepted connections

ASSUME HeapAssumption ==
  /\ HeapSize \in Nat /\ Stack \in Nat /\ RecStack \in Nat /\ RecBuf \in Nat
  /\ NetMax \in Nat /\ Sockets \in Nat

VARIABLES
  bpc,       \* the step of app_main that comes next
  ready,     \* the steps that succeeded since the last reset
  joined,    \* the phones on the access point
  heap,      \* free heap
  conns,     \* connections accepted since the last reset
  handlers,  \* handler tasks with their socket open
  deleted,   \* handler tasks past close whose stack is not freed yet
  leaked,    \* sockets accepted without a task to close them
  receiver,  \* web_recdata: "none", "created" (urlRecHandle is set), "ready"
  recmem,    \* what web_recdata holds of the heap
  net,       \* what lwIP and WiFi hold of it
  peak       \* history: the most handler stacks held at once since the last reset

boot == <<bpc, ready>>
mem  == <<heap, conns, handlers, deleted, leaked, receiver, recmem, net, peak>>
vars == <<dvars, boot, joined, mem>>

\* A plausible slip: the task that uses the queue started before the queue.
BootOrderQueueLast ==
  <<"Chassis_Init", "Gimbal_server_start", "FIRE_Init", "nvs_flash_init",
    "initialise_wifi", "dns_server_start", "webserver_task", "xQueueCreate">>

\* The calls of app_main, web_server_start's two included.
BootOrder ==
  <<"Chassis_Init", "Gimbal_server_start", "FIRE_Init", "nvs_flash_init",
    "initialise_wifi", "dns_server_start", "xQueueCreate", "webserver_task">>

\* ESP_ERROR_CHECK aborts, and web_server_start restarts without its queue.
Checked == {"nvs_flash_init", "initialise_wifi", "xQueueCreate"}
\* The result of xTaskCreate is ignored.
Ignored == {"dns_server_start", "webserver_task"}

Booted == bpc > Len(BootOrder)
Running(step) == step \in ready

Init ==
  /\ DnsInit /\ bpc = 1 /\ ready = {} /\ joined = {}
  /\ heap = HeapSize /\ conns = 0 /\ handlers = 0 /\ deleted = 0 /\ leaked = 0
  /\ receiver = "none" /\ recmem = 0 /\ net = 0 /\ peak = 0

-----------------------------------------------------------------------------
(* app_main.                                                                *)

\* All of RAM is lost; the phones drop off and keep their questions.
Reset ==
  /\ bpc' = 1 /\ ready' = {} /\ joined' = {}
  /\ heap' = HeapSize /\ conns' = 0 /\ handlers' = 0 /\ deleted' = 0 /\ leaked' = 0
  /\ receiver' = "none" /\ recmem' = 0 /\ net' = 0 /\ peak' = 0
  /\ sock' = "none" /\ dpc' = "none" /\ data' = Unwritten /\ len' = 0
  /\ cur' = NoQ /\ verdict' = "none" /\ inbox' = << >>
  /\ UNCHANGED waiting

\* The next call succeeds; dns_server_start creates the DNS task.
BootStep ==
  /\ ~Booted /\ bpc' = bpc + 1 /\ ready' = ready \cup {BootOrder[bpc]}
  /\ dpc' = IF BootOrder[bpc] = "dns_server_start" THEN "create" ELSE dpc
  /\ UNCHANGED <<joined, mem, sock, data, len, cur, verdict, inbox, waiting>>

\* A checked call fails: abort and reboot, or esp_restart.
BootAbort ==
  /\ ~Booted /\ BootOrder[bpc] \in Checked
  /\ Reset

\* xTaskCreate fails and nobody notices: the service is missing.
BootSkip ==
  /\ ~Booted /\ BootOrder[bpc] \in Ignored
  /\ bpc' = bpc + 1
  /\ UNCHANGED <<dvars, ready, joined, mem>>

-----------------------------------------------------------------------------
(* The access point.                                                        *)

\* SYSTEM_EVENT_AP_STAIPASSIGNED and SYSTEM_EVENT_AP_STADISCONNECTED, which
\* event_handler only logs.  The station events it has cases for do not occur
\* in WIFI_MODE_AP.
Join(p) ==
  /\ Running("initialise_wifi") /\ p \notin joined /\ Cardinality(joined) < MaxStation
  /\ joined' = joined \cup {p}
  /\ UNCHANGED <<dvars, boot, mem>>

Leave(p) ==
  /\ p \in joined /\ joined' = joined \ {p}
  /\ UNCHANGED <<dvars, boot, mem>>

PhoneAsks(p) ==
  /\ p \in joined
  /\ (\E q \in Datagram : Ask(p, q)) \/ AskAgain(p) \/ GiveUp(p)
  /\ UNCHANGED <<boot, joined, mem>>

OtherAsks ==
  /\ Running("initialise_wifi")
  /\ \E q \in Datagram : Noise(q)
  /\ UNCHANGED <<boot, joined, mem>>

\* An answer to a phone that has left is lost.
DnsStep ==
  /\ \/ DnsOpen \/ Recv \/ RecvError \/ Drop \/ DnsAgain
     \/ \E a \in BOOLEAN : Answer(a) /\ (a => cur.from \in joined \cup {Other})
  /\ UNCHANGED <<boot, joined, mem>>

-----------------------------------------------------------------------------
(* Connections as the heap sees them.                                       *)

CanAccept == Running("webserver_task") /\ handlers + leaked < Sockets

\* A plausible slip: web_recdata is created again for every connection (the
\* call commented out at webserver.c:567-570).
LeftEveryTime == IF heap >= RecStack THEN heap - RecStack ELSE heap

\* What is left after web_recdata was created, at the first connection that finds
\* the memory for it.
Left == IF receiver = "none" /\ heap >= RecStack THEN heap - RecStack ELSE heap

\* malloc gives the cell; xTaskCreate gives the task if a stack is left, and
\* otherwise the socket stays open without an owner.
Stacks == handlers + deleted
HttpAccept ==
  /\ CanAccept /\ Left > 0 /\ conns' = conns + 1
  /\ receiver' = IF receiver = "none" /\ heap >= RecStack THEN "created" ELSE receiver
  /\ recmem' = recmem + (heap - Left)
  /\ IF Left - 1 >= Stack
     THEN /\ heap' = Left - 1 - Stack /\ handlers' = handlers + 1 /\ UNCHANGED leaked
          /\ peak' = IF Stacks < peak THEN peak ELSE Stacks + 1
     ELSE heap' = Left - 1 /\ leaked' = leaked + 1 /\ UNCHANGED <<handlers, peak>>
  /\ UNCHANGED <<dvars, boot, joined, deleted, net>>

\* malloc returns NULL, *para_fd = new_fd faults, and the panic handler reboots.
HttpPanic ==
  /\ CanAccept /\ Left = 0
  /\ Reset

\* web_recdata runs for the first time and allocates pTempBuf, which it never
\* uses or frees; nobody looks at the result.
RecStart ==
  /\ receiver = "created" /\ receiver' = "ready"
  /\ LET got == IF heap >= RecBuf THEN RecBuf ELSE 0
     IN  heap' = heap - got /\ recmem' = recmem + got
  /\ UNCHANGED <<dvars, boot, joined, conns, handlers, deleted, leaked, net, peak>>

\* A plausible slip: a task that has deleted itself is deleted by its creator too.
HandlerCloseTwice ==
  /\ Stacks > 0 /\ handlers' = handlers - 1 /\ deleted' = deleted + 1
  /\ UNCHANGED <<dvars, boot, joined, heap, conns, leaked, receiver, recmem, net, peak>>

\* close(fd) and vTaskDelete(NULL): the socket may be taken by the next
\* connection, the stack stays until the idle task runs, the cell for good.
HandlerClose ==
  /\ handlers > 0 /\ handlers' = handlers - 1 /\ deleted' = deleted + 1
  /\ UNCHANGED <<dvars, boot, joined, heap, conns, leaked, receiver, recmem, net, peak>>

\* The idle task frees the stack of a deleted task, whenever it gets to run.
IdleFrees ==
  /\ deleted > 0 /\ deleted' = deleted - 1 /\ heap' = heap + Stack
  /\ UNCHANGED <<dvars, boot, joined, conns, handlers, leaked, receiver, recmem, net, peak>>

\* lwIP and WiFi take buffers and control blocks and give them back.
NetMemory ==
  /\ Running("initialise_wifi")
  /\ \E n \in 0..NetMax : n - net <= heap /\ net' = n /\ heap' = heap - (n - net)
  /\ UNCHANGED <<dvars, boot, joined, conns, handlers, deleted, leaked, receiver, recmem, peak>>

Next ==
  \/ BootStep \/ BootAbort \/ BootSkip
  \/ \E p \in Phone : Join(p) \/ Leave(p) \/ PhoneAsks(p)
  \/ OtherAsks \/ DnsStep
  \/ HttpAccept \/ HttpPanic \/ RecStart \/ HandlerClose \/ IdleFrees \/ NetMemory

\* The DNS task runs, and recvfrom on a good socket returns a waiting datagram in
\* the end.  A phone that stays keeps asking, gets through the mailbox now and
\* then, and not every answer to it is lost.  Nothing is assumed of app_main: a
\* DNS task without a socket, four priorities above it, may keep it from running.
Receives == Recv /\ UNCHANGED <<boot, joined, mem>>
Lands(p) == p \in joined /\ Len(inbox) < Mbox /\ sock = "ok" /\ AskAgain(p)
              /\ UNCHANGED <<boot, joined, mem>>
Hears(p) == cur # NoQ /\ cur.from = p /\ p \in joined /\ Answer(TRUE)
              /\ UNCHANGED <<boot, joined, mem>>
Fairness ==
  /\ WF_vars(DnsStep) /\ WF_vars(Receives)
  /\ \A p \in Phone : SF_vars(Lands(p)) /\ SF_vars(Hears(p))

Spec == Init /\ [][Next]_vars /\ Fairness

-----------------------------------------------------------------------------
(* Properties.                                                              *)

\* Every variable keeps its type.
TypeOK ==
  /\ DnsTypeOK
  /\ bpc \in 1..Len(BootOrder) + 1 /\ ready \subseteq Range(BootOrder)
  /\ joined \subseteq Phone
  /\ heap \in 0..HeapSize /\ conns \in 0..HeapSize
  /\ handlers \in 0..Sockets /\ deleted \in Nat /\ leaked \in 0..Sockets
  /\ receiver \in {"none", "created", "ready"} /\ recmem \in 0..RecStack + RecBuf
  /\ net \in 0..NetMax /\ peak \in Nat

\* The first connection may come as soon as the web task exists, while app_main
\* is still running: by then motors, servos and the queue that the handlers
\* post to are set up.
ReadyBeforeUse ==
  conns > 0 => {"Chassis_Init", "Gimbal_server_start", "FIRE_Init", "xQueueCreate"} \subseteq ready

\* How long the cells that are never freed let the robot live: they are all that
\* is lost.  For as many connections as the heap has cells beside web_recdata,
\* the network's buffers and one stack more than were ever held at once (closed
\* connections' stacks that the idle task had not freed included), no accepted
\* socket is left without its handler, malloc does not fail, and whoever was
\* accepted has a receiver for his command.
HeapHasRoom == conns + (peak + 1) * Stack + RecStack + RecBuf + NetMax < HeapSize
HeapLasts ==
  HeapHasRoom =>
    /\ leaked = 0 /\ (conns > 0 => receiver # "none")
    /\ CanAccept => Left > Stack

\* A phone that stays on the access point and asks for a welcome name is
\* answered in the end, whatever the others ask, unless the DNS task has no
\* socket or was never created.
DnsUp == dpc # "none" /\ sock # "bad"
NameAnswered ==
  \A p \in Phone :
    (Welcome(waiting[p]) /\ p \in joined /\ DnsUp)
      ~> (waiting[p] = NoQ \/ p \notin joined \/ ~DnsUp)

-----------------------------------------------------------------------------
(* Strengthenings that make the safety properties inductive.                *)

\* app_main has got past a step only if it succeeded or is not checked; the web
\* task is its last step, and nobody connects before.
BootPrefix ==
  /\ \A k \in 1..Len(BootOrder) :
       k < bpc /\ BootOrder[k] \notin Ignored => BootOrder[k] \in ready
  /\ "webserver_task" \in ready => Booted
  /\ conns > 0 => "webserver_task" \in ready

\* The heap is the cells of the connections so far, the stacks in use, what
\* web_recdata and what the network holds.
HeapAccounted ==
  /\ heap + conns + Stacks * Stack + recmem + net = HeapSize
  /\ recmem <= RecStack + RecBuf /\ net <= NetMax /\ Stacks <= peak
  /\ receiver = "none" => recmem = 0
  /\ receiver = "created" => recmem = RecStack
  /\ handlers + leaked <= Sockets
  /\ HeapHasRoom => leaked = 0 /\ (conns > 0 => receiver # "none")
=============================================================================
