# A TLA+ model of the infantry robot's control software

The repository is the firmware of a small ESP32 robot (four omni wheels, a
two-axis gimbal, a launcher) that a phone drives through a web page the robot
itself serves. This directory models the program's own code in TLA+, checks
the models with TLC on small instances, and proves the main safety properties
with TLAPS for every instance.

## The system

### Components

| Component | Source | State it keeps | Operations |
|---|---|---|---|
| Chassis motors | `main/Chassis` | eight output pins | `Chassis_En`, `_Forward`, `_Backward`, `_Left`, `_Right`, `_Left_revolve`, `_Right_revolve` |
| Launcher | `main/FIRE` | four output pins | `Fire_friction_wheel`, `Fire_Pluck_Run`, `Stop_Fire_friction`, `Stop_Fire_Pluck` |
| Gimbal | `main/Gimbal` | two recorded angles (`global_Yaw_Angle`, `global_Pitch_Angle`), two PWM pulses | `servo_set_angle_To`, `Gimbal_server_start` |
| Receiver task | `web_recdata` in `components/web_server/webserver.c` | the received URL, its watchdog subscription | one loop: reset the watchdog, receive, dispatch, delay |
| Accept loop | `webserver`, same file | `new_fd`, `urlRecHandle`, one heap cell per connection | accept, create the receiver once, create a handler |
| Request handlers | `handle_http_request`, `my_write`, same file | `fd`, the request, `ptr` and `bytes_left` of the answer | receive, parse, reset the queue, post, answer in a loop of sends, close |
| URL queue | `URLString_queue`, length 30 | the pending commands | `xQueueReset`, `xQueueSend`, `xQueueReceive` |
| Control page | `components/web_server/index.html` | `LastX`, `LastY`, the handlers of the running touch | page request, load, drag, release, cancelled touch, nine buttons; a `fetch` each |
| Captive DNS server | `components/dns_server` | one socket, one buffer that is never cleared | receive, filter, answer, delay |
| Boot and WiFi | `main/main.c` | how far `app_main` got, the stations | `app_main` with its aborts, `event_handler`, `initialise_wifi` |
| LED, `Robot_Control`, `ws_echo_server.c` | | | not used by the running firmware |

### How they interact

A touch on the page becomes a `fetch`; every `fetch` is a connection of its own
(the server closes each connection after one answer). `webserver` accepts it
and starts a `handle_http_request` task, which reads one request, **empties**
the URL queue, posts its own command there, answers with the page (or 400) and
closes. The single `web_recdata` task, created at the first connection, takes
commands out and writes the motors' pins or the servos' pulses, one command at
a time. All of these are FreeRTOS tasks on two cores; they meet only in the
queue, in lwIP's socket table and in the heap cells that carry descriptors.
`app_main` sets up motors and servos first and the web task last, aborting into
a reboot where it checks a result; the DNS task answers every name a phone asks
for with the robot's own address, so that any page opens the control page.

### What is hard, and what makes each part correct

* **Queue.** Every handler resets the queue between other handlers' posts and
  the receiver's takes. Correct: the newest command is never the one lost,
  posts are never refused, commands run in the order of their posts, one at a
  time.
* **Sockets.** Descriptors are reused while handlers are still starting;
  accepts, task creations and requests fail. Correct: a handler touches only
  its own connection's socket, every open socket has an owner, every served
  connection is released.
* **Order.** Nothing orders two fetches of the page. What the code can promise
  is about the command *posted* last; about the command *sent* last it promises
  nothing (finding `release`).
* **Dispatch.** The stick's seven tests overlap and are not exclusive, motor
  functions write eight pins one at a time, and the launcher shares the code.
  Correct: between commands each motor group does what its own last command
  asked.
* **Angles.** Signed in the caller, unsigned in the callee, clamped in both.
  Correct: no sequence of presses throws a servo to the other end stop.
* **Answers.** A `send` may take less than it is given, be interrupted or time
  out, and nobody reads what `my_write` returns. Correct: a phone sees a
  beginning of the right answer or nothing, a result of 0 means the message was
  handed over, the handler ends.
* **DNS buffer.** 128 bytes that keep what earlier requests and answers left,
  searched as a C string past the datagram's end, extended by 16 bytes in
  place. Correct: a name is judged and answered by its own bytes only and the
  answer fits.
* **Boot and heap.** Unchecked task creations and an unchecked `malloc` whose
  cell is never freed; a closed connection's stack comes back only when the idle
  task runs, and lwIP and WiFi allocate from the same heap. Correct: nobody is
  served before everything is set up, and it is known how many connections the
  heap lasts for.
* **Watchdog.** Reset before a wait without limit (the code has a TODO asking
  why it fires at times). Correct: only a long wait can make it fire.

## Modules

| Module | Models | Extends |
|---|---|---|
| `Chassis` | motion functions as sequences of pin writes, in the code's order | |
| `Fire` | launcher functions, all pins, levels at boot | `Chassis` |
| `Gimbal` | clamps, conversion to `uint32_t`, pulse formula, boot position | |
| `WebRecdata` | the receiver task with pins, servos, delays and watchdog | `Fire`, `Gimbal` |
| `WebServer` | accept loop, handlers, queue, socket table; the receiver seen from the queue | |
| `Infantry` | page, `WebServer` and `WebRecdata` composed | instances of both |
| `Mailbox` | abstract: a mailbox in which the newest command wins | |
| `MyWrite` | `my_write` and the handler's calls of it, with TCP and the phone's link | |
| `DnsServer` | the DNS task, its buffer, lwIP's mailbox and the resolvers | |
| `Firmware` | `app_main`, reboots, stations, the heap under connections | `DnsServer` |
| `MCWebRecdata`, `MCWebServer`, `MCInfantry`, `MCFirmware` | command sets, requests, datagrams and symmetry for TLC | |
| `WebRecdataProofs`, `WebServerProofs`, `FirmwareProofs`, `MyWriteProofs` | theorems | the module they are about |
| `MotorProofs` | what sequences of pin writes do to the motors; the receiver's motor properties | `WebRecdataProofs` |
| `MailboxProofs` | `WebServer` implements `Mailbox`; the command taken last | `WebServerProofs` |
| `InfantryProofs` | the composition, from the components' proofs | `Infantry`, instances of `MailboxProofs` and `MotorProofs` |

Two refinements connect them: `WebServer` implements `Mailbox`
(`MailboxImplemented`, checked and proved), and `Infantry`, with the real
receiver, implements `WebServer`, whose receiver is abstract
(`ServerImplemented`, checked with its fairness, its safety part proved).

### Correspondence with the code

**`WebRecdata`.** `rpc` is the place in the loop: `Start` is the task's entry
(`webserver.c:222-242`), `Receive` the return of `xQueueReceive`, `Dispatch` and
`DispatchGimbal` the chain of comparisons, `GpioSetLevel` one pin write,
`ServoSet` the body of `servo_set_angle_To` up to its `vTaskDelay(10)`,
`EndCommand` the way to the delay of 60 ms at the foot of the loop and `Loop`
the way back over `esp_task_wdt_reset` into `xQueueReceive`. Pins are written
one at a time, so states between two writes exist. `last` is history, by the
hardware a command addresses; no guard reads it. Time is counted in ticks of
10 ms (100 Hz in the build's configuration): blocked parts last exactly their
delay, running parts lose at most `Preempt` ticks per iteration to other tasks
and to console output. The watchdog period is the build's 5 s.

**`WebServer`.** Tasks and queue entries are named by the connection, which
carries one request. `Accept`, `CreateReceiver`, `CreateHandler` and `Again`
are one turn of the accept loop; `para` is the heap cell, `hfd` the handler's
copy of it. A handler goes through `ready`, `recv`, `reset`, `send`, `reply`,
`close`; `HttpReject` is every `goto requst_error`. `xQueueReset` and
`xQueueSend` are two steps, as in the code: other tasks run between them.
`CreateHandler(FALSE)` is a failed `xTaskCreate`, whose result the code
ignores. `Dequeue` and `CommandDone` are the receiver as the queue sees it.
`posted` and `ran` are history.

**`Infantry`.** `stick` is `LastX`, `LastY`; `fetch` holds requests issued and
not connected yet, which the browser opens in any order. `Visit` is the request
for the page itself or its icon, by this phone or another; it goes through
handler and queue like a command, and the receiver, which has no word for it,
stops the wheels. `new_coordinate` fetches only when the cell changes, except
once a page request was answered and the script starts (`Load`): it calls
`new_coordinate` before `LastX` and `LastY` are initialised, so loading always
sends the centre. The robot may also boot with the page still open from before,
hence two initial values of `stick`. `Release` is `document.ontouchend` and
`onmouseup`: the first is never taken away again and belongs to the whole
document, so lifting any finger centres the stick while another may stay on it.
`Cancel` is the touch the system takes away, for which the page has no handler:
the stick and the robot stay where they are. `TakeCommand` joins `Dequeue` with
`Receive`, and `Work` joins `Loop` with `CommandDone`.

**`Mailbox`.** `log` is `posted`, `next` the place of the queue's head in it,
`owed` the handlers between `xQueueReset` and `xQueueSend`, `done` is `ran`.
`Withdraw`, `Post` and `Take` are the three queue calls.

**`MyWrite`.** One answer. `call` counts the calls of `my_write` (header and
page for a GET, one line otherwise), `ptr` and `bytes_left` are its variables,
`Send(n)` is a `send` that takes `n` bytes, `SendInterrupted` the `EINTR`
branch, `SendFail` the `return(-1)`, after which the handler goes on with its
next call all the same (`webserver.c:204-209`). `wire` is what TCP took, `link`
what the phone does. `send` fails on a reset connection, after ten seconds
without room, or when lwIP finds no memory (`memory = "short"`).

**`DnsServer`.** `dpc` is the place in the task: `DnsOpen` is
`create_udp_socket` (whose failure the task only logs), `Recv` and `RecvError`
the two outcomes of `recvfrom` (it may fail on a good socket too, and always
does without one), `Drop` the filter's `continue`, `Answer` the
writes into the buffer and `sendto`, `DnsAgain` the end of `vTaskDelay(10)`.
`Filter` gives the results the `strstr` calls may have: where the string runs
into stack bytes that nobody has written, or out of the buffer, either. The
phones lose datagrams to a full mailbox and answers on the air, and ask again.

**`Firmware`.** `BootOrder` lists the calls of `app_main`, `web_server_start`'s
two included. `BootStep` is a call that succeeds; `BootAbort` one under
`ESP_ERROR_CHECK`, or the failed `xQueueCreate`, which reboots; `BootSkip` a
failed `xTaskCreate`, which nobody notices. `Reset` loses all of RAM.
`HttpAccept` is one turn of the accept loop as the heap sees it: the stack of
`web_recdata` if it does not exist yet (`Left`), a cell for good, a stack for a
while; `HttpPanic` is the write through a `malloc` that returned NULL.
`RecStart` is the `malloc(1024)` at the head of `web_recdata`, `HandlerClose`
the `close` and `vTaskDelete` at a handler's end, after which the socket is free
for the next connection while the stack is not; `IdleFrees` is the idle task's
part, at any later time, so more stacks may be held than there are sockets.
`NetMemory` is what lwIP and WiFi take and give back. `peak` is history: the most
stacks held at once.
`WebServer` has the same turn in detail, without memory.

### Abstractions

* A URL is its command word and its value. `web_recdata` compares five
  characters of the word and reads four characters of the value with `atoi`;
  the page sends exactly four digits followed by a blank. URLs that match no
  word (a page load, the browser's icon request) are the word `other`.
* Stick positions are cells 0..10 by 0..10, the result of the page's division
  of pixels by 60.
* Sockets are model values. `Fd` is the set left to accepted connections: of
  lwIP's 10, one each is the listener's and the DNS server's.
* lwIP, the FreeRTOS queue, scheduler and watchdog, and the browser's `fetch`
  are external: modelled from how the code uses them.
* In `WebServer` the answer is its status; `MyWrite` has its bytes, each named
  by its call and its index.
* A byte of a DNS message is one of eight letters (header, marked header, the
  two halves of an unwelcome word, other letters, NUL, answer, unwritten). The
  eight filtered words are one, the three header bytes the answer changes are
  one.
* Heap is counted in cells; `Stack`, `RecStack` and `RecBuf` are the tasks' stacks
  and the receiver's buffer in that unit. The heap does not fragment. What lwIP
  and WiFi hold beyond the set-up is any amount up to `NetMax`, which stands for
  their configured limits on control blocks, windows and receive buffers.
  `initialise_wifi` is one step: a reboot half way leaves nothing behind.
* Stations whose questions are not followed are one, `Other`.
* Console output is left out, except for the time it takes (`Preempt`).

## Runs

| Run | Instance | Shows |
|---|---|---|
| `commands` | 7 x 7 stick cells (both sides of each bound the tests use), an off-grid value, all launcher commands, stop button, unknown URL, unmatched gimbal value | types; `StickObeyed`, `LauncherObeyed` |
| `gimbal` | the four buttons, whole scale of both servos | `ServoInRange`, `ServoFollowsRecord`, `ServoStep` |
| `watchdog` | delays 10 and 6, period 500, `Preempt` 2, waits up to 505 ticks | `WatchdogNeedsIdle`, `CommandCompletes` |
| `server` | 4 connections, 2 sockets, queue of 2, GET and POST, symmetry | types, socket ownership, the queue's five properties, `MailboxImplemented` |
| `server_live` | 3 connections, 2 sockets | `ConnectionReleased`, `NewestRuns` |
| `robot` | page and visits to it, 2 connections, one drive cell, centre, one button | `NewestObeyed`, `ServerImplemented` |
| `answer` | header 3, page 8, error line 2, send buffer 4, 2 interruptions | types, `StreamIntact`, `HonestResult`, `AnswerEnds`, `AnswerArrives` |
| `firmware` | one followed phone and the others, 4 datagrams, buffer 9 of which 6 received, heap of 11, 2 sockets | types, `FilterSeesOwnName`, `AnswerFits`, `AnswerEchoes`, `ReadyBeforeUse`, `HeapLasts`, `NameAnswered` |
| `release` | page, 2 connections | violated: `RestAfterRelease` |
| `stop_button` | a drive command and the stop button | violated: `StopButtonStops` |
| `boot_record` | the gimbal buttons | violated: `RecordIsServoAngle` |
| `pluck` | the launcher's commands | violated: `PluckRunsAsDocumented` |

Why the bounds are enough. The stick's tests compare against 0, 3, 4, 5, 6, 7
and 10 only, so cells between two of these behave as their neighbours. With
steps of 10 degrees from 135, and 0 and 270 absorbing, all reachable angles of
both axes are visited. In the server, four connections over two sockets reuse
every descriptor, and two handlers at once with two more to come give every
order of two resets, two posts and a take; the queue is exactly as long as
there are sockets, the tightest case of `QueueAssumption`, and the proofs cover
all larger instances. `MaxWait` of 505 is past the watchdog's period. In
`commands`, `gimbal` and `robot` the delays are one tick: no property of these
runs is about time, and each delay still is a state of its own. `UIntMod` is
2^30 in the configurations (TLC's integers have 32 bits; the proofs need only
that the products of the pulse formula fit), where the ESP32 has 2^32.

In `answer` the page is longer than the send buffer and the header shorter, as
in the code (5744 bytes of buffer), so a call goes through several short writes
and can get stuck with the buffer full, and the header of 3 leaves one byte of
room for the page. In `firmware` the four datagrams are a welcome name, an
unwelcome one, a name cut off by `recvfrom` (its end is what an earlier request
left there) and a datagram shorter than a header; the buffer leaves one byte
beyond the longest answer, so that a record written one byte late is visible.
A mailbox of one loses datagrams at once. With 11 cells, stacks, buffer and
network of one and 2 sockets, `HeapLasts` speaks of five connections one after
the other, or of three whose stacks are all still held (one more than there are
sockets), and the run goes on through leaked sockets to the panic and the next
boot. DNS task and connections share no variable and meet only in a
reset, so the constraint `OneAtATime` lets connections begin only while the DNS
buffer is unused: each part is explored in full, and not their product. The
proofs have no such limit.

What the properties say and do not say. `StreamIntact` has one exception,
which the model reaches: when lwIP has no memory for the header and then has
some for the page, the phone gets a page without a header. `NameAnswered`
excepts the DNS task without a socket, which spins on `recvfrom`. `HeapLasts`
says how long service lasts, in terms of the most stacks that were ever held at
once; nothing in the code bounds these, since a flood of connections may keep
the idle task from running. After that service ends, since the cells are never
freed. `LauncherObeyed` is about the direction the code gives each motor; where
the header says otherwise is the finding `pluck`.

Runs in which all connections are used up have nothing left to do, so deadlock
is not checked there; the receiver's runs check it.

**Fairness.** Tasks that can run are run in the end: FreeRTOS schedules ready
tasks by priority, every task blocks or delays in each turn of its loop, and
`recv` and `send` of a handler give up after the ten seconds set with
`setsockopt`, so a silent client cannot hold a handler (it takes `HttpReject`).
Ticks are fair. Clients, the hand and the browser are not. In `MyWrite` the
handler is weakly fair (a `send` that cannot go on times out) and `Ack` strongly:
TCP retransmits, so a link that is up again and again delivers. In `Firmware`
the DNS task is weakly fair, and so is its taking of a waiting datagram
(`Receives`: `recvfrom` on a good socket does not fail forever). Of `app_main`
nothing is assumed: a DNS task without a socket goes round without a delay four
priorities above it. A phone that stays is
assumed to ask again until a question finds room in the mailbox (`Lands`) and to
hear one of infinitely many answers (`Hears`): resolvers retry, and without
either assumption nothing can be promised over UDP. Neither is assumed of a
phone that leaves.

## Proofs

All are of the form `Spec => []P` (or `Spec => [][A]_vars`), for every value of
the constants that satisfies the named assumptions.

`WebServerProofs` (assumptions: sockets are finite, `Cardinality(Fd) <=
QueueLen`, which the code's 10 and 30 satisfy, and distinct null values):

* `TypeCorrect`: `TypeOK`.
* `HandlersOwnTheirSockets`, `SocketsAccounted`: from the inductive invariant
  `BacklogFresh`, `UnusedFresh`, `AcceptedHeld`, `SocketsDistinct`: a
  connection in the backlog has neither socket nor handler, the one `webserver`
  holds has socket `new_fd`, the heap cell and then the handler's copy equal
  the connection's socket, and open sockets are distinct. `HandlerOwnsSocket`
  alone is not inductive: it says nothing of a descriptor on its way.
* `PostsAreAccepted`: `SendNeverRefused` from `QueueHasRoom`: entries plus
  handlers between reset and post are at most the number of sockets. A handler
  entering that region has just emptied the queue, and the map from handlers
  in it to sockets is injective (`SocketsDistinct`).
* `NewestNeverLost`: `NewestSurvives`, by itself with the types and the queue's
  order.
* `CommandsRunInOrder`: `RunsInPostOrder` from `OrderKept`, which extends the
  order through the queue.
* `AnswersAcknowledge`: `AnsweredMeansPosted` from `PostedBeforeAnswer` and the
  fact that posts are not refused.
* `OneReceiver`: `OneCommandAtATime` from `HandleCounts`: the handle is set
  exactly when a receiver exists.

`WebRecdataProofs` (assumptions: commands are of type `Url`, delays are
naturals, `UIntMod` exceeds the largest product of the pulse formula):

* `TypeCorrect`: `TypeOK`.
* `WatchdogOnlyWhenIdle`: `WatchdogNeedsIdle` from `WatchdogAccount`, which
  takes the watchdog's count apart into waited, lost and slept ticks for each
  place in the loop.
* `ServosStayInRange`, `ServosFollowTheRecord`, `ServosMoveInSteps`: from
  `ServoInRange`, `ServoFollowsRecord`, `CommandPlace` and `PressInProgress`:
  between the change of the record and the programming of the pulse the servo
  stands exactly one press behind the record.

`MotorProofs` (assumptions as `WebRecdataProofs`): `StickAlwaysObeyed` and
`LauncherAlwaysObeyed`, that is `StickObeyed` and `LauncherObeyed` after any
sequence of commands, for all 121 stick cells. While a command is carried out
the pins are half old and half new, so neither is inductive. `LevelsObey` says
instead that the levels which the writes still to be made lead to (`Outcome`: a
pin ends where the last write to it puts it) obey the record with the current
command counted as done. The lemmas go up from there: what one write does to an
outcome (`OutcomeStep`), what two sequences one after the other do
(`OutcomeConcat`), how each motor function makes each wheel turn and that it
leaves the launcher alone (`ChassisSteers`, `FireDrives`; the twelve pins are
distinct, `MotorsApart`), that of the stick's seven tests the last one that
holds decides and is the right one (`RockerObeys`), and that every command leads
to levels that obey it (`CommandObeys`).

`MailboxProofs` (assumptions as `WebServerProofs`): `QueueIsMailbox`, that
`WebServer` implements `Mailbox`. The step from detailed to abstract needs
`QueueIsSuffix` (the queue is the end of what was posted), so that the head of
the queue is `log[next]`, and `SendNeverRefused`, so that every post reaches the
log. `QueueInv` collects this with `NewestTaken` (an empty queue means that the
newest command was the last one taken, unless a handler is about to post) and
`CommandsKnown` for the composition.

`InfantryProofs` (assumptions: those of both components; stick cells are within
0..10 and no button sends the stick's word):

* `ServerStepsImplemented`, `ReceiverStepsImplemented`: every step of the
  composition is a step of `WebServer` or leaves its variables alone, and the
  same for `WebRecdata`. For the latter, what the receiver takes must be a
  command of the page, which needs `CommandsKnown`. So the safety theorems of
  both components hold in the robot.
* `NewestIsObeyed`: `NewestObeyed` from the components' invariants and
  `CommandTaken`: the command in the receiver is the one taken last and, once
  carried out, the one recorded for its hardware. In a quiet state no handler is
  about to post and the queue is empty, so by `NewestTaken` it is the newest one,
  and by `LevelsObey` the motors obey the record.

`MyWriteProofs` (assumptions: lengths are positive, header and error line fit
the send buffer):

* `TypeCorrect`: `TypeOK`.
* `StreamStaysIntact`, `ResultsAreHonest`: `StreamIntact` and `HonestResult` from
  `WireAccount`: the wire is the first `m` bytes of the first message followed by
  the first `n` of the second, where a call that returned 0 has its message
  whole, the running call has given away what `bytes_left` says, and a first
  message cut short means lack of memory or a reset. Neither property is
  inductive by itself: they do not say how far a running call has come.

`FirmwareProofs` (assumptions: an answer fits behind the longest datagram
received, `RecvMax + AnswerLen <= BufSize`, which 100, 16 and 128 satisfy;
datagrams consist of letters a client can send; heap, stacks and sockets are
naturals):

* `TypeCorrect`: `TypeOK`.
* `HeapLastsLong`: `HeapLasts` from `HeapAccounted`: free heap, a cell per
  connection, the stacks of running and of deleted handlers, what the receiver
  and what the network hold add up to the whole, and the stacks are never more
  than `peak`. `HeapLasts` alone is not inductive: it does not say where the
  memory is. The lemma `RoomLeft` turns the account into enough memory for the
  next connection.
* `SetUpBeforeUse`: `ReadyBeforeUse` from `BootPrefix`: what `app_main` has
  passed succeeded or is not checked, the web task is the last of it, and
  connections need the web task.
* `FilterIgnoresLeftovers`: `FilterSeesOwnName` from `BufferHoldsCurrent` (until
  the verdict the buffer begins with the datagram in work) and the lemma
  `FilterExact`: if a buffer begins with a question whose name ends within it,
  the string search ends there and finds a word exactly if the question has it.
* `AnswersFit`: `AnswerFits` from the same invariant.
* `AnswersEchoTheQuestion`: `AnswerEchoes` from the same invariant and the lemma
  `AnswerBytes`, which follows the two writes into the buffer byte by byte.

All invariants of the passing runs are proved, and the action property
`ServoStep`. Only model-checked: the liveness properties (`CommandCompletes`,
`ConnectionReleased`, `NewestRuns`, `AnswerEnds`, `AnswerArrives`,
`NameAnswered`) and the fairness part of
`ServerImplemented`; liveness under fairness is beyond the prover. The four
properties that fail have no proof, of course.

## Findings

* `release`: a drag and the release that follows are independent fetches; when
  their handlers post in the other order, the robot keeps driving with the
  stick at rest, both requests answered 200, and nothing left to do. The page
  sends the centre once and never again (`new_coordinate` compares with the
  last cell).
* `stop_button`: the page's button labelled "停止" sends `/robott`, whose branch
  only prints.
* `boot_record`: `Gimbal_server_start` moves the servos to 235 and 90 degrees
  without recording it; the first press then moves yaw from the recorded 135,
  a jump of up to 110 degrees.
* `pluck`: `Fire.h:81-82` says that `Fire_Pluck_Run` sets IN1 to 1 and IN2 to 0;
  the code sets them the other way round, so by the header's table the feeder
  runs backwards. `Fire.c:10-11` names the pins of the two launcher motors the
  other way round than `Fire.h:31-37` defines them; after the feeder's command
  neither pair stands at the documented levels.

Seen on the way and not checked by a run: `Chassis.c:29` speaks of low levels where both pins are set high; the command
of a request other than GET is carried out although the request is answered
400; a button's command that is still queued is thrown away by the next
request's `xQueueReset`, although both are answered 200; the answer announces
`Keep-Alive` and the connection is closed.

## Not modelled

* LED: `app_main` does not call it. `Robot_Control` is an earlier copy of the
  receiver whose start function has no caller. `ws_echo_server.c` is an ESP-IDF
  example and not in the build's sources. `Motor_Test` has no caller.
* The text of requests: the copy of the URI into its field of 30 bytes and the
  `atoi` over four digits are taken at their result for the URLs the page sends.
* Drawing on the page, and pixels.
* The station events of `event_handler` and `CONNECTED_BIT`: they do not occur
  in access point mode, and nothing waits for the bit.
* What a DNS task that goes round without a delay (a failing `recvfrom`, a stream
  of unwelcome names) does to tasks of lower priority: the models have no
  priorities, and claim no end of the boot. The task watchdog's report is printed and has no other effect.

## Plan

Done: all components the running firmware has, the refinements, and proofs of
every safety property the passing runs check. Left:

1. The components' safety theorems stated of `Infantry` itself, by carrying
   `HandlersOwnTheirSockets` and the servo theorems over the two step theorems.
2. Shorter proofs where one long leaf could be a lemma (`MyWriteProofs`).
