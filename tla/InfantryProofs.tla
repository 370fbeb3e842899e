--------------------------- MODULE InfantryProofs ---------------------------
(***************************************************************************)
(* The robot behaves as its two components say, and when everything has    *)
(* settled it does what the command posted last asked for: for any number  *)
(* of connections, sockets, stick cells and buttons.  Facts about the      *)
(* components are taken from their own proofs.                             *)
(***************************************************************************)
EXTENDS Infantry, TLAPS

WP == INSTANCE MailboxProofs
RP == INSTANCE MotorProofs

-----------------------------------------------------------------------------
(* The instances of the components and of their proofs speak of the same.   *)

LEMMA SameConstants ==
  (WP!IsFiniteSet(Fd) <=> IsFiniteSet(Fd)) /\ WP!Cardinality(Fd) = Cardinality(Fd)
<1>1. WP!IsFiniteSet(Fd) <=> IsFiniteSet(Fd)
  BY DEF WP!IsFiniteSet, IsFiniteSet
<1>2. WP!Cardinality(Fd) = Cardinality(Fd)
  BY DEF WP!Cardinality, Cardinality
<1> QED
  BY <1>1, <1>2

LEMMA SameWebInit == W!Init <=> WP!Init
  BY DEF W!Init, WP!Init

LEMMA SameWebNext == W!Next <=> WP!Next
  BY DEF W!Next, W!Connect, W!Server, W!Listen, W!Accept, W!FreeFd, W!AcceptFail,
         W!CreateReceiver, W!CreateHandler, W!Again, W!Handler, W!HandlerAt, W!HttpStart,
         W!HttpRecv, W!HttpReject, W!HttpReset, W!HttpSend, W!HttpReply, W!HttpClose,
         W!Dequeue, W!CommandDone, W!server, W!handlers, W!receiver, W!history,
         WP!Next, WP!Connect, WP!Server, WP!Listen, WP!Accept, WP!FreeFd, WP!AcceptFail,
         WP!CreateReceiver, WP!CreateHandler, WP!Again, WP!Handler, WP!HandlerAt, WP!HttpStart,
         WP!HttpRecv, WP!HttpReject, WP!HttpReset, WP!HttpSend, WP!HttpReply, WP!HttpClose,
         WP!Dequeue, WP!CommandDone, WP!server, WP!handlers, WP!receiver, WP!history

\* The tables and formulas the receiver's actions use.
LEMMA SameServo == \A a : R!servo_set_angle_To(a) = RP!servo_set_angle_To(a)
  BY DEF R!servo_set_angle_To, R!servo_per_degree_init, R!ToUint, R!SERVO_MIN_PULSEWIDTH,
         R!SERVO_MAX_PULSEWIDTH, R!SERVO_MAX_DEGREE,
         RP!servo_set_angle_To, RP!servo_per_degree_init, RP!ToUint,
         RP!SERVO_MIN_PULSEWIDTH, RP!SERVO_MAX_PULSEWIDTH, RP!SERVO_MAX_DEGREE

LEMMA SameAngle == \A v, a : R!NextAngle(v, a) = RP!NextAngle(v, a)
  BY DEF R!NextAngle, R!ClampAngle, R!GimbalStep, R!SERVO_MAX_DEGREE,
         RP!NextAngle, RP!ClampAngle, RP!GimbalStep, RP!SERVO_MAX_DEGREE

LEMMA SameWrites == \A u : R!Writes(u) = RP!Writes(u)
  BY DEF R!Writes, R!When, R!Rocker, R!Chassis_En, R!Chassis_Forward, R!Chassis_Backward,
         R!Chassis_Left, R!Chassis_Right, R!Chassis_Left_revolve,
         R!Chassis_Right_revolve, R!Fire_friction_wheel, R!Stop_Fire_friction,
         R!Fire_Pluck_Run, R!Stop_Fire_Pluck, R!Cw, R!Ccw, R!Brake, R!Set, R!motorA,
         R!motorB, R!motorC, R!motorD, R!feeder, R!friction, R!motorflagState,
         RP!Writes, RP!When, RP!Rocker, RP!Chassis_En, RP!Chassis_Forward,
         RP!Chassis_Backward, RP!Chassis_Left, RP!Chassis_Right, RP!Chassis_Left_revolve,
         RP!Chassis_Right_revolve, RP!Fire_friction_wheel, RP!Stop_Fire_friction,
         RP!Fire_Pluck_Run, RP!Stop_Fire_Pluck, RP!Cw, RP!Ccw, RP!Brake, RP!Set,
         RP!motorA, RP!motorB, RP!motorC, RP!motorD, RP!feeder, RP!friction,
         RP!motorflagState

LEMMA SameRecorded == \A u : R!Recorded(u) = RP!Recorded(u)
  BY DEF R!Recorded, R!Groups, R!InGroup, R!StickCell,
         RP!Recorded, RP!Groups, RP!InGroup, RP!StickCell

LEMMA SamePins == R!Pins = RP!Pins
  BY DEF R!Pins, R!ChassisMotors, R!motorA, R!motorB, R!motorC, R!motorD, R!feeder,
         R!friction,
         RP!Pins, RP!ChassisMotors, RP!motorA, RP!motorB, RP!motorC, RP!motorD,
         RP!feeder, RP!friction

LEMMA SameRecInit == R!Init <=> RP!Init
<1>1. R!BootLevel = RP!BootLevel
  BY SamePins DEF R!BootLevel, RP!BootLevel
<1>2. R!RecordedAtBoot = RP!RecordedAtBoot
  BY DEF R!RecordedAtBoot, R!Axis, R!SERVO_MID_DEGREE,
         RP!RecordedAtBoot, RP!Axis, RP!SERVO_MID_DEGREE
<1>3. R!PulseAtBoot = RP!PulseAtBoot
  BY SameServo DEF R!PulseAtBoot, R!Axis,
                   RP!PulseAtBoot, RP!Axis
<1> QED
  BY <1>1, <1>2, <1>3 DEF R!Init, R!NoUrl, R!Groups, RP!Init, RP!NoUrl, RP!Groups

LEMMA SameRecNext == R!Next <=> RP!Next
<1>1. R!Start <=> RP!Start
  BY DEF R!Start, R!Blocked, RP!Start, RP!Blocked
<1>2. (\E u \in Urls : R!Receive(u)) <=> (\E u \in Urls : RP!Receive(u))
  BY DEF R!Receive, R!time, RP!Receive, RP!time
<1>3. R!DispatchGimbal <=> RP!DispatchGimbal
  BY SameAngle DEF R!DispatchGimbal, R!GimbalAxis, R!time,
                   RP!DispatchGimbal, RP!GimbalAxis, RP!time
<1>4. R!Dispatch <=> RP!Dispatch
  BY SameWrites DEF R!Dispatch, R!time, RP!Dispatch, RP!time
<1>5. R!GpioSetLevel <=> RP!GpioSetLevel
  BY DEF R!GpioSetLevel, R!time, RP!GpioSetLevel, RP!time
<1>6. R!ServoSet <=> RP!ServoSet
  BY SameServo DEF R!ServoSet, R!GimbalAxis, RP!ServoSet, RP!GimbalAxis
<1>7. R!EndCommand <=> RP!EndCommand
  BY SameRecorded DEF R!EndCommand, R!Record, RP!EndCommand, RP!Record
<1>8. R!Loop <=> RP!Loop
  BY DEF R!Loop, R!Blocked, RP!Loop, RP!Blocked
<1>9. R!Tick <=> RP!Tick
  BY DEF R!Tick, R!TickWaiting, R!TickDelayed, R!TickRunning,
         RP!Tick, RP!TickWaiting, RP!TickDelayed, RP!TickRunning
<1> QED
  BY <1>1, <1>2, <1>3, <1>4, <1>5, <1>6, <1>7, <1>8, <1>9 DEF R!Next, R!Step, RP!Next, RP!Step

-----------------------------------------------------------------------------
(* The components' invariants.                                              *)

\* The stick's coordinates, the value made of two of them, and the values of
\* four digits.
Coordinate == 0..10
Digits == 0..9999
Value(x, y) == 100 * x + y

LEMMA ValueSplit ==
  ASSUME NEW x \in Coordinate, NEW y \in Coordinate
  PROVE  Value(x, y) \in Digits /\ Value(x, y) \div 100 = x /\ (Value(x, y) % 100) = y
  BY SMTT(30) DEF Coordinate, Digits, Value

LEMMA CellCoordinates ==
  ASSUME NEW cell \in Cells \cup {Centre}
  PROVE  /\ cell[1] \in Coordinate /\ cell[2] \in Coordinate
         /\ RockerUrl(cell) = [key |-> "rocker", val |-> Value(cell[1], cell[2])]
<1>1. Cells \subseteq Coordinate \X Coordinate
  BY PageAssumption DEF Coordinate
<1>2. Centre \in Coordinate \X Coordinate
  BY DEF Centre, Coordinate
<1>3. RockerUrl(cell) = [key |-> "rocker", val |-> Value(cell[1], cell[2])]
  BY DEF RockerUrl, Value
<1> QED
  BY <1>1, <1>2, <1>3

LEMMA UrlsAreCommands == Urls \subseteq R!Url
<1>1. R!Url = [key : R!Keys, val : Digits] /\ "rocker" \in R!Keys
  <2>1. R!Url = [key : R!Keys, val : Digits]
    BY DEF R!Url, Digits
  <2> QED
    BY <2>1 DEF R!Keys
<1>2. ASSUME NEW cell \in Cells \cup {Centre} PROVE RockerUrl(cell) \in R!Url
  BY <1>1, CellCoordinates, ValueSplit
<1>3. Buttons \subseteq R!Url
  BY PageAssumption
<1>4. PageUrl \in R!Url
  <2>1. "other" \in R!Keys /\ 0 \in Digits
    BY DEF R!Keys, Digits
  <2> QED
    BY <1>1, <2>1 DEF PageUrl
<1> QED
  BY <1>2, <1>3, <1>4 DEF Urls

LEMMA WebInit == W!Init => WP!QueueInv
  BY WP!QueueInvInit, SameWebInit, SameConstants, ServerAssumption

LEMMA WebInductive == WP!QueueInv /\ [W!Next]_(W!wvars) => WP!QueueInv'
<1>1. UNCHANGED W!wvars <=> UNCHANGED WP!wvars
  BY DEF W!wvars, W!server, W!handlers, W!receiver, W!history,
         WP!wvars, WP!server, WP!handlers, WP!receiver, WP!history
<1>2. [W!Next]_(W!wvars) => [WP!Next]_(WP!wvars)
  BY <1>1, SameWebNext
<1> QED
  BY <1>2, WP!QueueInvInductive, SameConstants, ServerAssumption

LEMMA ConstantsFit ==
  /\ Urls \subseteq RP!Url
  /\ UIntMod > (RP!SERVO_MAX_PULSEWIDTH - RP!SERVO_MIN_PULSEWIDTH) * RP!SERVO_MAX_DEGREE
<1>1. RP!Url = R!Url
  BY DEF RP!Url, RP!Keys, R!Url, R!Keys
<1>2. (RP!SERVO_MAX_PULSEWIDTH - RP!SERVO_MIN_PULSEWIDTH) * RP!SERVO_MAX_DEGREE = 270 * 2000
  BY DEF RP!SERVO_MAX_PULSEWIDTH, RP!SERVO_MIN_PULSEWIDTH, RP!SERVO_MAX_DEGREE
<1> QED
  BY <1>1, <1>2, UrlsAreCommands, ReceiverAssumption

LEMMA RecInit == R!Init => RP!ReceiverInv
  BY RP!ReceiverInvInit, SameRecInit, ConstantsFit, ReceiverAssumption

LEMMA RecInductive == RP!ReceiverInv /\ [R!Next]_(R!rvars) => RP!ReceiverInv'
<1>1. UNCHANGED R!rvars <=> UNCHANGED RP!rvars
  BY DEF R!rvars, RP!rvars
<1>2. [R!Next]_(R!rvars) => [RP!Next]_(RP!rvars)
  BY <1>1, SameRecNext
<1> QED
  BY <1>2, RP!ReceiverInvInductive, ConstantsFit, ReceiverAssumption

\* What is used of the server's invariant here.
LEMMA QueueFacts ==
  ASSUME WP!QueueInv
  PROVE  /\ req \in [Conn -> Request \cup {NoReq}]
         /\ queue \in Seq(Conn) /\ ran \in Seq(Conn) /\ posted \in Seq(Conn)
         /\ \A i \in 1..Len(queue) : req[queue[i]] # NoReq
         /\ ran # << >> => req[W!Last(ran)] # NoReq
         /\ \A c \in Conn : req[c] = NoReq => hpc[c] = "none"
         /\ \/ posted = << >> \/ queue # << >> \/ \E c \in Conn : hpc[c] = "send"
            \/ ran # << >> /\ W!Last(ran) = W!Last(posted)
<1>1. WP!TypeOK /\ WP!SocketInv /\ WP!CommandsKnown /\ WP!NewestTaken
  BY DEF WP!QueueInv
<1>2. \A s : W!Last(s) = WP!Last(s)
  BY DEF W!Last, WP!Last
<1>3. \A c \in Conn : req[c] = NoReq => hpc[c] = "none"
  BY <1>1 DEF WP!SocketInv, WP!UnusedFresh
<1>4. \/ posted = << >> \/ queue # << >> \/ \E c \in Conn : hpc[c] = "send"
      \/ ran # << >> /\ W!Last(ran) = W!Last(posted)
  BY <1>1, <1>2 DEF WP!NewestTaken, WP!Sending
<1>5. /\ \A i \in 1..Len(queue) : req[queue[i]] # NoReq
      /\ ran # << >> => req[W!Last(ran)] # NoReq
  BY <1>1, <1>2 DEF WP!CommandsKnown
<1>6. /\ req \in [Conn -> Request \cup {NoReq}]
      /\ queue \in Seq(Conn) /\ ran \in Seq(Conn) /\ posted \in Seq(Conn)
  BY <1>1 DEF WP!TypeOK
<1> QED
  BY <1>3, <1>4, <1>5, <1>6

LEMMA RequestsHaveUrls == ASSUME NEW r \in Request PROVE r.url \in Urls
  BY DEF Request, Get

-----------------------------------------------------------------------------
(* Every step is a step of each component or leaves it alone.               *)

\* The fetches the page has issued are requests of the server's kind.
FetchType == fetch \in [Conn -> Request \cup {NoReq}]

USE DEF web, rec, page, vars

LEMMA UnchangedWeb == UNCHANGED web => UNCHANGED W!wvars
  BY DEF W!wvars, W!server, W!handlers, W!receiver, W!history

LEMMA UnchangedRec == UNCHANGED rec => UNCHANGED R!rvars
  BY DEF R!rvars

\* A move of the stick leaves the components alone and fetches, if at all, the
\* stick's command.
LEMMA CoordinateFetches ==
  ASSUME FetchType, NEW cell \in Cells \cup {Centre}, new_coordinate(cell)
  PROVE  FetchType'
<1>1. Get(RockerUrl(cell)) \in Request
  BY DEF Request, Urls
<1> QED
  BY <1>1 DEF FetchType, new_coordinate

LEMMA FetchInductive == ASSUME FetchType, [Next]_vars PROVE FetchType'
<1>1. CASE Load \/ (\E cell \in Cells : Drag(cell)) \/ Release
  BY <1>1, CoordinateFetches DEF Load, Drag, Release
<1>2. ASSUME NEW u \in Buttons, Press(u) PROVE FetchType'
  <2>1. Get(u) \in Request
    BY DEF Request, Urls
  <2> QED
    BY <1>2, <2>1 DEF FetchType, Press
<1>6. CASE Visit
  <2>1. Get(PageUrl) \in Request
    BY DEF Request, Urls
  <2> QED
    BY <1>6, <2>1 DEF FetchType, Visit
<1>3. ASSUME NEW c \in Conn, Open(c) PROVE FetchType'
  BY <1>3 DEF FetchType, Open
<1>4. CASE UNCHANGED fetch
  BY <1>4 DEF FetchType
<1>5. CASE Cancel \/ (\E c \in Conn : HandlerStep(c)) \/ ServerStep \/ TakeCommand \/ Work \/ Tick
  BY <1>4, <1>5 DEF Cancel, HandlerStep, ServerStep, TakeCommand, Work, Tick
<1> QED
  BY <1>1, <1>2, <1>3, <1>4, <1>5, <1>6 DEF Next

LEMMA WebStep == ASSUME FetchType, [Next]_vars PROVE [W!Next]_(W!wvars)
<1>1. CASE UNCHANGED web
  BY <1>1, UnchangedWeb
<1>2. CASE Visit \/ Load \/ (\E cell \in Cells : Drag(cell)) \/ Release \/ Cancel \/ Tick
           \/ \E u \in Buttons : Press(u)
  BY <1>1, <1>2 DEF Visit, Load, Drag, Release, Cancel, Tick, Press
<1>3. ASSUME NEW c \in Conn, Open(c) PROVE W!Next
  <2>1. fetch[c] \in Request /\ W!Connect(c, fetch[c])
    BY <1>3 DEF FetchType, Open
  <2> QED
    BY <2>1 DEF W!Next
<1>4. CASE (\E c \in Conn : HandlerStep(c)) \/ ServerStep \/ TakeCommand
  BY <1>4 DEF HandlerStep, ServerStep, TakeCommand, W!Next
<1>5. CASE Work
  BY <1>1, <1>5 DEF Work, W!Next
<1> QED
  BY <1>1, <1>2, <1>3, <1>4, <1>5 DEF Next

LEMMA RecStep == ASSUME WP!QueueInv, [Next]_vars PROVE [R!Next]_(R!rvars)
<1>1. CASE UNCHANGED rec
  BY <1>1, UnchangedRec
<1>2. CASE \/ Visit \/ Load \/ (\E cell \in Cells : Drag(cell)) \/ Release \/ Cancel
           \/ (\E u \in Buttons : Press(u)) \/ (\E c \in Conn : Open(c) \/ HandlerStep(c))
  BY <1>1, <1>2 DEF Visit, Load, Drag, Release, Cancel, Press, Open, HandlerStep
<1>3. CASE ServerStep
  BY <1>1, <1>3 DEF ServerStep, R!Next
<1>4. CASE TakeCommand
  <2>1. queue # << >> /\ R!Receive(req[Head(queue)].url)
    BY <1>4 DEF TakeCommand, W!Dequeue
  <2>2. 1 \in 1..Len(queue) /\ Head(queue) = queue[1] /\ queue[1] \in Conn
    BY <2>1, QueueFacts
  <2>3. req[Head(queue)] \in Request
    BY <2>2, QueueFacts
  <2> QED
    BY <2>1, <2>3, RequestsHaveUrls DEF R!Next
<1>5. CASE Work \/ Tick
  BY <1>5 DEF Work, Tick, R!Next, R!Step
<1> QED
  BY <1>1, <1>2, <1>3, <1>4, <1>5 DEF Next

-----------------------------------------------------------------------------
(* The command the receiver works on.                                       *)

RobotInv == WP!QueueInv /\ RP!ReceiverInv /\ FetchType /\ CommandTaken

LEMMA RobotInit == Init => RobotInv
<1> SUFFICES ASSUME Init PROVE RobotInv
  OBVIOUS
<1>1. WP!QueueInv /\ RP!ReceiverInv
  BY WebInit, RecInit DEF Init
<1>2. FetchType
  BY DEF Init, FetchType
<1>3. ran = << >>
  BY DEF Init, W!Init
<1> QED
  BY <1>1, <1>2, <1>3 DEF RobotInv, CommandTaken

\* The request of the command taken last is still what it was.
LEMMA TakenRequestStays ==
  ASSUME WP!QueueInv, [W!Next]_(W!wvars), ran # << >>
  PROVE  req'[W!Last(ran)] = req[W!Last(ran)]
<1>1. W!Last(ran) \in Conn /\ req[W!Last(ran)] # NoReq
  <2>1. ran \in Seq(Conn) /\ req[W!Last(ran)] # NoReq
    BY QueueFacts
  <2>2. ran[Len(ran)] \in Conn
    BY <2>1
  <2> QED
    BY <2>1, <2>2 DEF W!Last
<1>2. WP!TypeOK
  BY DEF WP!QueueInv
<1>3. UNCHANGED W!wvars <=> UNCHANGED WP!wvars
  BY DEF W!wvars, W!server, W!handlers, W!receiver, W!history,
         WP!wvars, WP!server, WP!handlers, WP!receiver, WP!history
<1>4. [WP!Next]_(WP!wvars)
  BY <1>3, SameWebNext
<1> QED
  BY <1>1, <1>2, <1>4, WP!RequestsStay, SameConstants, ServerAssumption

\* Only TakeCommand takes; what the other steps do to the receiver.
LEMMA OtherSteps ==
  ASSUME [Next]_vars, ~TakeCommand
  PROVE  /\ UNCHANGED <<ran, url>>
         /\ \/ UNCHANGED <<rpc, last>>
            \/ rpc = "absent"
            \/ rpc' \in {"servo", "settle", "act"}
            \/ rpc = "pause" /\ rpc' = "recv" /\ UNCHANGED last
            \/ rpc' = "pause" /\ last' = R!Recorded(url)
<1>1. CASE \/ Visit \/ Load \/ (\E cell \in Cells : Drag(cell)) \/ Release \/ Cancel
           \/ (\E u \in Buttons : Press(u)) \/ Tick \/ UNCHANGED vars
  BY <1>1 DEF Visit, Load, Drag, Release, Cancel, Press, Tick, R!Tick
<1>2. CASE \E c \in Conn : Open(c)
  BY <1>2 DEF Open, W!Connect, W!history
<1>3. CASE \E c \in Conn : HandlerStep(c)
  BY <1>3 DEF HandlerStep, W!Handler, W!HttpStart, W!HttpRecv, W!HttpReject, W!HttpReset,
              W!HttpSend, W!HttpReply, W!HttpClose, W!history
<1>4. CASE ServerStep
  <2>1. UNCHANGED ran
    BY <1>4 DEF ServerStep, W!Server, W!Listen, W!Accept, W!AcceptFail, W!CreateReceiver,
                W!CreateHandler, W!Again, W!history
  <2>2. (rpc = "absent" /\ UNCHANGED url) \/ UNCHANGED rec
    BY <1>4 DEF ServerStep, R!Start
  <2> QED
    BY <2>1, <2>2
<1>5. CASE Work
  <2>1. UNCHANGED ran
    BY <1>5 DEF Work, W!CommandDone, W!history
  <2>2. CASE R!Loop
    BY <2>1, <2>2 DEF R!Loop, R!Blocked
  <2>3. CASE R!DispatchGimbal \/ R!Dispatch \/ R!ServoSet
    BY <2>1, <2>3 DEF R!DispatchGimbal, R!Dispatch, R!ServoSet
  <2>4. CASE R!GpioSetLevel
    BY <2>1, <2>4 DEF R!GpioSetLevel
  <2>5. CASE R!EndCommand
    BY <2>1, <2>5 DEF R!EndCommand, R!Record
  <2> QED
    BY <1>5, <2>2, <2>3, <2>4, <2>5 DEF Work
<1> QED
  BY <1>1, <1>2, <1>3, <1>4, <1>5 DEF Next

LEMMA TakenInductive == ASSUME RobotInv, [Next]_vars PROVE CommandTaken'
<1>1. WP!QueueInv /\ FetchType /\ CommandTaken
  BY DEF RobotInv
<1>2. CASE TakeCommand
  <2>1. /\ queue # << >> /\ ran' = Append(ran, Head(queue)) /\ UNCHANGED req
        /\ rpc' = "parse" /\ url' = req[Head(queue)].url
    BY <1>2 DEF TakeCommand, W!Dequeue, R!Receive
  <2>2. ran \in Seq(Conn)
    BY <1>1, QueueFacts
  <2>3. W!Last(ran') = Head(queue)
    BY <2>1, <2>2 DEF W!Last
  <2>4. req'[W!Last(ran')].url = url' /\ rpc' # "absent" /\ ~(R!AtRest)'
    BY <2>1, <2>3 DEF R!AtRest
  <2> QED
    BY <2>4 DEF CommandTaken
<1>3. CASE ~TakeCommand /\ ran # << >>
  <2>1. /\ req[W!Last(ran)].url = url /\ rpc # "absent"
        /\ R!AtRest => \A g \in R!Groups : R!InGroup(url, g) => last[g] = url
    BY <1>1, <1>3 DEF CommandTaken
  <2>2. UNCHANGED <<ran, url>>
    BY <1>3, OtherSteps
  <2>3. req'[W!Last(ran')].url = url'
    <3>1. req'[W!Last(ran)] = req[W!Last(ran)]
      BY <1>1, <1>3, WebStep, TakenRequestStays
    <3> QED
      BY <2>1, <2>2, <3>1
  <2>4. rpc' # "absent"
    BY <1>3, <2>1, OtherSteps
  <2>5. ASSUME R!AtRest', NEW g \in R!Groups, R!InGroup(url, g) PROVE last'[g] = url
    <3>1. \/ UNCHANGED last /\ R!AtRest
          \/ last' = R!Recorded(url)
      BY <1>3, <2>1, <2>5, OtherSteps DEF R!AtRest
    <3> QED
      BY <2>1, <2>5, <3>1 DEF R!Recorded
  <2> QED
    BY <2>2, <2>3, <2>4, <2>5 DEF CommandTaken
<1>4. CASE ~TakeCommand /\ ran = << >>
  BY <1>4, OtherSteps DEF CommandTaken
<1> QED
  BY <1>2, <1>3, <1>4

LEMMA RobotInductive == RobotInv /\ [Next]_vars => RobotInv'
<1> SUFFICES ASSUME RobotInv, [Next]_vars PROVE RobotInv'
  OBVIOUS
<1>1. WP!QueueInv /\ RP!ReceiverInv /\ FetchType
  BY DEF RobotInv
<1>2. WP!QueueInv'
  BY <1>1, WebStep, WebInductive
<1>3. RP!ReceiverInv'
  BY <1>1, RecStep, RecInductive
<1> QED
  BY <1>1, <1>2, <1>3, FetchInductive, TakenInductive DEF RobotInv

-----------------------------------------------------------------------------
(* The theorems.                                                            *)

\* A stick command of the page names a cell of the stick.
LEMMA StickUrls ==
  ASSUME NEW u \in Urls, u.key = "rocker"
  PROVE  R!StickCell(u)
<1>1. u \notin Buttons /\ u # PageUrl
  BY PageAssumption DEF PageUrl
<1>2. PICK cell \in Cells \cup {Centre} : u = RockerUrl(cell)
  BY <1>1 DEF Urls
<1>3. /\ cell[1] \in Coordinate /\ cell[2] \in Coordinate
      /\ u.val = Value(cell[1], cell[2])
  BY <1>2, CellCoordinates
<1>4. u.val \div 100 = cell[1] /\ (u.val % 100) = cell[2]
  BY <1>3, ValueSplit
<1> QED
  BY <1>3, <1>4 DEF R!StickCell, Coordinate

\* What the receiver's invariant says of the motors when it waits for a command.
LEMMA MotorsObey ==
  ASSUME RP!ReceiverInv, rpc = "recv"
  PROVE  /\ R!DriveObeys(level, last["drive"])
         /\ last["friction"].key = "blaste" => R!Spin(level, R!friction) = 1
<1>1. RP!Obeyed(level, last)
  BY DEF RP!ReceiverInv, RP!LevelsObey
<1>2. RP!DriveObeys(level, last["drive"]) <=> R!DriveObeys(level, last["drive"])
  BY DEF RP!DriveObeys, RP!StickCell, RP!Obeys, RP!Stopped, RP!Ahead, RP!Rightward, RP!Turn,
         RP!Spin, RP!ChassisMotors, RP!motorA, RP!motorB, RP!motorC, RP!motorD,
         R!DriveObeys, R!StickCell, R!Obeys, R!Stopped, R!Ahead, R!Rightward, R!Turn,
         R!Spin, R!ChassisMotors, R!motorA, R!motorB, R!motorC, R!motorD
<1>3. RP!Spin(level, RP!friction) = R!Spin(level, R!friction)
  BY DEF RP!Spin, RP!friction, R!Spin, R!friction
<1> QED
  BY <1>1, <1>2, <1>3 DEF RP!Obeyed, RP!LauncherObeys

LEMMA TakenIsObeyed == RobotInv => NewestObeyed
<1> SUFFICES ASSUME RobotInv, Quiet, posted # << >>
             PROVE  LET u == req[W!Newest].url
                    IN  /\ u.key = "rocker" => R!Obeys(level, u.val \div 100, u.val % 100)
                        /\ u.key = "other" => R!Stopped(level)
                        /\ u.key = "blaste" => R!Spin(level, R!friction) = 1
  BY DEF NewestObeyed
<1>1. WP!QueueInv /\ RP!ReceiverInv /\ CommandTaken
  BY DEF RobotInv
<1>2. queue = << >> /\ ~\E c \in Conn : hpc[c] = "send"
  BY <1>1, QueueFacts DEF Quiet
<1>3. ran # << >> /\ W!Last(ran) = W!Last(posted)
  BY <1>1, <1>2, QueueFacts
<1>4. /\ req[W!Last(ran)].url = url /\ rpc = "recv"
      /\ \A g \in R!Groups : R!InGroup(url, g) => last[g] = url
  BY <1>1, <1>3 DEF CommandTaken, Quiet, R!AtRest
<1>5. req[W!Newest].url = url
  BY <1>3, <1>4 DEF W!Newest
<1>6. url \in Urls
  <2>1. ran \in Seq(Conn) /\ req[W!Last(ran)] # NoReq /\ req \in [Conn -> Request \cup {NoReq}]
    BY <1>1, <1>3, QueueFacts
  <2>2. W!Last(ran) \in Conn
    <3>1. ran[Len(ran)] \in Conn
      BY <1>3, <2>1
    <3> QED
      BY <3>1 DEF W!Last
  <2> QED
    BY <1>4, <2>1, <2>2, RequestsHaveUrls
<1>7. ASSUME url.key = "rocker" PROVE R!Obeys(level, url.val \div 100, url.val % 100)
  <2>1. R!StickCell(url)
    BY <1>6, <1>7, StickUrls
  <2>2. last["drive"] = url
    BY <1>4, <2>1 DEF R!Groups, R!InGroup
  <2> QED
    BY <1>1, <1>4, <2>1, <2>2, MotorsObey DEF R!DriveObeys
<1>8. ASSUME url.key = "blaste" PROVE R!Spin(level, R!friction) = 1
  <2>1. last["friction"] = url
    BY <1>4, <1>8 DEF R!Groups, R!InGroup
  <2> QED
    BY <1>1, <1>4, <1>8, <2>1, MotorsObey
<1>9. ASSUME url.key = "other" PROVE R!Stopped(level)
  <2>1. last["drive"] = url
    BY <1>4, <1>9 DEF R!Groups, R!InGroup
  <2> QED
    BY <1>1, <1>4, <1>9, <2>1, MotorsObey DEF R!DriveObeys
<1> QED
  BY <1>5, <1>7, <1>8, <1>9

\* Whatever handlers, resets of the queue, the receiver and the pin writes do in
\* between: once all is quiet, the wheels, or the friction wheels, do what the
\* command that reached the queue last asked for.
THEOREM NewestIsObeyed == Spec => []NewestObeyed
  BY RobotInit, RobotInductive, TakenIsObeyed, PTL DEF Spec

\* The composition is a behaviour of WebServer (the safety part of
\* ServerImplemented): every step of page, tasks and receiver is a step of
\* webserver.c's server, handlers and queue or leaves them alone.
THEOREM ServerStepsImplemented == Spec => W!Init /\ [][W!Next]_(W!wvars)
<1>1. Init => W!Init
  BY DEF Init
<1>2. RobotInv /\ [Next]_vars => [W!Next]_(W!wvars)
  BY WebStep DEF RobotInv
<1> QED
  BY <1>1, <1>2, RobotInit, RobotInductive, PTL DEF Spec

\* It is a behaviour of WebRecdata too: the commands that reach web_recdata
\* through the queue are commands of the page, one at a time.
THEOREM ReceiverStepsImplemented == Spec => R!Init /\ [][R!Next]_(R!rvars)
<1>1. Init => R!Init
  BY DEF Init
<1>2. RobotInv /\ [Next]_vars => [R!Next]_(R!rvars)
  BY RecStep DEF RobotInv
<1> QED
  BY <1>1, <1>2, RobotInit, RobotInductive, PTL DEF Spec
=============================================================================
