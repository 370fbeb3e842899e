----------------------------- MODULE WebRecdata -----------------------------
(***************************************************************************)
(* The receiver task web_recdata: it takes one command at a time from the  *)
(* URL queue, drives the motors or the servos, sleeps, resets the task     *)
(* watchdog and blocks again.  The queue itself is in WebServer; here a    *)
(* command of Urls may arrive whenever the task is blocked in              *)
(* xQueueReceive.                                                          *)
(*                                                                         *)
(* Time is counted in FreeRTOS ticks.  The blocked parts of an iteration   *)
(* last exactly their vTaskDelay; the running parts together lose at most  *)
(* Preempt ticks to tasks of higher priority and to console output.        *)
(***************************************************************************)
EXTENDS Fire, Gimbal

CONSTANTS
  Urls,        \* the commands that may arrive: records [key, val]
  ServoDelay,  \* vTaskDelay in servo_set_angle_To (10 ticks)
  LoopDelay,   \* vTaskDelay at the end of an iteration (60 ms, 6 ticks)
  WdtTicks,    \* the task watchdog's period (5 s, 500 ticks)
  Preempt,     \* bound on the ticks an iteration loses while it runs
  MaxWait      \* bound on the ticks counted while blocked in xQueueReceive

Keys == {"gimbal", "blaste", "fireSt", "Pluck1", "luck2P", "robott", "rocker", "other"}
Url == [key : Keys, val : 0..9999]

ASSUME UrlsAssumption == Urls \subseteq Url
ASSUME TimeAssumption == /\ ServoDelay \in Nat /\ LoopDelay \in Nat
                         /\ WdtTicks \in Nat /\ Preempt \in Nat
                         /\ MaxWait \in Nat

VARIABLES
  rpc,      \* where the task is
  url,      \* rec_Data, split into the command word and the value
  todo,     \* the gpio_set_level calls the command still has to make
  level,    \* the level of every output pin
  angle,    \* global_Yaw_Angle (0) and global_Pitch_Angle (1)
  duty,     \* the pulse each servo is driven with
  delay,    \* ticks left of the current vTaskDelay
  wdt,      \* ticks since the task last reset the watchdog
  waited,   \* of those, the ticks it was blocked in xQueueReceive
  lost,     \* of those, the ticks it was ready or running
  last      \* history: the last completed command of each group

time == <<delay, wdt, waited, lost>>
rvars == <<rpc, url, todo, level, angle, duty, delay, wdt, waited, lost, last>>

NoUrl == [key |-> "none", val |-> 0]

-----------------------------------------------------------------------------
(* The commands.                                                            *)

When(cond, writes) == IF cond THEN writes ELSE << >>

\* The stick: the tests are made one after the other, each on its own.
Rocker(x, y) ==
       When(x = 5 /\ y = 5, Chassis_En)
    \o When(x \in 4..6 /\ y \in 0..4, Chassis_Forward)
    \o When(x \in 4..6 /\ y \in 6..10, Chassis_Backward)
    \o When(x \in 0..4 /\ y \in 4..6, Chassis_Left)
    \o When(x \in 6..10 /\ y \in 4..6, Chassis_Right)
    \o When(x \in 0..3 /\ y \in (0..3) \cup (7..10), Chassis_Left_revolve)
    \o When(x \in 7..10 /\ y \in (0..3) \cup (7..10), Chassis_Right_revolve)

\* The pin writes a command leads to, in order ("gimbal" makes none).
Writes(u) ==
  CASE u.key = "blaste" -> Fire_friction_wheel
    [] u.key = "fireSt" -> Stop_Fire_friction
    [] u.key = "Pluck1" -> Fire_Pluck_Run
    [] u.key = "luck2P" -> Stop_Fire_Pluck
    [] u.key = "robott" -> << >>
    [] u.key = "rocker" -> Rocker(u.val \div 100, u.val % 100)
    [] OTHER            -> Chassis_En

\* The angle one gimbal command leads to from the recorded one.
NextAngle(val, a) == ClampAngle(a + GimbalStep(val))

-----------------------------------------------------------------------------
(* History of the commands, by the hardware they address.                   *)

Groups == {"drive", "friction", "feeder", "yaw", "pitch"}
AxisGroup(a) == IF a = 0 THEN "yaw" ELSE "pitch"
StickCell(u) == u.key = "rocker" /\ u.val \div 100 \in 0..10 /\ u.val % 100 \in 0..10
InGroup(u, g) ==
  CASE g = "drive"    -> StickCell(u) \/ u.key = "other"
    [] g = "friction" -> u.key \in {"blaste", "fireSt"}
    [] g = "feeder"   -> u.key \in {"Pluck1", "luck2P"}
    [] g = "yaw"      -> u.key = "gimbal" /\ u.val \in {2, 3}
    [] OTHER          -> u.key = "gimbal" /\ u.val \in {0, 1}
Recorded(u) == [g \in Groups |-> IF InGroup(u, g) THEN u ELSE last[g]]
Record == last' = Recorded(url)

-----------------------------------------------------------------------------
Init ==
  /\ rpc = "absent" /\ url = NoUrl /\ todo = << >>
  /\ level = BootLevel /\ angle = RecordedAtBoot /\ duty = PulseAtBoot
  /\ delay = 0 /\ wdt = 0 /\ waited = 0 /\ lost = 0
  /\ last = [g \in Groups |-> NoUrl]

\* Restarting the watchdog and entering xQueueReceive.
Blocked == rpc' = "recv" /\ wdt' = 0 /\ waited' = 0 /\ lost' = 0

\* The task starts: esp_task_wdt_add, then the first pass of the loop head.
Start ==
  /\ rpc = "absent"
  /\ Blocked
  /\ UNCHANGED <<url, todo, level, angle, duty, delay, last>>

\* A plausible slip: the value cut out of the URL one digit short.
ReceiveThreeDigits(u) ==
  /\ rpc = "recv"
  /\ rpc' = "parse" /\ url' = [u EXCEPT !.val = @ \div 10]
  /\ UNCHANGED <<todo, level, angle, duty, time, last>>

\* xQueueReceive returns the command u.
Receive(u) ==
  /\ rpc = "recv"
  /\ rpc' = "parse" /\ url' = u
  /\ UNCHANGED <<todo, level, angle, duty, time, last>>

\* A gimbal button: the recorded angle moves and is checked.
DispatchGimbal ==
  /\ rpc = "parse" /\ url.key = "gimbal" /\ url.val \in 0..3
  /\ LET a == GimbalAxis(url.val)
     IN  angle' = [angle EXCEPT ![a] = NextAngle(url.val, angle[a])]
  /\ rpc' = "servo"
  /\ UNCHANGED <<url, todo, level, duty, time, last>>

\* Any other command, or a gimbal value that matches no test.
Dispatch ==
  /\ rpc = "parse" /\ ~(url.key = "gimbal" /\ url.val \in 0..3)
  /\ todo' = IF url.key = "gimbal" THEN << >> ELSE Writes(url)
  /\ rpc' = "act"
  /\ UNCHANGED <<url, level, angle, duty, time, last>>

\* One gpio_set_level of the current command.
GpioSetLevel ==
  /\ rpc = "act" /\ todo # << >>
  /\ level' = [level EXCEPT ![Head(todo).pin] = Head(todo).val]
  /\ todo' = Tail(todo)
  /\ UNCHANGED <<rpc, url, angle, duty, time, last>>

\* servo_set_angle_To: the pulse is programmed, then the task sleeps.
ServoSet ==
  /\ rpc = "servo"
  /\ LET a == GimbalAxis(url.val)
     IN  duty' = [duty EXCEPT ![a] = servo_set_angle_To(angle[a])]
  /\ rpc' = "settle" /\ delay' = ServoDelay
  /\ UNCHANGED <<url, todo, level, angle, wdt, waited, lost, last>>

\* A plausible slip: nothing wakes the task from the servo's delay.
EndCommandNoWake ==
  /\ rpc = "act" /\ todo = << >>
  /\ rpc' = "pause" /\ delay' = LoopDelay
  /\ Record
  /\ UNCHANGED <<url, todo, level, angle, duty, wdt, waited, lost>>

\* A plausible slip: 60 ms multiplied by the ticks' length of 10 ms instead of
\* divided by it, a hundred times the delay.
EndCommandLongDelay ==
  /\ \/ rpc = "act" /\ todo = << >>
     \/ rpc = "settle" /\ delay = 0
  /\ rpc' = "pause" /\ delay' = 100 * LoopDelay
  /\ Record
  /\ UNCHANGED <<url, todo, level, angle, duty, wdt, waited, lost>>

\* The command is over: the task enters the delay at the foot of the loop.
EndCommand ==
  /\ \/ rpc = "act" /\ todo = << >>
     \/ rpc = "settle" /\ delay = 0
  /\ rpc' = "pause" /\ delay' = LoopDelay
  /\ Record
  /\ UNCHANGED <<url, todo, level, angle, duty, wdt, waited, lost>>

\* Back at the loop head: esp_task_wdt_reset, then xQueueReceive.
Loop ==
  /\ rpc = "pause" /\ delay = 0
  /\ Blocked
  /\ UNCHANGED <<url, todo, level, angle, duty, delay, last>>

\* One tick passes: while blocked on the queue, in a vTaskDelay, or running.
TickWaiting == /\ rpc = "recv" /\ waited < MaxWait
               /\ waited' = waited + 1 /\ UNCHANGED <<delay, lost>>
TickDelayed == /\ delay > 0
               /\ delay' = delay - 1 /\ UNCHANGED <<waited, lost>>
TickRunning == /\ rpc \notin {"absent", "recv"} /\ delay = 0 /\ lost < Preempt
               /\ lost' = lost + 1 /\ UNCHANGED <<delay, waited>>
Tick ==
  /\ TickWaiting \/ TickDelayed \/ TickRunning
  /\ wdt' = wdt + 1
  /\ UNCHANGED <<rpc, url, todo, level, angle, duty, last>>

\* The steps the task takes by itself once it has a command.
Step == DispatchGimbal \/ Dispatch \/ GpioSetLevel \/ ServoSet \/ EndCommand \/ Loop

Next ==
  \/ Start
  \/ \E u \in Urls : Receive(u)
  \/ Step
  \/ Tick

\* The scheduler runs a ready task of priority 7, and time passes.
Fairness == WF_rvars(Step) /\ WF_rvars(Tick)

Spec == Init /\ [][Next]_rvars /\ Fairness

-----------------------------------------------------------------------------
(* Properties.                                                              *)

RecPc == {"absent", "recv", "parse", "servo", "settle", "act", "pause"}
Write == [pin : Pins, val : {0, 1}]

\* Every variable of the task keeps its type (web_recdata's locals, the two
\* recorded angles, the pin levels and the counters); what it carries out and
\* records are commands that were sent.
TypeOK ==
  /\ rpc \in RecPc
  /\ url \in Urls \cup {NoUrl}
  /\ todo \in Seq(Write)
  /\ level \in [Pins -> {0, 1}]
  /\ angle \in [Axis -> Int]
  /\ duty \in [Axis -> Int]
  /\ delay \in Nat /\ wdt \in Nat /\ waited \in Nat /\ lost \in Nat
  /\ last \in [Groups -> Urls \cup {NoUrl}]

\* The task is between two commands.
AtRest == rpc \in {"recv", "pause"}

\* The motion of the chassis that a stick cell asks for: up is ahead (y < 5),
\* right is right (x > 5), and the robot never mixes two motions.
Obeys(lv, x, y) ==
  LET moves == {Ahead(lv), Rightward(lv), Turn(lv)} \ {0}
  IN  IF x = 5 /\ y = 5
      THEN Stopped(lv)
      ELSE /\ \E v \in {4, -4} : moves = {v}
           /\ Ahead(lv) > 0 => y < 5
           /\ Ahead(lv) < 0 => y > 5
           /\ Rightward(lv) > 0 \/ Turn(lv) > 0 => x > 5
           /\ Rightward(lv) < 0 \/ Turn(lv) < 0 => x < 5

\* Between commands all four wheels still do what the last stick command asked,
\* whatever launcher or gimbal commands came since: one pure motion in the
\* stick's direction, standstill at the centre (the tests of web_recdata
\* overlap and every motor function rewrites eight pins one by one), and
\* standstill after a URL that is no command.
DriveObeys(lv, u) ==
  /\ StickCell(u) => Obeys(lv, u.val \div 100, u.val % 100)
  /\ u.key = "other" => Stopped(lv)
StickObeyed == AtRest => DriveObeys(level, last["drive"])

\* Between commands the friction wheels and the feeder each run exactly when
\* the last command to them was the starting one, and always in the same
\* direction, the friction wheels with IN1 high and the feeder with IN2 high
\* (Fire.c:29-30, 38-39): no drive, gimbal or other launcher command of
\* web_recdata starts, stops or reverses them.
LauncherObeys(lv, rec) ==
  /\ Spin(lv, friction) = IF rec["friction"].key = "blaste" THEN 1 ELSE 0
  /\ Spin(lv, feeder) = IF rec["feeder"].key = "Pluck1" THEN -1 ELSE 0
LauncherObeyed == AtRest => LauncherObeys(level, last)

\* The recorded angles stay on the servo's scale and every pulse stays between
\* the servo's two end stops, although the angle goes negative for a moment in
\* web_recdata and servo_set_angle_To takes it as an unsigned number.
ServoInRange ==
  /\ \A a \in Axis : angle[a] \in 0..SERVO_MAX_DEGREE
  /\ \A a \in Axis : duty[a] \in SERVO_MIN_PULSEWIDTH..SERVO_MAX_PULSEWIDTH

\* Once a servo has been commanded it stands where its recorded angle says,
\* except between the change of the record and the call of servo_set_angle_To.
ServoFollowsRecord ==
  \A a \in Axis :
    \/ duty[a] = servo_per_degree_init(angle[a])
    \/ rpc = "servo" /\ GimbalAxis(url.val) = a
    \/ last[AxisGroup(a)] = NoUrl /\ duty[a] = PulseAtBoot[a]

\* A servo only ever moves for its own button, and (from its second command
\* on) in the button's direction by at most ten degrees' worth of pulse: no
\* sequence of presses at an end stop throws it to the other end.
PerTenDegrees == 75
ServoStep ==
  [][\A a \in Axis :
       duty'[a] # duty[a] =>
         /\ url.key = "gimbal" /\ GimbalAxis(url.val) = a
         /\ last[AxisGroup(a)] # NoUrl =>
              IF GimbalStep(url.val) > 0
              THEN duty'[a] - duty[a] \in 0..PerTenDegrees
              ELSE duty[a] - duty'[a] \in 0..PerTenDegrees]_rvars

\* The answer to the TODO at the foot of web_recdata: the watchdog can only run
\* out in an iteration that waited long for a command; the two delays and the
\* preemption of one iteration alone never make it.
WatchdogNeedsIdle ==
  wdt >= WdtTicks => waited + ServoDelay + LoopDelay + Preempt >= WdtTicks

\* Every command that was received is carried out and the task blocks on the
\* queue again.
CommandCompletes == rpc = "parse" ~> rpc = "recv"

-----------------------------------------------------------------------------
(* What comments and labels of the repository say of this task.             *)

\* index.html:72 labels the button that sends /robott "stop": after it the
\* chassis stands still.
StopButtonStops ==
  (rpc = "pause" /\ url.key = "robott") => Stopped(level)

\* Gimbal.h:39 says the globals record the angles: with the task idle, each
\* servo stands at its recorded angle.
RecordIsServoAngle ==
  rpc = "recv" => \A a \in Axis : duty[a] = servo_per_degree_init(angle[a])

\* Fire.h:79-84 says that Fire_Pluck_Run, which runs the feeder, sets IN1 to 1
\* and IN2 to 0.  Which pins these are depends on who is right about them, the
\* definitions of Fire.h:31-37 (feeder 18 and 5) or the head of Fire.c:10-11
\* (feeder 26 and 25): after the command that starts the feeder, one of the two
\* pairs stands as Fire.h says.
PluckRunsAsDocumented ==
  (rpc = "pause" /\ url.key = "Pluck1") =>
    \E m \in {feeder, friction} : level[m.in1] = 1 /\ level[m.in2] = 0

-----------------------------------------------------------------------------
(* Strengthenings that make the safety properties inductive.                *)

\* The bound of WatchdogNeedsIdle taken apart: what the watchdog has counted is
\* what the iteration has waited, lost and slept so far.
WatchdogAccount ==
  /\ rpc = "recv" => wdt = waited /\ lost = 0
  /\ rpc \in {"parse", "servo", "act"} => wdt = waited + lost
  /\ rpc = "settle" => wdt + delay = waited + lost + ServoDelay
  /\ rpc = "pause" => wdt + delay <= waited + lost + ServoDelay + LoopDelay
  /\ rpc = "absent" => wdt = 0
  /\ rpc \notin {"settle", "pause"} => delay = 0
  /\ lost <= Preempt

\* A gimbal button (the command DispatchGimbal acts on).
IsButton(u) == u.key = "gimbal" /\ u.val \in 0..3

\* Which commands are where in the loop.
CommandPlace ==
  /\ rpc \in {"servo", "settle"} => IsButton(url)
  /\ rpc = "act" => ~IsButton(url)

\* After the pulse is programmed it is that of the record; before, the servo
\* still stands one press behind the record.
PressInProgress ==
  \A a \in Axis :
    /\ rpc = "settle" /\ GimbalAxis(url.val) = a =>
         duty[a] = servo_per_degree_init(angle[a])
    /\ rpc = "servo" /\ GimbalAxis(url.val) = a /\ last[AxisGroup(a)] # NoUrl =>
         \E d \in 0..SERVO_MAX_DEGREE :
           duty[a] = servo_per_degree_init(d) /\ angle[a] = NextAngle(url.val, d)

\* The levels fin are what the writes w make of the levels lv: a pin stands at
\* the value of the last write to it, or where it stood if there is none.
Settles(lv, w, p, v) ==
  \/ v = lv[p] /\ \A i \in 1..Len(w) : w[i].pin # p
  \/ \E i \in 1..Len(w) :
       w[i] = Set(p, v) /\ \A j \in i + 1..Len(w) : w[j].pin # p
Levels == [Pins -> {0, 1}]
Outcome(lv, w, fin) == \A p \in Pins : Settles(lv, w, p, fin[p])

\* What StickObeyed and LauncherObeyed say of the levels holds at every place
\* of the loop but one; there it holds of the levels the writes still to be
\* made will lead to, with the current command counted as done.
Obeyed(lv, rec) == DriveObeys(lv, rec["drive"]) /\ LauncherObeys(lv, rec)
LevelsObey ==
  IF rpc = "act"
  THEN \E fin \in Levels : Outcome(level, todo, fin) /\ Obeyed(fin, Recorded(url))
  ELSE Obeyed(level, last)
=============================================================================
