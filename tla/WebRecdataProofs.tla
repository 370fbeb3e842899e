-------------------------- MODULE WebRecdataProofs --------------------------
(***************************************************************************)
(* Proofs about WebRecdata, for any set of commands, any delays, any       *)
(* watchdog period and any unsigned width that holds the pulse formula.    *)
(***************************************************************************)
EXTENDS WebRecdata, TLAPS

USE DEF time, rvars

\* Writing two pins, and writing one group of pins after another.
LEMMA PairType ==
  ASSUME NEW p \in Pins, NEW q \in Pins, NEW v \in {0, 1}, NEW w \in {0, 1}
  PROVE  << Set(p, v), Set(q, w) >> \in Seq(Write)
  BY DEF Set, Write

LEMMA ConcatType ==
  ASSUME NEW S, NEW a \in Seq(S), NEW b \in Seq(S)
  PROVE  a \o b \in Seq(S)
  OBVIOUS

LEMMA MotorPins ==
  /\ \A m \in ChassisMotors : m.in1 \in Pins /\ m.in2 \in Pins
  /\ feeder.in1 \in Pins /\ feeder.in2 \in Pins
  /\ friction.in1 \in Pins /\ friction.in2 \in Pins
  /\ {motorA, motorB, motorC, motorD} \subseteq ChassisMotors
  BY DEF Pins, ChassisMotors

LEMMA MotorType ==
  ASSUME NEW m \in ChassisMotors
  PROVE  Cw(m) \in Seq(Write) /\ Ccw(m) \in Seq(Write) /\ Brake(m) \in Seq(Write)
  BY MotorPins, PairType DEF Cw, Ccw, Brake, motorflagState

\* Every function of Chassis.c writes 0 or 1 to output pins.
LEMMA ChassisType ==
  /\ Chassis_En \in Seq(Write)
  /\ Chassis_Forward \in Seq(Write) /\ Chassis_Backward \in Seq(Write)
  /\ Chassis_Left \in Seq(Write) /\ Chassis_Right \in Seq(Write)
  /\ Chassis_Left_revolve \in Seq(Write) /\ Chassis_Right_revolve \in Seq(Write)
<1>1. ASSUME NEW a \in Seq(Write), NEW b \in Seq(Write),
             NEW c \in Seq(Write), NEW d \in Seq(Write)
      PROVE  a \o b \o c \o d \in Seq(Write)
  BY ConcatType
<1> QED
  BY <1>1, MotorPins, MotorType
  DEF Chassis_En, Chassis_Forward, Chassis_Backward, Chassis_Left, Chassis_Right,
      Chassis_Left_revolve, Chassis_Right_revolve

\* Every function of Fire.c does, too.
LEMMA FireType ==
  /\ Fire_friction_wheel \in Seq(Write) /\ Stop_Fire_friction \in Seq(Write)
  /\ Fire_Pluck_Run \in Seq(Write) /\ Stop_Fire_Pluck \in Seq(Write)
  BY MotorPins, PairType
  DEF Fire_friction_wheel, Stop_Fire_friction, Fire_Pluck_Run, Stop_Fire_Pluck

\* Every command of web_recdata is a sequence of such writes.
LEMMA WritesType == ASSUME NEW u PROVE Writes(u) \in Seq(Write)
<1>1. ASSUME NEW cond, NEW w \in Seq(Write)  PROVE When(cond, w) \in Seq(Write)
  BY DEF When
<1>2. ASSUME NEW x, NEW y  PROVE Rocker(x, y) \in Seq(Write)
  BY <1>1, ChassisType, ConcatType, SMTT(30) DEF Rocker
<1> QED
  BY <1>2, ChassisType, FireType DEF Writes

-----------------------------------------------------------------------------
(* Angles and pulses.                                                       *)

\* The pulse of an angle on the scale lies between the two end stops.
LEMMA PulseRange ==
  ASSUME NEW d \in 0..SERVO_MAX_DEGREE
  PROVE  servo_per_degree_init(d) \in SERVO_MIN_PULSEWIDTH..SERVO_MAX_PULSEWIDTH
  BY DEF servo_per_degree_init, SERVO_MAX_DEGREE, SERVO_MIN_PULSEWIDTH, SERVO_MAX_PULSEWIDTH

\* On the scale, servo_set_angle_To changes nothing about the angle it is given.
LEMMA ServoSetsAngle ==
  ASSUME NEW d \in 0..SERVO_MAX_DEGREE
  PROVE  servo_set_angle_To(d) = servo_per_degree_init(d)
  BY DEF servo_set_angle_To, ToUint, SERVO_MAX_DEGREE

\* The checks of web_recdata put any angle on the scale.
LEMMA ClampRange ==
  ASSUME NEW a \in Int
  PROVE  ClampAngle(a) \in 0..SERVO_MAX_DEGREE
  BY DEF ClampAngle, SERVO_MAX_DEGREE

-----------------------------------------------------------------------------
(* Types.                                                                   *)

LEMMA BootPulse ==
  \A a \in Axis : PulseAtBoot[a] \in SERVO_MIN_PULSEWIDTH..SERVO_MAX_PULSEWIDTH
<1>1. 235 \in 0..SERVO_MAX_DEGREE /\ 90 \in 0..SERVO_MAX_DEGREE
  BY DEF SERVO_MAX_DEGREE
<1> QED
  BY <1>1, PulseRange, ServoSetsAngle DEF PulseAtBoot

LEMMA InitTypeOK == Init => TypeOK
<1> SUFFICES ASSUME Init PROVE TypeOK
  OBVIOUS
<1>1. \A a \in Axis : duty[a] \in Int
  <2>1. duty = PulseAtBoot
    BY DEF Init
  <2>2. \A n \in SERVO_MIN_PULSEWIDTH..SERVO_MAX_PULSEWIDTH : n \in Int
    BY DEF SERVO_MIN_PULSEWIDTH, SERVO_MAX_PULSEWIDTH
  <2> QED
    BY <2>1, <2>2, BootPulse
<1>2. duty = [a \in Axis |-> duty[a]]
  BY DEF Init, PulseAtBoot
<1>3. duty \in [Axis -> Int]
  BY <1>1, <1>2
<1>4. angle \in [Axis -> Int]
  BY DEF Init, RecordedAtBoot, SERVO_MID_DEGREE
<1> QED
  BY <1>3, <1>4 DEF Init, TypeOK, RecPc, BootLevel

LEMMA StepTypeOK == TypeOK /\ [Next]_rvars => TypeOK'
<1> SUFFICES ASSUME TypeOK, [Next]_rvars PROVE TypeOK'
  OBVIOUS
<1> USE TimeAssumption DEF TypeOK, RecPc
<1>1. CASE Start
  BY <1>1 DEF Start, Blocked
<1>2. CASE \E u \in Urls : Receive(u)
  BY <1>2 DEF Receive
<1>3. CASE DispatchGimbal
  <2>1. GimbalAxis(url.val) \in Axis
    BY DEF GimbalAxis, Axis
  <2>2. angle[GimbalAxis(url.val)] + GimbalStep(url.val) \in Int
    BY <2>1 DEF GimbalStep
  <2>3. NextAngle(url.val, angle[GimbalAxis(url.val)]) \in Int
    <3> DEFINE moved == angle[GimbalAxis(url.val)] + GimbalStep(url.val)
    <3>1. moved \in Int
      BY <2>2
    <3> HIDE DEF moved
    <3>2. ClampAngle(moved) \in Int
      BY <3>1 DEF ClampAngle, SERVO_MAX_DEGREE
    <3> QED
      BY <3>2 DEF NextAngle, moved
  <2> QED
    BY <1>3, <2>1, <2>3 DEF DispatchGimbal
<1>4. CASE Dispatch
  <2>1. todo' \in Seq(Write)
    BY <1>4, WritesType DEF Dispatch
  <2> QED
    BY <1>4, <2>1 DEF Dispatch
<1>5. CASE GpioSetLevel
  <2>1. Head(todo) \in Write /\ Tail(todo) \in Seq(Write)
    BY <1>5 DEF GpioSetLevel
  <2> QED
    BY <1>5, <2>1 DEF GpioSetLevel, Write
<1>6. CASE ServoSet
  <2>1. ASSUME NEW a \in Int PROVE servo_set_angle_To(a) \in Int
    BY UIntModAssumption
    DEF servo_set_angle_To, servo_per_degree_init, ToUint, SERVO_MAX_DEGREE,
        SERVO_MIN_PULSEWIDTH, SERVO_MAX_PULSEWIDTH
  <2>2. GimbalAxis(url.val) \in Axis
    BY DEF GimbalAxis, Axis
  <2> QED
    BY <1>6, <2>1, <2>2 DEF ServoSet
<1>7. CASE EndCommand
  BY <1>7 DEF EndCommand, Record, Recorded
<1>8. CASE Loop
  BY <1>8 DEF Loop, Blocked
<1>9. CASE Tick
  BY <1>9 DEF Tick, TickWaiting, TickDelayed, TickRunning
<1>10. CASE UNCHANGED rvars
  BY <1>10
<1> QED
  BY <1>1, <1>2, <1>3, <1>4, <1>5, <1>6, <1>7, <1>8, <1>9, <1>10 DEF Next, Step

\* The locals of web_recdata, the recorded angles, the pins and the counters
\* keep their types in every behaviour.
THEOREM TypeCorrect == Spec => []TypeOK
  BY InitTypeOK, StepTypeOK, PTL DEF Spec

-----------------------------------------------------------------------------
(* The watchdog.                                                            *)

LEMMA WatchdogInductive == TypeOK /\ WatchdogAccount /\ [Next]_rvars => WatchdogAccount'
<1> SUFFICES ASSUME TypeOK, WatchdogAccount, [Next]_rvars PROVE WatchdogAccount'
  OBVIOUS
<1> USE TimeAssumption DEF TypeOK, RecPc, WatchdogAccount
<1>1. CASE Start \/ Loop
  BY <1>1 DEF Start, Loop, Blocked
<1>2. CASE \E u \in Urls : Receive(u)
  BY <1>2 DEF Receive
<1>3. CASE DispatchGimbal
  BY <1>3 DEF DispatchGimbal
<1>4. CASE Dispatch
  BY <1>4 DEF Dispatch
<1>5. CASE GpioSetLevel
  BY <1>5 DEF GpioSetLevel
<1>6. CASE ServoSet
  BY <1>6 DEF ServoSet
<1>7. CASE EndCommand
  BY <1>7 DEF EndCommand
<1>8. CASE Tick
  <2>1. CASE TickWaiting
    BY <1>8, <2>1 DEF Tick, TickWaiting
  <2>2. CASE TickDelayed
    BY <1>8, <2>2 DEF Tick, TickDelayed
  <2>3. CASE TickRunning
    BY <1>8, <2>3 DEF Tick, TickRunning
  <2> QED
    BY <1>8, <2>1, <2>2, <2>3 DEF Tick
<1>9. CASE UNCHANGED rvars
  BY <1>9
<1> QED
  BY <1>1, <1>2, <1>3, <1>4, <1>5, <1>6, <1>7, <1>8, <1>9 DEF Next, Step

\* The task watchdog never runs out for the delays of web_recdata alone: the
\* task must have waited for a command for nearly the whole period.
THEOREM WatchdogOnlyWhenIdle == Spec => []WatchdogNeedsIdle
<1>1. Init => WatchdogAccount
  BY TimeAssumption DEF Init, WatchdogAccount
<1>2. TypeOK /\ WatchdogAccount => WatchdogNeedsIdle
  BY TimeAssumption DEF TypeOK, RecPc, WatchdogAccount, WatchdogNeedsIdle
<1> QED
  BY <1>1, <1>2, WatchdogInductive, TypeCorrect, PTL DEF Spec

-----------------------------------------------------------------------------
(* The gimbal.                                                              *)

\* What is known of the two servos together.
ServoInv == ServoInRange /\ ServoFollowsRecord /\ CommandPlace /\ PressInProgress

LEMMA NextAngleRange ==
  ASSUME NEW v, NEW d \in Int
  PROVE  NextAngle(v, d) \in 0..SERVO_MAX_DEGREE
<1>1. d + GimbalStep(v) \in Int
  BY DEF GimbalStep
<1> QED
  BY <1>1, ClampRange DEF NextAngle

\* A press moves the pulse by at most ten degrees' worth, in its direction.
LEMMA PressMovesPulse ==
  ASSUME NEW v, NEW d \in 0..SERVO_MAX_DEGREE
  PROVE  LET new == servo_per_degree_init(NextAngle(v, d))
             old == servo_per_degree_init(d)
         IN  IF GimbalStep(v) > 0 THEN new - old \in 0..PerTenDegrees
                                  ELSE old - new \in 0..PerTenDegrees
<1> USE DEF servo_per_degree_init, ClampAngle, NextAngle, PerTenDegrees, SERVO_MAX_DEGREE,
            SERVO_MIN_PULSEWIDTH, SERVO_MAX_PULSEWIDTH
<1>1. CASE GimbalStep(v) = 10
  BY <1>1
<1>2. CASE GimbalStep(v) = -10
  BY <1>2
<1> QED
  BY <1>1, <1>2 DEF GimbalStep

LEMMA ServoInvInit == Init => ServoInv
<1> SUFFICES ASSUME Init PROVE ServoInv
  OBVIOUS
<1>1. /\ duty = PulseAtBoot /\ angle = RecordedAtBoot /\ rpc = "absent"
      /\ \A a \in Axis : last[AxisGroup(a)] = NoUrl
  BY DEF Init, AxisGroup, Groups
<1>2. ServoInRange
  BY <1>1, BootPulse DEF ServoInRange, RecordedAtBoot, SERVO_MID_DEGREE, SERVO_MAX_DEGREE
<1>3. ServoFollowsRecord /\ CommandPlace /\ PressInProgress
  BY <1>1 DEF ServoFollowsRecord, CommandPlace, PressInProgress
<1> QED
  BY <1>2, <1>3 DEF ServoInv

\* A press: the record moves, the servo not yet.
LEMMA ServoInvDispatch ==
  ASSUME TypeOK, ServoInv, DispatchGimbal
  PROVE  ServoInv'
<1> DEFINE b == GimbalAxis(url.val)
<1>1. /\ b \in Axis /\ IsButton(url) /\ rpc = "parse" /\ rpc' = "servo"
      /\ angle' = [angle EXCEPT ![b] = NextAngle(url.val, angle[b])]
      /\ UNCHANGED <<url, duty, last>>
  BY DEF DispatchGimbal, GimbalAxis, Axis, IsButton
<1>2. angle \in [Axis -> Int] /\ \A a \in Axis : angle[a] \in 0..SERVO_MAX_DEGREE
  BY DEF TypeOK, ServoInv, ServoInRange
<1>3. NextAngle(url.val, angle[b]) \in 0..SERVO_MAX_DEGREE
  BY <1>1, <1>2, NextAngleRange
<1> HIDE DEF b
<1>4. ServoInRange'
  BY <1>1, <1>2, <1>3 DEF ServoInv, ServoInRange
<1>5. ServoFollowsRecord'
  BY <1>1, <1>2 DEF ServoInv, ServoFollowsRecord, b
<1>6. CommandPlace'
  BY <1>1 DEF CommandPlace, IsButton
<1>7. PressInProgress'
  <2>1. last[AxisGroup(b)] # NoUrl => duty[b] = servo_per_degree_init(angle[b])
    BY <1>1 DEF ServoInv, ServoFollowsRecord
  <2>2. angle'[b] = NextAngle(url.val, angle[b])
    BY <1>1, <1>2
  <2> QED
    BY <1>1, <1>2, <2>1, <2>2 DEF PressInProgress, b
<1> QED
  BY <1>4, <1>5, <1>6, <1>7 DEF ServoInv

\* The servo is set to the record.
LEMMA ServoInvSet ==
  ASSUME TypeOK, ServoInv, ServoSet
  PROVE  ServoInv'
<1> DEFINE b == GimbalAxis(url.val)
<1>1. /\ b \in Axis /\ IsButton(url) /\ rpc = "servo" /\ rpc' = "settle"
      /\ duty' = [duty EXCEPT ![b] = servo_set_angle_To(angle[b])]
      /\ UNCHANGED <<url, angle, last>>
  BY DEF ServoSet, GimbalAxis, Axis, ServoInv, CommandPlace
<1>2. /\ angle[b] \in 0..SERVO_MAX_DEGREE
      /\ duty'[b] = servo_per_degree_init(angle[b])
      /\ \A a \in Axis : a # b => duty'[a] = duty[a]
  BY <1>1, ServoSetsAngle DEF TypeOK, ServoInv, ServoInRange
<1> HIDE DEF b
<1>3. ServoInRange'
  <2>1. duty'[b] \in SERVO_MIN_PULSEWIDTH..SERVO_MAX_PULSEWIDTH
    BY <1>2, PulseRange
  <2> QED
    BY <1>1, <1>2, <2>1 DEF ServoInv, ServoInRange
<1>4. ServoFollowsRecord'
  BY <1>1, <1>2 DEF ServoInv, ServoFollowsRecord, b
<1>5. CommandPlace' /\ PressInProgress'
  BY <1>1, <1>2 DEF CommandPlace, PressInProgress, IsButton, b
<1> QED
  BY <1>3, <1>4, <1>5 DEF ServoInv

\* The command ends: from now on the axis counts as commanded.
LEMMA ServoInvEnd ==
  ASSUME TypeOK, ServoInv, EndCommand
  PROVE  ServoInv'
<1>1. UNCHANGED <<url, angle, duty>> /\ rpc' = "pause"
  BY DEF EndCommand
<1>2. ServoInRange' /\ CommandPlace' /\ PressInProgress'
  BY <1>1 DEF ServoInv, ServoInRange, CommandPlace, PressInProgress
<1>3. ASSUME NEW a \in Axis
      PROVE  \/ duty[a] = servo_per_degree_init(angle[a])
             \/ last'[AxisGroup(a)] = NoUrl /\ duty[a] = PulseAtBoot[a]
  <2>1. \/ duty[a] = servo_per_degree_init(angle[a])
        \/ last[AxisGroup(a)] = NoUrl /\ duty[a] = PulseAtBoot[a]
    BY DEF ServoInv, ServoFollowsRecord, EndCommand
  <2>2. CASE InGroup(url, AxisGroup(a))
    <3>1. IsButton(url) /\ GimbalAxis(url.val) = a
      BY <2>2 DEF InGroup, AxisGroup, IsButton, GimbalAxis, Axis
    <3>2. rpc = "settle"
      BY <3>1 DEF EndCommand, ServoInv, CommandPlace
    <3> QED
      BY <3>1, <3>2 DEF ServoInv, PressInProgress
  <2>3. CASE ~InGroup(url, AxisGroup(a))
    <3>1. last'[AxisGroup(a)] = last[AxisGroup(a)]
      BY <2>3 DEF EndCommand, Record, Recorded, AxisGroup, Groups
    <3> QED
      BY <2>1, <3>1
  <2> QED
    BY <2>2, <2>3
<1>4. ServoFollowsRecord'
  BY <1>1, <1>3 DEF ServoFollowsRecord
<1> QED
  BY <1>2, <1>4 DEF ServoInv

LEMMA ServoInvInductive == TypeOK /\ ServoInv /\ [Next]_rvars => ServoInv'
<1> SUFFICES ASSUME TypeOK, ServoInv, [Next]_rvars PROVE ServoInv'
  OBVIOUS
<1> DEFINE Calm == UNCHANGED <<angle, duty, last>> /\ rpc # "servo" /\ rpc' # "servo"
<1>1. ASSUME Calm, rpc' \notin {"settle", "act"}  PROVE ServoInv'
  BY <1>1 DEF ServoInv, ServoInRange, ServoFollowsRecord, CommandPlace, PressInProgress
<1>2. CASE Start \/ Loop \/ \E u \in Urls : Receive(u)
  BY <1>1, <1>2 DEF Start, Loop, Blocked, Receive
<1>3. CASE Dispatch
  BY <1>3
  DEF Dispatch, IsButton, ServoInv, ServoInRange, ServoFollowsRecord, CommandPlace,
      PressInProgress
<1>4. CASE UNCHANGED <<rpc, url, angle, duty, last>>
  BY <1>4
  DEF ServoInv, ServoInRange, ServoFollowsRecord, CommandPlace, PressInProgress
<1>5. CASE GpioSetLevel \/ Tick \/ UNCHANGED rvars
  BY <1>4, <1>5 DEF GpioSetLevel, Tick
<1> QED
  BY <1>2, <1>3, <1>5, ServoInvDispatch, ServoInvSet, ServoInvEnd DEF Next, Step

LEMMA ServoInvAlways == Spec => []ServoInv
  BY ServoInvInit, ServoInvInductive, TypeCorrect, PTL DEF Spec

\* No sequence of gimbal commands drives a recorded angle off the scale of
\* web_recdata or a pulse of servo_set_angle_To past an end stop.
THEOREM ServosStayInRange == Spec => []ServoInRange
<1>1. ServoInv => ServoInRange
  BY DEF ServoInv
<1> QED
  BY <1>1, ServoInvAlways, PTL

\* A servo that has been commanded stands where global_Yaw_Angle or
\* global_Pitch_Angle says.
THEOREM ServosFollowTheRecord == Spec => []ServoFollowsRecord
<1>1. ServoInv => ServoFollowsRecord
  BY DEF ServoInv
<1> QED
  BY <1>1, ServoInvAlways, PTL

\* A servo moves only for its own button, in its direction, by at most ten
\* degrees (from its second command on), whatever presses came before.
THEOREM ServosMoveInSteps == Spec => ServoStep
<1>1. TypeOK /\ ServoInv /\ [Next]_rvars =>
        [\A a \in Axis :
           duty'[a] # duty[a] =>
             /\ url.key = "gimbal" /\ GimbalAxis(url.val) = a
             /\ last[AxisGroup(a)] # NoUrl =>
                  IF GimbalStep(url.val) > 0
                  THEN duty'[a] - duty[a] \in 0..PerTenDegrees
                  ELSE duty[a] - duty'[a] \in 0..PerTenDegrees]_rvars
  <2> SUFFICES ASSUME TypeOK, ServoInv, [Next]_rvars,
                      NEW a \in Axis, duty'[a] # duty[a]
               PROVE  /\ url.key = "gimbal" /\ GimbalAxis(url.val) = a
                      /\ last[AxisGroup(a)] # NoUrl =>
                           IF GimbalStep(url.val) > 0
                           THEN duty'[a] - duty[a] \in 0..PerTenDegrees
                           ELSE duty[a] - duty'[a] \in 0..PerTenDegrees
    OBVIOUS
  <2>1. ServoSet
    BY DEF Next, Step, Start, Loop, Blocked, Receive, DispatchGimbal, Dispatch,
           GpioSetLevel, EndCommand, Tick
  <2>2. IsButton(url) /\ rpc = "servo"
    BY <2>1 DEF ServoSet, ServoInv, CommandPlace
  <2>3. GimbalAxis(url.val) = a
    BY <2>1 DEF ServoSet, TypeOK, GimbalAxis, Axis
  <2>4. duty'[a] = servo_per_degree_init(angle[a])
    BY <2>1, <2>3, ServoSetsAngle DEF ServoSet, TypeOK, ServoInv, ServoInRange
  <2>5. ASSUME last[AxisGroup(a)] # NoUrl
        PROVE  IF GimbalStep(url.val) > 0
               THEN duty'[a] - duty[a] \in 0..PerTenDegrees
               ELSE duty[a] - duty'[a] \in 0..PerTenDegrees
    <3>1. PICK d \in 0..SERVO_MAX_DEGREE :
            duty[a] = servo_per_degree_init(d) /\ angle[a] = NextAngle(url.val, d)
      BY <2>2, <2>3, <2>5 DEF ServoInv, PressInProgress
    <3> QED
      BY <2>4, <3>1, PressMovesPulse
  <2> QED
    BY <2>2, <2>3, <2>5 DEF IsButton
<1> QED
  BY <1>1, TypeCorrect, ServoInvAlways, PTL DEF Spec, ServoStep
=============================================================================
