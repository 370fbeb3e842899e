------------------------------- MODULE Gimbal -------------------------------
(***************************************************************************)
(* The two servos of the gimbal (main/Gimbal): axis 0 is yaw, axis 1 is    *)
(* pitch.  Angles are signed ints in the caller and uint32_t in the callee *)
(* servo_set_angle_To; UIntMod is the modulus of that conversion (2^32 on  *)
(* the ESP32).                                                             *)
(***************************************************************************)
EXTENDS Integers

CONSTANT UIntMod

SERVO_MIN_PULSEWIDTH == 500
SERVO_MAX_PULSEWIDTH == 2500
SERVO_MAX_DEGREE     == 270
SERVO_MID_DEGREE     == 135
Axis == {0, 1}

\* The unsigned width holds every angle and every product of the pulse formula.
ASSUME UIntModAssumption ==
  /\ UIntMod \in Nat
  /\ UIntMod > (SERVO_MAX_PULSEWIDTH - SERVO_MIN_PULSEWIDTH) * SERVO_MAX_DEGREE

\* Passing an int where a uint32_t is declared.
ToUint(a) == IF a < 0 THEN a + UIntMod ELSE a

\* The arithmetic of servo_per_degree_init, in uint32_t.
servo_per_degree_init(degree) ==
  SERVO_MIN_PULSEWIDTH
    + (((SERVO_MAX_PULSEWIDTH - SERVO_MIN_PULSEWIDTH) * degree) \div SERVO_MAX_DEGREE)

\* The pulse servo_set_angle_To programs; its lower clamp can never act on an
\* unsigned argument other than 0.
servo_set_angle_To(angle) ==
  LET set_angle == ToUint(angle)
  IN  servo_per_degree_init(
        IF set_angle >= SERVO_MAX_DEGREE THEN SERVO_MAX_DEGREE ELSE set_angle)

\* Plausible slips: the negative check left to the unsigned callee, or made
\* against the wrong end stop.
ClampNoFloor(a) == IF a >= SERVO_MAX_DEGREE THEN SERVO_MAX_DEGREE ELSE a
ClampNoCeiling(a) == IF a <= 0 THEN 0 ELSE a

\* The two checks web_recdata makes on a recorded angle before using it.
ClampAngle(a) ==
  IF a <= 0 THEN 0 ELSE IF a >= SERVO_MAX_DEGREE THEN SERVO_MAX_DEGREE ELSE a

\* What a gimbal button does: which axis it turns and by how much.
GimbalAxis(val) == IF val \in {0, 1} THEN 1 ELSE 0
GimbalStep(val) == IF val \in {0, 3} THEN -10 ELSE 10

\* The angle each global variable starts from, and where Gimbal_server_start
\* puts the servos (yaw 235, pitch 90).
RecordedAtBoot == [a \in Axis |-> SERVO_MID_DEGREE]
PulseAtBoot == [a \in Axis |-> servo_set_angle_To(IF a = 0 THEN 235 ELSE 90)]
=============================================================================
