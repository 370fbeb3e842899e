-------------------------------- MODULE Fire --------------------------------
(***************************************************************************)
(* The launcher (main/FIRE): the feeder motor A (pluck) and the friction   *)
(* wheels B, each behind one bridge.                                       *)
(***************************************************************************)
EXTENDS Chassis

feeder   == [in1 |-> 18, in2 |-> 5]
friction == [in1 |-> 26, in2 |-> 25]

\* A plausible slip: the feeder started as Fire.h:81-82 has it, backwards.
PluckAsInHeader == << Set(feeder.in1, 1), Set(feeder.in2, 0) >>

Fire_friction_wheel == << Set(friction.in1, 1), Set(friction.in2, 0) >>
Fire_Pluck_Run      == << Set(feeder.in1, 0), Set(feeder.in2, 1) >>
Stop_Fire_friction  == << Set(friction.in1, 1), Set(friction.in2, 1) >>
Stop_Fire_Pluck     == << Set(feeder.in1, 1), Set(feeder.in2, 1) >>

\* Every output pin of the robot, and the levels gpio_config leaves them at.
Pins == UNION {{m.in1, m.in2} : m \in ChassisMotors \cup {feeder, friction}}
BootLevel == [p \in Pins |-> 0]
=============================================================================
