------------------------------ MODULE Chassis ------------------------------
(***************************************************************************)
(* The four wheel motors behind two L298N bridges (main/Chassis).  Every   *)
(* motion function is a straight line of gpio_set_level calls, translated  *)
(* to the sequence of the writes it makes, in its order.                   *)
(***************************************************************************)
EXTENDS Integers, Sequences

\* The four motors and the two pins of each.
motorA == [in1 |-> 16, in2 |-> 17]
motorB == [in1 |-> 32, in2 |-> 33]
motorC == [in1 |-> 13, in2 |-> 15]
motorD == [in1 |-> 0,  in2 |-> 2]
ChassisMotors == {motorA, motorB, motorC, motorD}

\* Every function drives a pin to motorflagState or to its negation.
motorflagState == 0

\* One gpio_set_level(pin, level).
Set(pin, val) == [pin |-> pin, val |-> val]

\* "1 0" turns a motor clockwise, "0 1" counter-clockwise, "1 1" brakes it.
Cw(m)    == << Set(m.in1, 1 - motorflagState), Set(m.in2, motorflagState) >>
Ccw(m)   == << Set(m.in1, motorflagState), Set(m.in2, 1 - motorflagState) >>
Brake(m) == << Set(m.in1, 1 - motorflagState), Set(m.in2, 1 - motorflagState) >>

\* A plausible slip in Chassis_Left: motor B driven twice, A never.
Chassis_LeftWrongMotor == Ccw(motorB) \o Ccw(motorC) \o Cw(motorD) \o Cw(motorB)

Chassis_En       == Brake(motorA) \o Brake(motorB) \o Brake(motorC) \o Brake(motorD)
Chassis_Forward  == Cw(motorC) \o Cw(motorD) \o Ccw(motorA) \o Ccw(motorB)
Chassis_Backward == Cw(motorA) \o Cw(motorB) \o Ccw(motorC) \o Ccw(motorD)
Chassis_Left     == Ccw(motorB) \o Ccw(motorC) \o Cw(motorD) \o Cw(motorA)
Chassis_Right    == Ccw(motorA) \o Ccw(motorD) \o Cw(motorB) \o Cw(motorC)
Chassis_Left_revolve  == Ccw(motorA) \o Cw(motorB) \o Ccw(motorC) \o Cw(motorD)
Chassis_Right_revolve == Cw(motorA) \o Ccw(motorB) \o Cw(motorC) \o Ccw(motorD)

-----------------------------------------------------------------------------
(* How the pins move the robot.                                             *)

\* A bridge turns its motor one way (+1), the other (-1), or not at all.
Spin(level, m) == level[m.in1] - level[m.in2]

\* The three motions of four omni wheels: C and D in front, A and B behind,
\* C and B on the left, D and A on the right.
Ahead(level) == Spin(level, motorC) + Spin(level, motorD)
                  - Spin(level, motorA) - Spin(level, motorB)
Rightward(level) == Spin(level, motorC) + Spin(level, motorB)
                      - Spin(level, motorA) - Spin(level, motorD)
Turn(level) == Spin(level, motorA) + Spin(level, motorC)
                 - Spin(level, motorB) - Spin(level, motorD)

\* No wheel is driven.
Stopped(level) == \A m \in ChassisMotors : Spin(level, m) = 0
=============================================================================
