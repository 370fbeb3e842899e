---------------------------- MODULE MotorProofs ----------------------------
(***************************************************************************)
(* The motors do what the commands say: StickObeyed and LauncherObeyed for *)
(* any set of commands.  Each motor function is shown to lead to one spin  *)
(* of its motors whatever the pins stood at, web_recdata's overlapping     *)
(* stick tests to the motion of the last test that holds, and one by one   *)
(* the writes of a command to the outcome of the whole sequence.           *)
(***************************************************************************)
EXTENDS WebRecdataProofs, SequenceTheorems

USE DEF time, rvars

-----------------------------------------------------------------------------
(* What a sequence of pin writes leads to.                                  *)

LEMMA OutcomeEmpty == ASSUME NEW lv \in Levels PROVE Outcome(lv, << >>, lv)
  BY DEF Outcome, Settles

\* Two sequences of writes one after the other.
LEMMA OutcomeConcat ==
  ASSUME NEW lv \in Levels, NEW mid \in Levels, NEW fin \in Levels,
         NEW a \in Seq(Write), NEW b \in Seq(Write),
         Outcome(lv, a, mid), Outcome(mid, b, fin)
  PROVE  Outcome(lv, a \o b, fin)
<1> SUFFICES ASSUME NEW p \in Pins PROVE Settles(lv, a \o b, p, fin[p])
  BY DEF Outcome
<1> DEFINE w == a \o b
<1>1. /\ Len(w) = Len(a) + Len(b) /\ Len(a) \in Nat /\ Len(b) \in Nat
      /\ \A i \in 1..Len(a) : w[i] = a[i]
      /\ \A i \in 1..Len(b) : w[Len(a) + i] = b[i]
  BY ConcatProperties
<1>2. \A k \in 1..Len(w) : k \in 1..Len(a) \/ (k - Len(a) \in 1..Len(b) /\ w[k] = b[k - Len(a)])
  BY <1>1
<1> HIDE DEF w
<1>3. CASE fin[p] = mid[p] /\ \A i \in 1..Len(b) : b[i].pin # p
  <2>1. Settles(lv, a, p, mid[p])
    BY DEF Outcome
  <2>2. CASE mid[p] = lv[p] /\ \A i \in 1..Len(a) : a[i].pin # p
    <3>1. \A k \in 1..Len(w) : w[k].pin # p
      BY <1>1, <1>2, <1>3, <2>2
    <3> QED
      BY <3>1, <1>3, <2>2 DEF Settles, w
  <2>3. CASE \E i \in 1..Len(a) :
               a[i] = Set(p, mid[p]) /\ \A j \in i + 1..Len(a) : a[j].pin # p
    <3>1. PICK i \in 1..Len(a) :
            a[i] = Set(p, mid[p]) /\ \A j \in i + 1..Len(a) : a[j].pin # p
      BY <2>3
    <3>2. i \in 1..Len(w) /\ w[i] = Set(p, fin[p])
      BY <1>1, <1>3, <3>1
    <3>3. ASSUME NEW k \in i + 1..Len(w) PROVE w[k].pin # p
      <4>1. k \in 1..Len(w)
        BY <1>1
      <4>2. CASE k \in 1..Len(a)
        <5>1. k \in i + 1..Len(a) /\ w[k] = a[k]
          BY <1>1, <4>2
        <5> QED
          BY <3>1, <5>1
      <4>3. CASE k - Len(a) \in 1..Len(b) /\ w[k] = b[k - Len(a)]
        BY <1>3, <4>3
      <4> QED
        BY <1>2, <4>1, <4>2, <4>3
    <3> QED
      BY <3>2, <3>3 DEF Settles, w
  <2> QED
    BY <2>1, <2>2, <2>3 DEF Settles
<1>4. CASE \E i \in 1..Len(b) :
             b[i] = Set(p, fin[p]) /\ \A j \in i + 1..Len(b) : b[j].pin # p
  <2>1. PICK i \in 1..Len(b) :
          b[i] = Set(p, fin[p]) /\ \A j \in i + 1..Len(b) : b[j].pin # p
    BY <1>4
  <2>2. Len(a) + i \in 1..Len(w) /\ w[Len(a) + i] = Set(p, fin[p])
    BY <1>1, <2>1
  <2>3. ASSUME NEW k \in (Len(a) + i) + 1..Len(w) PROVE w[k].pin # p
    <3>1. /\ k \in 1..Len(w) /\ k \notin 1..Len(a)
          /\ k - Len(a) >= i + 1
      BY <1>1
    <3>2. k - Len(a) \in i + 1..Len(b) /\ w[k] = b[k - Len(a)]
      BY <1>1, <1>2, <3>1
    <3> QED
      BY <2>1, <3>2
  <2> QED
    BY <2>2, <2>3 DEF Settles, w
<1> QED
  BY <1>3, <1>4 DEF Outcome, Settles

\* The first write made, the rest leads to the same levels.
LEMMA OutcomeStep ==
  ASSUME NEW lv \in Levels, NEW fin \in Levels, NEW w \in Seq(Write), w # << >>,
         Outcome(lv, w, fin)
  PROVE  Outcome([lv EXCEPT ![Head(w).pin] = Head(w).val], Tail(w), fin)
<1> DEFINE next == [lv EXCEPT ![Head(w).pin] = Head(w).val]
<1>1. /\ Len(w) \in Nat /\ Len(w) >= 1 /\ Len(Tail(w)) = Len(w) - 1
      /\ Head(w) = w[1] /\ w[1] \in Write
      /\ \A i \in 1..Len(w) - 1 : Tail(w)[i] = w[i + 1]
  BY HeadTailProperties
<1>2. \A p \in Pins : next[p] = IF p = w[1].pin THEN w[1].val ELSE lv[p]
  BY <1>1 DEF Levels
<1> SUFFICES ASSUME NEW p \in Pins PROVE Settles(next, Tail(w), p, fin[p])
  BY DEF Outcome
<1> HIDE DEF next
<1>3. CASE fin[p] = lv[p] /\ \A i \in 1..Len(w) : w[i].pin # p
  <2>1. fin[p] = next[p]
    BY <1>1, <1>2, <1>3
  <2>2. \A i \in 1..Len(Tail(w)) : Tail(w)[i].pin # p
    BY <1>1, <1>3
  <2> QED
    BY <2>1, <2>2 DEF Settles
<1>4. CASE \E i \in 1..Len(w) :
             w[i] = Set(p, fin[p]) /\ \A j \in i + 1..Len(w) : w[j].pin # p
  <2>1. PICK i \in 1..Len(w) :
          w[i] = Set(p, fin[p]) /\ \A j \in i + 1..Len(w) : w[j].pin # p
    BY <1>4
  <2>2. CASE i = 1
    <3>1. fin[p] = next[p]
      BY <1>1, <1>2, <2>1, <2>2 DEF Set
    <3>2. \A k \in 1..Len(Tail(w)) : Tail(w)[k].pin # p
      BY <1>1, <2>1, <2>2
    <3> QED
      BY <3>1, <3>2 DEF Settles
  <2>3. CASE i # 1
    <3>1. i - 1 \in 1..Len(Tail(w)) /\ Tail(w)[i - 1] = Set(p, fin[p])
      BY <1>1, <2>1, <2>3
    <3>2. ASSUME NEW k \in (i - 1) + 1..Len(Tail(w)) PROVE Tail(w)[k].pin # p
      BY <1>1, <2>1, <2>3
    <3> QED
      BY <3>1, <3>2 DEF Settles
  <2> QED
    BY <2>2, <2>3
<1> QED
  BY <1>3, <1>4 DEF Outcome, Settles

\* No write left: the levels are the outcome.
LEMMA OutcomeDone ==
  ASSUME NEW lv \in Levels, NEW fin \in Levels, Outcome(lv, << >>, fin)
  PROVE  lv = fin
<1>1. \A p \in Pins : fin[p] = lv[p]
  BY DEF Outcome, Settles
<1> QED
  BY <1>1 DEF Levels

-----------------------------------------------------------------------------
(* One motor.                                                               *)

Motors == ChassisMotors \cup {feeder, friction}

\* No two motors share a pin.
LEMMA MotorsApart ==
  /\ \A m \in Motors : m.in1 \in Pins /\ m.in2 \in Pins /\ m.in1 # m.in2
  /\ \A m, n \in Motors : m # n => {m.in1, m.in2} \cap {n.in1, n.in2} = {}
<1>1. \A m \in Motors : m.in1 \in Pins /\ m.in2 \in Pins
  BY DEF Motors, Pins
<1>2. \A m \in Motors : m.in1 # m.in2
  BY DEF Motors, ChassisMotors, motorA, motorB, motorC, motorD, feeder, friction
<1>3. ASSUME NEW m \in Motors, NEW n \in Motors, m # n
      PROVE  m.in1 # n.in1 /\ m.in1 # n.in2 /\ m.in2 # n.in1 /\ m.in2 # n.in2
  BY <1>3 DEF Motors, ChassisMotors, motorA, motorB, motorC, motorD, feeder, friction
<1> QED
  BY <1>1, <1>2, <1>3

LEMMA MotorNames ==
  /\ {motorA, motorB, motorC, motorD, feeder, friction} \subseteq Motors
  /\ motorA # motorB /\ motorA # motorC /\ motorA # motorD /\ motorA # feeder /\ motorA # friction
  /\ motorB # motorC /\ motorB # motorD /\ motorB # feeder /\ motorB # friction
  /\ motorC # motorD /\ motorC # feeder /\ motorC # friction
  /\ motorD # feeder /\ motorD # friction /\ feeder # friction
<1>1. {motorA, motorB, motorC, motorD, feeder, friction} \subseteq Motors
  BY DEF Motors, ChassisMotors
<1>2. /\ motorA.in1 = 16 /\ motorB.in1 = 32 /\ motorC.in1 = 13 /\ motorD.in1 = 0
      /\ feeder.in1 = 18 /\ friction.in1 = 26
  BY DEF motorA, motorB, motorC, motorD, feeder, friction
<1> QED
  BY <1>1, <1>2

\* The writes w turn motor m at s and leave every other motor as it is.
Drives(w, m, s) ==
  /\ w \in Seq(Write)
  /\ \A lv \in Levels : \E fin \in Levels :
       /\ Outcome(lv, w, fin)
       /\ Spin(fin, m) = s
       /\ \A n \in Motors \ {m} : Spin(fin, n) = Spin(lv, n)

LEMMA PairDrives ==
  ASSUME NEW m \in Motors, NEW v \in {0, 1}, NEW z \in {0, 1}
  PROVE  Drives(<< Set(m.in1, v), Set(m.in2, z) >>, m, v - z)
<1> DEFINE w == << Set(m.in1, v), Set(m.in2, z) >>
<1>1. w \in Seq(Write)
  BY MotorsApart, PairType
<1>2. ASSUME NEW lv \in Levels
      PROVE  \E fin \in Levels : /\ Outcome(lv, w, fin)
                                 /\ Spin(fin, m) = v - z
                                 /\ \A n \in Motors \ {m} : Spin(fin, n) = Spin(lv, n)
  <2> DEFINE fin == [lv EXCEPT ![m.in1] = v, ![m.in2] = z]
  <2>1. /\ fin \in Levels
        /\ fin[m.in1] = v /\ fin[m.in2] = z
        /\ \A p \in Pins \ {m.in1, m.in2} : fin[p] = lv[p]
    BY MotorsApart DEF Levels
  <2> HIDE DEF fin
  <2>2. ASSUME NEW p \in Pins PROVE Settles(lv, w, p, fin[p])
    <3>1. Len(w) = 2 /\ w[1] = Set(m.in1, v) /\ w[2] = Set(m.in2, z)
      OBVIOUS
    <3>2. w[1].pin = m.in1 /\ w[2].pin = m.in2
      BY DEF Set
    <3> HIDE DEF w
    <3>3. CASE p = m.in1
      <4>1. 1 \in 1..Len(w) /\ w[1] = Set(p, fin[p])
        BY <2>1, <3>1, <3>3
      <4>2. \A j \in 1 + 1..Len(w) : w[j].pin # p
        BY <3>1, <3>2, <3>3, MotorsApart
      <4> QED
        BY <4>1, <4>2 DEF Settles
    <3>4. CASE p = m.in2
      <4>1. 2 \in 1..Len(w) /\ w[2] = Set(p, fin[p])
        BY <2>1, <3>1, <3>4
      <4>2. \A j \in 2 + 1..Len(w) : w[j].pin # p
        BY <3>1
      <4> QED
        BY <4>1, <4>2 DEF Settles
    <3>5. CASE p \notin {m.in1, m.in2}
      <4>1. fin[p] = lv[p]
        BY <2>1, <3>5
      <4>2. \A j \in 1..Len(w) : w[j].pin # p
        BY <3>1, <3>2, <3>5
      <4> QED
        BY <4>1, <4>2 DEF Settles
    <3> QED
      BY <3>3, <3>4, <3>5
  <2>3. \A n \in Motors \ {m} : Spin(fin, n) = Spin(lv, n)
    BY <2>1, MotorsApart DEF Spin
  <2> QED
    BY <2>1, <2>2, <2>3 DEF Outcome, Spin
<1> QED
  BY <1>1, <1>2 DEF Drives

\* The three things Chassis.c does to a motor.
LEMMA MotorDrives ==
  ASSUME NEW m \in Motors
  PROVE  Drives(Cw(m), m, 1) /\ Drives(Ccw(m), m, -1) /\ Drives(Brake(m), m, 0)
<1>1. 1 - 0 = 1 /\ 0 - 1 = -1 /\ 1 - 1 = 0
  OBVIOUS
<1>2. /\ Cw(m) = << Set(m.in1, 1), Set(m.in2, 0) >>
      /\ Ccw(m) = << Set(m.in1, 0), Set(m.in2, 1) >>
      /\ Brake(m) = << Set(m.in1, 1), Set(m.in2, 1) >>
  BY <1>1 DEF Cw, Ccw, Brake, motorflagState
<1>3. Drives(Cw(m), m, 1 - 0) /\ Drives(Ccw(m), m, 0 - 1) /\ Drives(Brake(m), m, 1 - 1)
  BY <1>2, PairDrives
<1> QED
  BY <1>1, <1>3

\* The four functions of Fire.c.
LEMMA FireDrives ==
  /\ Drives(Fire_friction_wheel, friction, 1) /\ Drives(Stop_Fire_friction, friction, 0)
  /\ Drives(Fire_Pluck_Run, feeder, -1) /\ Drives(Stop_Fire_Pluck, feeder, 0)
<1>1. /\ Drives(Fire_friction_wheel, friction, 1 - 0)
      /\ Drives(Stop_Fire_friction, friction, 1 - 1)
      /\ Drives(Fire_Pluck_Run, feeder, 0 - 1)
      /\ Drives(Stop_Fire_Pluck, feeder, 1 - 1)
  BY PairDrives, MotorNames
  DEF Fire_friction_wheel, Stop_Fire_friction, Fire_Pluck_Run, Stop_Fire_Pluck
<1>2. 1 - 0 = 1 /\ 0 - 1 = -1 /\ 1 - 1 = 0
  OBVIOUS
<1> QED
  BY <1>1, <1>2

-----------------------------------------------------------------------------
(* The chassis.                                                             *)

\* The wheels A, B, C and D turn at a, b, c and d.
Turning(lv, a, b, c, d) ==
  /\ Spin(lv, motorA) = a /\ Spin(lv, motorB) = b
  /\ Spin(lv, motorC) = c /\ Spin(lv, motorD) = d

\* The launcher's motors turn in fin as they do in lv; the wheels do.
SameLauncher(lv, fin) ==
  Spin(fin, feeder) = Spin(lv, feeder) /\ Spin(fin, friction) = Spin(lv, friction)
SameWheels(lv, fin) == \A m \in ChassisMotors : Spin(fin, m) = Spin(lv, m)

\* The writes w turn the four wheels at a, b, c and d, whatever they did.
Steers(w, a, b, c, d) ==
  /\ w \in Seq(Write)
  /\ \A lv \in Levels : \E fin \in Levels :
       Outcome(lv, w, fin) /\ SameLauncher(lv, fin) /\ Turning(fin, a, b, c, d)

\* The same with the wheels in the order the function takes them.
DrivesAll(w, m1, m2, m3, m4, s1, s2, s3, s4) ==
  /\ w \in Seq(Write)
  /\ \A lv \in Levels : \E fin \in Levels :
       /\ Outcome(lv, w, fin) /\ SameLauncher(lv, fin)
       /\ Spin(fin, m1) = s1 /\ Spin(fin, m2) = s2
       /\ Spin(fin, m3) = s3 /\ Spin(fin, m4) = s4

\* A function that drives the four wheels one after the other.
LEMMA FourDrives ==
  ASSUME NEW m1 \in ChassisMotors, NEW m2 \in ChassisMotors,
         NEW m3 \in ChassisMotors, NEW m4 \in ChassisMotors,
         m1 # m2, m1 # m3, m1 # m4, m2 # m3, m2 # m4, m3 # m4,
         NEW w1, NEW w2, NEW w3, NEW w4, NEW s1, NEW s2, NEW s3, NEW s4,
         Drives(w1, m1, s1), Drives(w2, m2, s2), Drives(w3, m3, s3), Drives(w4, m4, s4)
  PROVE  DrivesAll(w1 \o w2 \o w3 \o w4, m1, m2, m3, m4, s1, s2, s3, s4)
<1>1. /\ w1 \in Seq(Write) /\ w2 \in Seq(Write) /\ w3 \in Seq(Write) /\ w4 \in Seq(Write)
      /\ w1 \o w2 \in Seq(Write) /\ w1 \o w2 \o w3 \in Seq(Write)
      /\ w1 \o w2 \o w3 \o w4 \in Seq(Write)
  BY ConcatType DEF Drives
<1>2. /\ {m1, m2, m3, m4} \subseteq Motors
      /\ {feeder, friction} \subseteq Motors \ {m1, m2, m3, m4}
  BY MotorNames DEF Motors, ChassisMotors
<1>3. ASSUME NEW lv \in Levels
      PROVE  \E fin \in Levels :
               /\ Outcome(lv, w1 \o w2 \o w3 \o w4, fin)
               /\ SameLauncher(lv, fin)
               /\ Spin(fin, m1) = s1 /\ Spin(fin, m2) = s2
               /\ Spin(fin, m3) = s3 /\ Spin(fin, m4) = s4
  <2>1. PICK f1 \in Levels : /\ Outcome(lv, w1, f1) /\ Spin(f1, m1) = s1
                             /\ \A n \in Motors \ {m1} : Spin(f1, n) = Spin(lv, n)
    BY DEF Drives
  <2>2. PICK f2 \in Levels : /\ Outcome(f1, w2, f2) /\ Spin(f2, m2) = s2
                             /\ \A n \in Motors \ {m2} : Spin(f2, n) = Spin(f1, n)
    BY DEF Drives
  <2>3. PICK f3 \in Levels : /\ Outcome(f2, w3, f3) /\ Spin(f3, m3) = s3
                             /\ \A n \in Motors \ {m3} : Spin(f3, n) = Spin(f2, n)
    BY DEF Drives
  <2>4. PICK f4 \in Levels : /\ Outcome(f3, w4, f4) /\ Spin(f4, m4) = s4
                             /\ \A n \in Motors \ {m4} : Spin(f4, n) = Spin(f3, n)
    BY DEF Drives
  <2>5. Outcome(lv, w1 \o w2, f2)
    BY <1>1, <2>1, <2>2, OutcomeConcat
  <2>6. Outcome(lv, w1 \o w2 \o w3, f3)
    BY <1>1, <2>3, <2>5, OutcomeConcat
  <2>7. Outcome(lv, w1 \o w2 \o w3 \o w4, f4)
    BY <1>1, <2>4, <2>6, OutcomeConcat
  <2>8. SameLauncher(lv, f4)
    BY <1>2, <2>1, <2>2, <2>3, <2>4 DEF SameLauncher
  <2>9. /\ Spin(f4, m1) = s1 /\ Spin(f4, m2) = s2
        /\ Spin(f4, m3) = s3 /\ Spin(f4, m4) = s4
    BY <1>2, <2>1, <2>2, <2>3, <2>4
  <2> QED
    BY <2>7, <2>8, <2>9
<1> QED
  BY <1>1, <1>3 DEF DrivesAll

\* Every function of Chassis.c has one outcome for the four wheels, and leaves
\* the launcher alone.
LEMMA ChassisSteers ==
  /\ Steers(Chassis_En, 0, 0, 0, 0)
  /\ Steers(Chassis_Forward, -1, -1, 1, 1)
  /\ Steers(Chassis_Backward, 1, 1, -1, -1)
  /\ Steers(Chassis_Left, 1, -1, -1, 1)
  /\ Steers(Chassis_Right, -1, 1, 1, -1)
  /\ Steers(Chassis_Left_revolve, -1, 1, -1, 1)
  /\ Steers(Chassis_Right_revolve, 1, -1, 1, -1)
<1>1. /\ {motorA, motorB, motorC, motorD} \subseteq ChassisMotors
      /\ {motorA, motorB, motorC, motorD} \subseteq Motors
  BY MotorNames DEF ChassisMotors
<1>2. \A m \in {motorA, motorB, motorC, motorD} :
        Drives(Cw(m), m, 1) /\ Drives(Ccw(m), m, -1) /\ Drives(Brake(m), m, 0)
  BY <1>1, MotorDrives
<1>3. Steers(Chassis_En, 0, 0, 0, 0)
  <2>1. DrivesAll(Chassis_En, motorA, motorB, motorC, motorD, 0, 0, 0, 0)
    BY <1>1, <1>2, MotorNames, FourDrives DEF Chassis_En
  <2> QED
    BY <2>1 DEF DrivesAll, Steers, Turning
<1>4. Steers(Chassis_Forward, -1, -1, 1, 1)
  <2>1. DrivesAll(Chassis_Forward, motorC, motorD, motorA, motorB, 1, 1, -1, -1)
    BY <1>1, <1>2, MotorNames, FourDrives DEF Chassis_Forward
  <2> QED
    BY <2>1 DEF DrivesAll, Steers, Turning
<1>5. Steers(Chassis_Backward, 1, 1, -1, -1)
  <2>1. DrivesAll(Chassis_Backward, motorA, motorB, motorC, motorD, 1, 1, -1, -1)
    BY <1>1, <1>2, MotorNames, FourDrives DEF Chassis_Backward
  <2> QED
    BY <2>1 DEF DrivesAll, Steers, Turning
<1>6. Steers(Chassis_Left, 1, -1, -1, 1)
  <2>1. DrivesAll(Chassis_Left, motorB, motorC, motorD, motorA, -1, -1, 1, 1)
    BY <1>1, <1>2, MotorNames, FourDrives DEF Chassis_Left
  <2> QED
    BY <2>1 DEF DrivesAll, Steers, Turning
<1>7. Steers(Chassis_Right, -1, 1, 1, -1)
  <2>1. DrivesAll(Chassis_Right, motorA, motorD, motorB, motorC, -1, -1, 1, 1)
    BY <1>1, <1>2, MotorNames, FourDrives DEF Chassis_Right
  <2> QED
    BY <2>1 DEF DrivesAll, Steers, Turning
<1>8. Steers(Chassis_Left_revolve, -1, 1, -1, 1)
  <2>1. DrivesAll(Chassis_Left_revolve, motorA, motorB, motorC, motorD, -1, 1, -1, 1)
    BY <1>1, <1>2, MotorNames, FourDrives DEF Chassis_Left_revolve
  <2> QED
    BY <2>1 DEF DrivesAll, Steers, Turning
<1>9. Steers(Chassis_Right_revolve, 1, -1, 1, -1)
  <2>1. DrivesAll(Chassis_Right_revolve, motorA, motorB, motorC, motorD, 1, -1, 1, -1)
    BY <1>1, <1>2, MotorNames, FourDrives DEF Chassis_Right_revolve
  <2> QED
    BY <2>1 DEF DrivesAll, Steers, Turning
<1> QED
  BY <1>3, <1>4, <1>5, <1>6, <1>7, <1>8, <1>9

-----------------------------------------------------------------------------
(* The stick.                                                               *)

\* One test of web_recdata and the function it calls.
LEMMA WhenSteers ==
  ASSUME NEW cond \in BOOLEAN, NEW w, NEW a, NEW b, NEW c, NEW d,
         Steers(w, a, b, c, d), NEW lv \in Levels
  PROVE  /\ When(cond, w) \in Seq(Write)
         /\ \E fin \in Levels :
              /\ Outcome(lv, When(cond, w), fin) /\ SameLauncher(lv, fin)
              /\ cond => Turning(fin, a, b, c, d)
              /\ ~cond => fin = lv
<1>1. CASE cond
  BY <1>1 DEF When, Steers
<1>2. CASE ~cond
  <2>1. When(cond, w) = << >> /\ Outcome(lv, << >>, lv) /\ SameLauncher(lv, lv)
    BY <1>2, OutcomeEmpty DEF When, SameLauncher
  <2> QED
    BY <1>2, <2>1
<1> QED
  BY <1>1, <1>2

\* What a stick cell asks for, in terms of the four wheels.
LEMMA TurningObeys ==
  ASSUME NEW lv \in Levels, NEW x \in 0..10, NEW y \in 0..10
  PROVE  /\ Turning(lv, 0, 0, 0, 0) => Stopped(lv)
         /\ Turning(lv, -1, -1, 1, 1) /\ y < 5 => Obeys(lv, x, y)
         /\ Turning(lv, 1, 1, -1, -1) /\ y > 5 => Obeys(lv, x, y)
         /\ Turning(lv, 1, -1, -1, 1) /\ x < 5 => Obeys(lv, x, y)
         /\ Turning(lv, -1, 1, 1, -1) /\ x > 5 => Obeys(lv, x, y)
         /\ Turning(lv, -1, 1, -1, 1) /\ x < 5 => Obeys(lv, x, y)
         /\ Turning(lv, 1, -1, 1, -1) /\ x > 5 => Obeys(lv, x, y)
<1> USE DEF Turning, Ahead, Rightward, Turn
<1>1. Turning(lv, 0, 0, 0, 0) => Stopped(lv)
  BY DEF Stopped, ChassisMotors
<1>2. ASSUME NEW v \in {4, -4}, {Ahead(lv), Rightward(lv), Turn(lv)} \ {0} = {v},
             x # 5 \/ y # 5,
             Ahead(lv) > 0 => y < 5, Ahead(lv) < 0 => y > 5,
             Rightward(lv) > 0 \/ Turn(lv) > 0 => x > 5,
             Rightward(lv) < 0 \/ Turn(lv) < 0 => x < 5
      PROVE  Obeys(lv, x, y)
  BY <1>2 DEF Obeys
<1>3. ASSUME Turning(lv, -1, -1, 1, 1), y < 5  PROVE Obeys(lv, x, y)
  <2>1. Ahead(lv) = 4 /\ Rightward(lv) = 0 /\ Turn(lv) = 0
    BY <1>3
  <2> QED
    BY <1>2, <1>3, <2>1
<1>4. ASSUME Turning(lv, 1, 1, -1, -1), y > 5  PROVE Obeys(lv, x, y)
  <2>1. Ahead(lv) = -4 /\ Rightward(lv) = 0 /\ Turn(lv) = 0
    BY <1>4
  <2> QED
    BY <1>2, <1>4, <2>1
<1>5. ASSUME Turning(lv, 1, -1, -1, 1), x < 5  PROVE Obeys(lv, x, y)
  <2>1. Ahead(lv) = 0 /\ Rightward(lv) = -4 /\ Turn(lv) = 0
    BY <1>5
  <2> QED
    BY <1>2, <1>5, <2>1
<1>6. ASSUME Turning(lv, -1, 1, 1, -1), x > 5  PROVE Obeys(lv, x, y)
  <2>1. Ahead(lv) = 0 /\ Rightward(lv) = 4 /\ Turn(lv) = 0
    BY <1>6
  <2> QED
    BY <1>2, <1>6, <2>1
<1>7. ASSUME Turning(lv, -1, 1, -1, 1), x < 5  PROVE Obeys(lv, x, y)
  <2>1. Ahead(lv) = 0 /\ Rightward(lv) = 0 /\ Turn(lv) = -4
    BY <1>7
  <2> QED
    BY <1>2, <1>7, <2>1
<1>8. ASSUME Turning(lv, 1, -1, 1, -1), x > 5  PROVE Obeys(lv, x, y)
  <2>1. Ahead(lv) = 0 /\ Rightward(lv) = 0 /\ Turn(lv) = 4
    BY <1>8
  <2> QED
    BY <1>2, <1>8, <2>1
<1> QED
  BY <1>1, <1>3, <1>4, <1>5, <1>6, <1>7, <1>8

\* The four digits of a value and the two halves they are split into.
Digits == 0..9999
Coord == 0..99

LEMMA CoordSplit ==
  ASSUME NEW n \in Digits
  PROVE  n \div 100 \in Coord /\ n % 100 \in Coord
<1> USE DEF Digits
<1>1. n \div 100 \in Int
  OBVIOUS
<1>2. n % 100 \in 0..99
  OBVIOUS
<1>3. n = 100 * (n \div 100) + (n % 100)
  OBVIOUS
<1> QED
  BY <1>1, <1>2, <1>3 DEF Coord

\* The seven tests in their order: on the grid the last one that holds decides
\* and is right for the cell; off the grid nothing is written.
LEMMA RockerObeys ==
  ASSUME NEW x \in Coord, NEW y \in Coord, NEW lv \in Levels
  PROVE  \E fin \in Levels :
           /\ Outcome(lv, Rocker(x, y), fin) /\ SameLauncher(lv, fin)
           /\ x \in 0..10 /\ y \in 0..10 => Obeys(fin, x, y)
           /\ ~(x \in 0..10 /\ y \in 0..10) => fin = lv
<1> DEFINE c1 == x = 5 /\ y = 5
           c2 == x \in 4..6 /\ y \in 0..4
           c3 == x \in 4..6 /\ y \in 6..10
           c4 == x \in 0..4 /\ y \in 4..6
           c5 == x \in 6..10 /\ y \in 4..6
           c6 == x \in 0..3 /\ y \in (0..3) \cup (7..10)
           c7 == x \in 7..10 /\ y \in (0..3) \cup (7..10)
           w1 == When(c1, Chassis_En)
           w2 == When(c2, Chassis_Forward)
           w3 == When(c3, Chassis_Backward)
           w4 == When(c4, Chassis_Left)
           w5 == When(c5, Chassis_Right)
           w6 == When(c6, Chassis_Left_revolve)
           w7 == When(c7, Chassis_Right_revolve)
<1>1. Rocker(x, y) = w1 \o w2 \o w3 \o w4 \o w5 \o w6 \o w7
  BY DEF Rocker
<1>2. /\ c1 \in BOOLEAN /\ c2 \in BOOLEAN /\ c3 \in BOOLEAN /\ c4 \in BOOLEAN
      /\ c5 \in BOOLEAN /\ c6 \in BOOLEAN /\ c7 \in BOOLEAN
  OBVIOUS
<1>3. /\ x \in 0..10 /\ y \in 0..10 =>
           \/ c1 /\ ~c2 /\ ~c3 /\ ~c4 /\ ~c5 /\ ~c6 /\ ~c7
           \/ c2 /\ ~c3 /\ ~c4 /\ ~c5 /\ ~c6 /\ ~c7 /\ y < 5
           \/ c3 /\ ~c4 /\ ~c5 /\ ~c6 /\ ~c7 /\ y > 5
           \/ c4 /\ ~c5 /\ ~c6 /\ ~c7 /\ x < 5
           \/ c5 /\ ~c6 /\ ~c7 /\ x > 5
           \/ c6 /\ ~c7 /\ x < 5
           \/ c7 /\ x > 5
      /\ ~(x \in 0..10 /\ y \in 0..10) =>
           ~c1 /\ ~c2 /\ ~c3 /\ ~c4 /\ ~c5 /\ ~c6 /\ ~c7
      /\ c1 => x = 5 /\ y = 5
  BY DEF Coord
<1> HIDE DEF c1, c2, c3, c4, c5, c6, c7
<1>11. PICK f1 \in Levels : /\ Outcome(lv, w1, f1) /\ SameLauncher(lv, f1)
                            /\ c1 => Turning(f1, 0, 0, 0, 0)
                            /\ ~c1 => f1 = lv
  BY <1>2, ChassisSteers, WhenSteers
<1>12. PICK f2 \in Levels : /\ Outcome(f1, w2, f2) /\ SameLauncher(f1, f2)
                            /\ c2 => Turning(f2, -1, -1, 1, 1)
                            /\ ~c2 => f2 = f1
  BY <1>2, ChassisSteers, WhenSteers
<1>13. PICK f3 \in Levels : /\ Outcome(f2, w3, f3) /\ SameLauncher(f2, f3)
                            /\ c3 => Turning(f3, 1, 1, -1, -1)
                            /\ ~c3 => f3 = f2
  BY <1>2, ChassisSteers, WhenSteers
<1>14. PICK f4 \in Levels : /\ Outcome(f3, w4, f4) /\ SameLauncher(f3, f4)
                            /\ c4 => Turning(f4, 1, -1, -1, 1)
                            /\ ~c4 => f4 = f3
  BY <1>2, ChassisSteers, WhenSteers
<1>15. PICK f5 \in Levels : /\ Outcome(f4, w5, f5) /\ SameLauncher(f4, f5)
                            /\ c5 => Turning(f5, -1, 1, 1, -1)
                            /\ ~c5 => f5 = f4
  BY <1>2, ChassisSteers, WhenSteers
<1>16. PICK f6 \in Levels : /\ Outcome(f5, w6, f6) /\ SameLauncher(f5, f6)
                            /\ c6 => Turning(f6, -1, 1, -1, 1)
                            /\ ~c6 => f6 = f5
  BY <1>2, ChassisSteers, WhenSteers
<1>17. PICK f7 \in Levels : /\ Outcome(f6, w7, f7) /\ SameLauncher(f6, f7)
                            /\ c7 => Turning(f7, 1, -1, 1, -1)
                            /\ ~c7 => f7 = f6
  BY <1>2, ChassisSteers, WhenSteers
<1>20. /\ w1 \in Seq(Write) /\ w2 \in Seq(Write) /\ w3 \in Seq(Write)
       /\ w4 \in Seq(Write) /\ w5 \in Seq(Write) /\ w6 \in Seq(Write) /\ w7 \in Seq(Write)
  BY ChassisType DEF When
<1> HIDE DEF w1, w2, w3, w4, w5, w6, w7
<1>21. w1 \o w2 \in Seq(Write) /\ Outcome(lv, w1 \o w2, f2)
  BY <1>11, <1>12, <1>20, OutcomeConcat, ConcatType
<1>22. w1 \o w2 \o w3 \in Seq(Write) /\ Outcome(lv, w1 \o w2 \o w3, f3)
  BY <1>13, <1>20, <1>21, OutcomeConcat, ConcatType
<1>23. w1 \o w2 \o w3 \o w4 \in Seq(Write) /\ Outcome(lv, w1 \o w2 \o w3 \o w4, f4)
  BY <1>14, <1>20, <1>22, OutcomeConcat, ConcatType
<1>24. /\ w1 \o w2 \o w3 \o w4 \o w5 \in Seq(Write)
       /\ Outcome(lv, w1 \o w2 \o w3 \o w4 \o w5, f5)
  BY <1>15, <1>20, <1>23, OutcomeConcat, ConcatType
<1>25. /\ w1 \o w2 \o w3 \o w4 \o w5 \o w6 \in Seq(Write)
       /\ Outcome(lv, w1 \o w2 \o w3 \o w4 \o w5 \o w6, f6)
  BY <1>16, <1>20, <1>24, OutcomeConcat, ConcatType
<1>26. Outcome(lv, Rocker(x, y), f7)
  <2>1. Outcome(lv, w1 \o w2 \o w3 \o w4 \o w5 \o w6 \o w7, f7)
    BY <1>17, <1>20, <1>25, OutcomeConcat
  <2> QED
    BY <1>1, <2>1
<1>27. SameLauncher(lv, f7)
  BY <1>11, <1>12, <1>13, <1>14, <1>15, <1>16, <1>17 DEF SameLauncher
<1>28. x \in 0..10 /\ y \in 0..10 => Obeys(f7, x, y)
  <2> HAVE x \in 0..10 /\ y \in 0..10
  <2>1. \/ x = 5 /\ y = 5 /\ Turning(f7, 0, 0, 0, 0)
        \/ Turning(f7, -1, -1, 1, 1) /\ y < 5
        \/ Turning(f7, 1, 1, -1, -1) /\ y > 5
        \/ Turning(f7, 1, -1, -1, 1) /\ x < 5
        \/ Turning(f7, -1, 1, 1, -1) /\ x > 5
        \/ Turning(f7, -1, 1, -1, 1) /\ x < 5
        \/ Turning(f7, 1, -1, 1, -1) /\ x > 5
    BY <1>3, <1>11, <1>12, <1>13, <1>14, <1>15, <1>16, <1>17
  <2>2. CASE x = 5 /\ y = 5 /\ Turning(f7, 0, 0, 0, 0)
    BY <2>2, TurningObeys DEF Obeys
  <2> QED
    BY <2>1, <2>2, TurningObeys
<1>29. ~(x \in 0..10 /\ y \in 0..10) => f7 = lv
  BY <1>3, <1>11, <1>12, <1>13, <1>14, <1>15, <1>16, <1>17
<1> QED
  BY <1>26, <1>27, <1>28, <1>29

-----------------------------------------------------------------------------
(* A whole command.                                                         *)

\* Only the wheels matter to the drive command, only the launcher's motors to
\* the launcher commands.
LEMMA DriveObeysSame ==
  ASSUME NEW lv \in Levels, NEW fin \in Levels, NEW u,
         SameWheels(lv, fin), DriveObeys(lv, u)
  PROVE  DriveObeys(fin, u)
<1>1. /\ Spin(fin, motorA) = Spin(lv, motorA) /\ Spin(fin, motorB) = Spin(lv, motorB)
      /\ Spin(fin, motorC) = Spin(lv, motorC) /\ Spin(fin, motorD) = Spin(lv, motorD)
  BY DEF SameWheels, ChassisMotors
<1>2. Ahead(fin) = Ahead(lv) /\ Rightward(fin) = Rightward(lv) /\ Turn(fin) = Turn(lv)
  BY <1>1 DEF Ahead, Rightward, Turn
<1>3. Stopped(fin) <=> Stopped(lv)
  BY DEF SameWheels, Stopped
<1> QED
  BY <1>2, <1>3 DEF DriveObeys, Obeys

LEMMA LauncherObeysSame ==
  ASSUME NEW lv, NEW fin, NEW rec, NEW new, SameLauncher(lv, fin), LauncherObeys(lv, rec),
         new["friction"] = rec["friction"], new["feeder"] = rec["feeder"]
  PROVE  LauncherObeys(fin, new)
  BY DEF SameLauncher, LauncherObeys

\* The record after a command, group by group.
LEMMA RecordedGroups ==
  ASSUME NEW u
  PROVE  /\ Recorded(u)["drive"] = IF StickCell(u) \/ u.key = "other" THEN u ELSE last["drive"]
         /\ Recorded(u)["friction"] =
              IF u.key \in {"blaste", "fireSt"} THEN u ELSE last["friction"]
         /\ Recorded(u)["feeder"] =
              IF u.key \in {"Pluck1", "luck2P"} THEN u ELSE last["feeder"]
  BY DEF Recorded, Groups, InGroup

\* A launcher command changes its own motor and nothing else.
LEMMA LauncherCommand ==
  ASSUME NEW lv \in Levels, NEW w, NEW m \in {feeder, friction}, NEW s, Drives(w, m, s)
  PROVE  \E fin \in Levels :
           /\ Outcome(lv, w, fin) /\ SameWheels(lv, fin) /\ Spin(fin, m) = s
           /\ \A n \in {feeder, friction} \ {m} : Spin(fin, n) = Spin(lv, n)
<1>1. ChassisMotors \subseteq Motors \ {m}
  BY MotorNames DEF ChassisMotors
<1>2. {feeder, friction} \subseteq Motors
  BY DEF Motors
<1> QED
  BY <1>1, <1>2 DEF Drives, SameWheels

\* Whatever the pins stand at, the writes of a command lead to levels that obey
\* the record with that command in it.
LEMMA CommandObeys ==
  ASSUME NEW u \in Url, u.key # "gimbal", NEW lv \in Levels, Obeyed(lv, last)
  PROVE  \E fin \in Levels : Outcome(lv, Writes(u), fin) /\ Obeyed(fin, Recorded(u))
<1> DEFINE x == u.val \div 100
           y == u.val % 100
<1>1. x \in Coord /\ y \in Coord /\ u.key \in Keys
  <2>1. u.val \in Digits /\ u.key \in Keys
    BY DEF Url, Digits
  <2> QED
    BY <2>1, CoordSplit, SMTT(30)
<1>2. DriveObeys(lv, last["drive"]) /\ LauncherObeys(lv, last)
  BY DEF Obeyed
<1>3. friction # feeder
  BY MotorNames
<1>4. CASE u.key \in {"blaste", "fireSt"}
  <2>1. PICK s \in {0, 1} : Drives(Writes(u), friction, s) /\ (s = 1 <=> u.key = "blaste")
    BY <1>4, FireDrives DEF Writes
  <2>2. PICK fin \in Levels :
          /\ Outcome(lv, Writes(u), fin) /\ SameWheels(lv, fin) /\ Spin(fin, friction) = s
          /\ Spin(fin, feeder) = Spin(lv, feeder)
    BY <2>1, <1>3, LauncherCommand
  <2>3. /\ Recorded(u)["drive"] = last["drive"] /\ Recorded(u)["friction"] = u
        /\ Recorded(u)["feeder"] = last["feeder"]
    BY <1>4, RecordedGroups DEF StickCell
  <2>4. DriveObeys(fin, Recorded(u)["drive"])
    BY <1>2, <2>2, <2>3, DriveObeysSame
  <2>5. LauncherObeys(fin, Recorded(u))
    BY <1>2, <1>4, <2>1, <2>2, <2>3 DEF LauncherObeys
  <2> QED
    BY <2>2, <2>4, <2>5 DEF Obeyed
<1>5. CASE u.key \in {"Pluck1", "luck2P"}
  <2>1. PICK s \in {0, -1} : Drives(Writes(u), feeder, s) /\ (s = -1 <=> u.key = "Pluck1")
    BY <1>5, FireDrives DEF Writes
  <2>2. PICK fin \in Levels :
          /\ Outcome(lv, Writes(u), fin) /\ SameWheels(lv, fin) /\ Spin(fin, feeder) = s
          /\ Spin(fin, friction) = Spin(lv, friction)
    BY <2>1, <1>3, LauncherCommand
  <2>3. /\ Recorded(u)["drive"] = last["drive"] /\ Recorded(u)["feeder"] = u
        /\ Recorded(u)["friction"] = last["friction"]
    BY <1>5, RecordedGroups DEF StickCell
  <2>4. DriveObeys(fin, Recorded(u)["drive"])
    BY <1>2, <2>2, <2>3, DriveObeysSame
  <2>5. LauncherObeys(fin, Recorded(u))
    BY <1>2, <1>5, <2>1, <2>2, <2>3 DEF LauncherObeys
  <2> QED
    BY <2>2, <2>4, <2>5 DEF Obeyed
<1>6. CASE u.key = "robott"
  <2>1. Writes(u) = << >> /\ Outcome(lv, << >>, lv)
    BY <1>6, OutcomeEmpty DEF Writes
  <2>2. /\ Recorded(u)["drive"] = last["drive"] /\ Recorded(u)["feeder"] = last["feeder"]
        /\ Recorded(u)["friction"] = last["friction"]
    BY <1>6, RecordedGroups DEF StickCell
  <2> QED
    BY <1>2, <2>1, <2>2 DEF Obeyed, LauncherObeys
<1>7. CASE u.key = "rocker"
  <2>1. Writes(u) = Rocker(x, y) /\ (StickCell(u) <=> x \in 0..10 /\ y \in 0..10)
    BY <1>7 DEF Writes, StickCell
  <2> HIDE DEF x, y
  <2>2. PICK fin \in Levels :
          /\ Outcome(lv, Writes(u), fin) /\ SameLauncher(lv, fin)
          /\ StickCell(u) => Obeys(fin, x, y)
          /\ ~StickCell(u) => fin = lv
    <3>1. PICK fin \in Levels :
            /\ Outcome(lv, Rocker(x, y), fin) /\ SameLauncher(lv, fin)
            /\ x \in 0..10 /\ y \in 0..10 => Obeys(fin, x, y)
            /\ ~(x \in 0..10 /\ y \in 0..10) => fin = lv
      BY <1>1, RockerObeys
    <3> QED
      BY <2>1, <3>1
  <2>3. /\ Recorded(u)["drive"] = IF StickCell(u) THEN u ELSE last["drive"]
        /\ Recorded(u)["feeder"] = last["feeder"]
        /\ Recorded(u)["friction"] = last["friction"]
    BY <1>7, RecordedGroups
  <2>4. DriveObeys(fin, Recorded(u)["drive"])
    <3>1. CASE StickCell(u)
      BY <1>7, <2>2, <2>3, <3>1 DEF DriveObeys, x, y
    <3>2. CASE ~StickCell(u)
      BY <1>2, <2>2, <2>3, <3>2
    <3> QED
      BY <3>1, <3>2
  <2>5. LauncherObeys(fin, Recorded(u))
    BY <1>2, <2>2, <2>3, LauncherObeysSame
  <2> QED
    BY <2>2, <2>4, <2>5 DEF Obeyed
<1>8. CASE u.key = "other"
  <2>1. Writes(u) = Chassis_En
    BY <1>8 DEF Writes
  <2>2. PICK fin \in Levels :
          Outcome(lv, Writes(u), fin) /\ SameLauncher(lv, fin) /\ Turning(fin, 0, 0, 0, 0)
    BY <2>1, ChassisSteers DEF Steers
  <2>3. /\ Recorded(u)["drive"] = u /\ Recorded(u)["feeder"] = last["feeder"]
        /\ Recorded(u)["friction"] = last["friction"]
    BY <1>8, RecordedGroups
  <2>4. DriveObeys(fin, Recorded(u)["drive"])
    BY <1>8, <2>2, <2>3 DEF DriveObeys, StickCell, Turning, Stopped, ChassisMotors
  <2>5. LauncherObeys(fin, Recorded(u))
    BY <1>2, <2>2, <2>3, LauncherObeysSame
  <2> QED
    BY <2>2, <2>4, <2>5 DEF Obeyed
<1> QED
  BY <1>1, <1>4, <1>5, <1>6, <1>7, <1>8 DEF Keys

-----------------------------------------------------------------------------
(* The invariant.                                                           *)

LEMMA LevelsObeyInit == Init => LevelsObey
<1> SUFFICES ASSUME Init PROVE LevelsObey
  OBVIOUS
<1>1. /\ rpc = "absent" /\ last["drive"] = NoUrl
      /\ last["friction"] = NoUrl /\ last["feeder"] = NoUrl
      /\ \A p \in Pins : level[p] = 0
  BY DEF Init, Groups, BootLevel
<1>2. Spin(level, friction) = 0 /\ Spin(level, feeder) = 0
  BY <1>1, MotorPins DEF Spin
<1> QED
  BY <1>1, <1>2 DEF LevelsObey, Obeyed, DriveObeys, LauncherObeys, StickCell, NoUrl

\* A gimbal command, with a value or without, is recorded for no motor.
LEMMA GimbalRecord ==
  ASSUME NEW lv, NEW u, u.key = "gimbal", Obeyed(lv, last)
  PROVE  Obeyed(lv, Recorded(u))
<1>1. /\ Recorded(u)["drive"] = last["drive"] /\ Recorded(u)["feeder"] = last["feeder"]
      /\ Recorded(u)["friction"] = last["friction"]
  BY RecordedGroups DEF StickCell
<1> QED
  BY <1>1 DEF Obeyed, LauncherObeys

\* A command that is about to be carried out is one that was received.
HasCommand == rpc = "parse" => url \in Urls

LEMMA HasCommandInductive == HasCommand /\ [Next]_rvars => HasCommand'
<1> SUFFICES ASSUME HasCommand, [Next]_rvars PROVE HasCommand'
  OBVIOUS
<1>1. CASE \E u \in Urls : Receive(u)
  BY <1>1 DEF Receive, HasCommand
<1>2. CASE Start \/ Step
  BY <1>2 DEF Start, Step, Loop, Blocked, DispatchGimbal, Dispatch, GpioSetLevel, ServoSet,
             EndCommand, HasCommand
<1>3. CASE Tick \/ UNCHANGED rvars
  BY <1>3 DEF Tick, HasCommand
<1> QED
  BY <1>1, <1>2, <1>3 DEF Next

LEMMA LevelsObeyInductive ==
  TypeOK /\ ServoInv /\ HasCommand /\ LevelsObey /\ [Next]_rvars => LevelsObey'
<1> SUFFICES ASSUME TypeOK, ServoInv, HasCommand, LevelsObey, [Next]_rvars
             PROVE  LevelsObey'
  OBVIOUS
<1>0. level \in Levels /\ level' \in Levels /\ todo \in Seq(Write)
  BY StepTypeOK DEF TypeOK, Levels
<1>1. ASSUME rpc # "act", rpc' # "act", UNCHANGED <<level, last>>  PROVE LevelsObey'
  <2>1. Obeyed(level, last)
    BY <1>1 DEF LevelsObey
  <2>2. Obeyed(level, last)'
    BY <1>1, <2>1
  <2> QED
    BY <1>1, <2>2 DEF LevelsObey
<1>2. CASE Start \/ Loop \/ (\E u \in Urls : Receive(u)) \/ DispatchGimbal \/ ServoSet
  BY <1>1, <1>2 DEF Start, Loop, Blocked, Receive, DispatchGimbal, ServoSet
<1>3. CASE Dispatch
  <2>1. /\ rpc = "parse" /\ rpc' = "act" /\ UNCHANGED <<url, level, last>>
        /\ todo' = IF url.key = "gimbal" THEN << >> ELSE Writes(url)
    BY <1>3 DEF Dispatch
  <2>2. Obeyed(level, last)
    BY <2>1 DEF LevelsObey
  <2>3. \E fin \in Levels : Outcome(level, todo', fin) /\ Obeyed(fin, Recorded(url))
    <3>1. CASE url.key = "gimbal"
      BY <1>0, <2>1, <2>2, <3>1, GimbalRecord, OutcomeEmpty
    <3>2. CASE url.key # "gimbal"
      <4>1. url \in Url
        BY <2>1, UrlsAssumption DEF HasCommand
      <4> QED
        BY <1>0, <2>1, <2>2, <3>2, <4>1, CommandObeys
    <3> QED
      BY <3>1, <3>2
  <2>4. Recorded(url)' = Recorded(url)
    BY <2>1 DEF Recorded
  <2> QED
    BY <2>1, <2>3, <2>4 DEF LevelsObey
<1>4. CASE GpioSetLevel
  <2>1. /\ rpc = "act" /\ rpc' = "act" /\ todo # << >> /\ UNCHANGED <<url, last>>
        /\ level' = [level EXCEPT ![Head(todo).pin] = Head(todo).val]
        /\ todo' = Tail(todo)
    BY <1>4 DEF GpioSetLevel
  <2>2. PICK fin \in Levels : Outcome(level, todo, fin) /\ Obeyed(fin, Recorded(url))
    BY <2>1 DEF LevelsObey
  <2>3. Outcome(level', todo', fin)
    BY <1>0, <2>1, <2>2, OutcomeStep
  <2>4. Recorded(url)' = Recorded(url)
    BY <2>1 DEF Recorded
  <2> QED
    BY <2>1, <2>2, <2>3, <2>4 DEF LevelsObey
<1>5. CASE EndCommand
  <2>1. /\ rpc' = "pause" /\ UNCHANGED <<url, level>> /\ last' = Recorded(url)
        /\ (rpc = "act" /\ todo = << >>) \/ rpc = "settle"
    BY <1>5 DEF EndCommand, Record
  <2>2. Obeyed(level, Recorded(url))
    <3>1. CASE rpc = "act"
      <4>1. PICK fin \in Levels : Outcome(level, << >>, fin) /\ Obeyed(fin, Recorded(url))
        BY <2>1, <3>1 DEF LevelsObey
      <4> QED
        BY <1>0, <4>1, OutcomeDone
    <3>2. CASE rpc = "settle"
      <4>1. url.key = "gimbal" /\ Obeyed(level, last)
        BY <3>2 DEF ServoInv, CommandPlace, IsButton, LevelsObey
      <4> QED
        BY <4>1, GimbalRecord
    <3> QED
      BY <2>1, <3>1, <3>2
  <2>3. Obeyed(level, last)'
    BY <2>1, <2>2
  <2> QED
    BY <2>1, <2>3 DEF LevelsObey
<1>6. CASE UNCHANGED <<rpc, url, todo, level, last>>
  <2>1. Recorded(url)' = Recorded(url)
    BY <1>6 DEF Recorded
  <2> QED
    BY <1>6, <2>1 DEF LevelsObey
<1>7. CASE Tick \/ UNCHANGED rvars
  BY <1>6, <1>7 DEF Tick
<1> QED
  BY <1>2, <1>3, <1>4, <1>5, <1>7 DEF Next, Step

ReceiverInv == TypeOK /\ ServoInv /\ HasCommand /\ LevelsObey

LEMMA ReceiverInvInit == Init => ReceiverInv
<1>1. Init => HasCommand
  BY DEF Init, HasCommand
<1> QED
  BY <1>1, InitTypeOK, ServoInvInit, LevelsObeyInit DEF ReceiverInv

LEMMA ReceiverInvInductive == ReceiverInv /\ [Next]_rvars => ReceiverInv'
  BY StepTypeOK, ServoInvInductive, HasCommandInductive, LevelsObeyInductive DEF ReceiverInv

LEMMA LevelsObeyAlways == Spec => []LevelsObey
<1>1. ReceiverInv => LevelsObey
  BY DEF ReceiverInv
<1> QED
  BY <1>1, ReceiverInvInit, ReceiverInvInductive, PTL DEF Spec

\* Whatever commands came before, between two commands of web_recdata the
\* wheels make the one motion the last stick command asked for.
THEOREM StickAlwaysObeyed == Spec => []StickObeyed
<1>1. LevelsObey => StickObeyed
  BY DEF LevelsObey, Obeyed, StickObeyed, AtRest
<1> QED
  BY <1>1, LevelsObeyAlways, PTL

\* No command of web_recdata but the launcher's own starts or stops the friction
\* wheels or the feeder.
THEOREM LauncherAlwaysObeyed == Spec => []LauncherObeyed
<1>1. LevelsObey => LauncherObeyed
  BY DEF LevelsObey, Obeyed, LauncherObeyed, AtRest
<1> QED
  BY <1>1, LevelsObeyAlways, PTL
=============================================================================
