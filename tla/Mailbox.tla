------------------------------ MODULE Mailbox -------------------------------
(***************************************************************************)
(* What the URL queue promises to the robot, without queue, tasks and      *)
(* sockets: a mailbox in which the newest command wins.  Commands are      *)
(* written to a log and taken in the order of the log, each at most once.  *)
(* A sender may withdraw everything that has not been taken yet, and then  *)
(* owes a command of its own: nothing is withdrawn except in favour of     *)
(* something newer.                                                        *)
(***************************************************************************)
EXTENDS Integers, Sequences

CONSTANT Cmd

VARIABLES
  log,    \* the commands in the order they were posted
  next,   \* the index of the first one that may still be taken
  owed,   \* the commands promised by senders that withdrew the others
  done    \* the commands taken, in order

mvars == <<log, next, owed, done>>

Init == log = << >> /\ next = 1 /\ owed = {} /\ done = << >>

\* The sender of c withdraws what is pending and owes c.
Withdraw(c) ==
  /\ c \notin owed /\ owed' = owed \cup {c}
  /\ next' = Len(log) + 1
  /\ UNCHANGED <<log, done>>

\* The sender posts the command it owes.
Post(c) ==
  /\ c \in owed /\ owed' = owed \ {c}
  /\ log' = Append(log, c)
  /\ UNCHANGED <<next, done>>

\* The reader takes the oldest pending command.
Take ==
  /\ next <= Len(log) /\ next' = next + 1
  /\ done' = Append(done, log[next])
  /\ UNCHANGED <<log, owed>>

Next == (\E c \in Cmd : Withdraw(c) \/ Post(c)) \/ Take

Spec == Init /\ [][Next]_mvars
=============================================================================
