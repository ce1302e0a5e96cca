---------------------------- MODULE AliengoVelocity ----------------------------
(***************************************************************************)
(* The velocity of the Aliengo node. One executor thread runs onTwist and  *)
(* the control timer, so neither interrupts the other; the receive thread  *)
(* writes key_data_ while the timer copies it, without a lock, so each     *)
(* part of a copy may be of the old datagram or of the one being written.  *)
(* A velocity is one component, a stick one axis, both in units of the     *)
(* maximum; neither a dead zone nor smoothing applies to this stick.       *)
(***************************************************************************)
EXTENDS Integers, Sequences

CONSTANTS
  Timeout,  \* stale_timeout_s in clock units
  Sticks    \* stick positions of a datagram

VARIABLES
  inbox,     \* the node's /cmd_vel subscription
  cmd,       \* cmd_vx_, with the number of its message
  age,       \* age of last_cmd_time_, capped beyond the timeout
  key,       \* key_data_
  incoming,  \* the datagram udpRecv is copying into key_data_
  applied    \* last_cmd_ of the controller

padVars == <<key, incoming>>
nodeVars == <<cmd, age, applied>>
aliengoVars == <<inbox, nodeVars, padVars>>

Keys == [l2 : BOOLEAN, stick : Sticks]
Released == [l2 |-> FALSE, stick |-> 0]

AliengoInit ==
  /\ inbox = <<>> /\ cmd = [no |-> 0, v |-> 0] /\ age = 0
  /\ key = Released /\ incoming = Released /\ applied = 0

\* clamp(value, -max, max)
Clamp(v) == IF v < -1 THEN -1 ELSE IF v > 1 THEN 1 ELSE v

OnTwist ==
  /\ inbox # <<>>
  /\ cmd' = [no |-> Head(inbox).no, v |-> Clamp(Head(inbox).v)]
  /\ age' = 0
  /\ inbox' = Tail(inbox)
  /\ UNCHANGED <<applied, padVars>>

RecvBegins(k) ==
  /\ incoming = key
  /\ incoming' = k
  /\ UNCHANGED <<inbox, nodeVars, key>>

RecvEnds ==
  /\ key' = incoming
  /\ UNCHANGED <<inbox, nodeVars, incoming>>

\* joy_vx_ of the copy [l2, stick]: L2 resets the joystick's command
NoReset(l2, stick) == stick
Joy(l2, stick) == IF l2 THEN 0 ELSE stick

\* the age is not looked at
AlwaysFresh == TRUE
Fresh == age <= Timeout

\* a fresh /cmd_vel wins, whatever the stick or L2; otherwise the joystick
ControlLoop(l2, stick) ==
  /\ l2 \in {key.l2, incoming.l2} /\ stick \in {key.stick, incoming.stick}
  /\ applied' = IF Fresh THEN cmd.v ELSE Joy(l2, stick)
  /\ UNCHANGED <<inbox, cmd, age, padVars>>

TimePasses ==
  /\ age <= Timeout
  /\ age' = age + 1
  /\ UNCHANGED <<inbox, cmd, applied, padVars>>

Tick == \E l2 \in BOOLEAN, stick \in Sticks : ControlLoop(l2, stick)

Pad == RecvEnds \/ \E k \in Keys : RecvBegins(k)

AliengoNext == OnTwist \/ Tick \/ TimePasses \/ Pad

AliengoFairness ==
  WF_aliengoVars(OnTwist) /\ WF_aliengoVars(Tick) /\ WF_aliengoVars(TimePasses)
=============================================================================
