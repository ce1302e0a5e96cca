------------------------------ MODULE VelArbiter ------------------------------
(***************************************************************************)
(* The velocity command of the go2/go2w policy node: what a control loop   *)
(* tick takes from the gamepad and from /cmd_vel, which two other threads  *)
(* write without a lock.                                                   *)
(*                                                                         *)
(* Velocities and sticks are per mille of their maximum. The gamepad's     *)
(* three sticks are one stick and its magnitude (the code treats the axes  *)
(* alike and takes the absolute value); a twist keeps several components,  *)
(* because they are written and read one at a time. Ages count clock units *)
(* and are capped just beyond the timeout; the clock does not go back, and *)
(* does not advance inside onTwist or between the reads of one command.    *)
(***************************************************************************)
EXTENDS Integers, Sequences

CONSTANTS
  Axes,         \* number of components of a velocity command (3 in the code)
  Timeout,      \* stale_timeout_s in clock units
  TwistInputs,  \* components a /cmd_vel message may carry, per mille of max
  StickInputs,  \* stick magnitudes a gamepad message may carry, per mille
  MaxStick,     \* bound: no deflected message while the stick is above this
  NaN           \* a component that is not a number

ASSUME VelAssumption ==
  /\ Axes \in Nat \ {0} /\ Timeout \in Nat
  /\ StickInputs \subseteq 0..1000 /\ 0 \in StickInputs
  /\ TwistInputs \subseteq Int \cup {NaN}

Full == 1000       \* max_vx_, max_vy_, max_wz_
DeadZone == 10     \* joystick_dead_zone_ and Gamepad::dead_zone
Smooth == 3        \* Gamepad::smooth, per cent
Old == Timeout + 1

Zero == [c \in 1..Axes |-> 0]

VARIABLES
  stick,    \* smoothed stick of gamepad_
  padMsg,   \* history: stick of the last gamepad message
  ros,      \* ros_vel_cmd_
  rosAge,   \* history: age of each component of ros_vel_cmd_
  stampAge, \* age of last_ros_cmd_time_
  twist,    \* the message onTwist is handling
  hpc,      \* onTwist: component it writes next, Axes + 1 the stamp, 0 idle
  cpc,      \* what the tick does next
  got,      \* ROS components the tick has read
  gotAge,   \* history: their ages
  applied   \* last_cmd_, the command the policy observes

handlerVars == <<ros, rosAge, stampAge, twist, hpc>>
tickVars == <<cpc, got, gotAge, applied>>
padVars == <<stick, padMsg>>
vars == <<handlerVars, tickVars, padVars>>

\* the stamp is initialised with the time of construction
Init ==
  /\ stick = 0 /\ padMsg = 0
  /\ ros = Zero /\ rosAge = Zero /\ stampAge = 0
  /\ twist = Zero /\ hpc = 0
  /\ cpc = "idle" /\ got = <<>> /\ gotAge = <<>>
  /\ applied = Zero

-----------------------------------------------------------------------------
\* onJoystickMessage: Gamepad::Update on the stick

JumpTo(x, v) == IF v < DeadZone THEN x ELSE v

\* x * (1 - smooth) + (dead zone of v) * smooth
Smoothed(x, v) ==
  ((100 - Smooth) * x + Smooth * (IF v < DeadZone THEN 0 ELSE v)) \div 100

PadMessage(v) ==
  /\ v < DeadZone \/ stick <= MaxStick
  /\ stick' = Smoothed(stick, v)
  /\ padMsg' = v
  /\ UNCHANGED <<handlerVars, tickVars>>

-----------------------------------------------------------------------------
\* onTwist

UpperOnly(v) == IF v = NaN \/ v > Full THEN Full ELSE v

\* std::max(-max, std::min(v, max)): a NaN fails both comparisons and is -max
Clamp(v) == IF v = NaN \/ v < -Full THEN -Full ELSE IF v > Full THEN Full ELSE v

StampOnArrival(m) ==
  /\ hpc = 0
  /\ twist' = m /\ hpc' = 1 /\ stampAge' = 0
  /\ UNCHANGED <<ros, rosAge, tickVars, padVars>>

TwistArrives(m) ==
  /\ hpc = 0
  /\ twist' = m /\ hpc' = 1
  /\ UNCHANGED <<ros, rosAge, stampAge, tickVars, padVars>>

TwistWrites ==
  /\ hpc \in 1..Axes
  /\ ros' = [ros EXCEPT ![hpc] = Clamp(twist[hpc])]
  /\ rosAge' = [rosAge EXCEPT ![hpc] = 0]
  /\ hpc' = hpc + 1
  /\ UNCHANGED <<stampAge, twist, tickVars, padVars>>

TwistStamps ==
  /\ hpc = Axes + 1
  /\ stampAge' = 0
  /\ twist' = Zero /\ hpc' = 0
  /\ UNCHANGED <<ros, rosAge, tickVars, padVars>>

-----------------------------------------------------------------------------
\* The velocity part of controlLoop

\* is_joystick_active
TickJoystick ==
  /\ cpc = "idle"
  /\ cpc' = IF stick > DeadZone THEN "stick" ELSE "check"
  /\ UNCHANGED <<handlerVars, padVars, got, gotAge, applied>>

\* Priority 1: the sticks are read again, after the check
TickStick ==
  /\ cpc = "stick"
  /\ applied' = [Zero EXCEPT ![1] = stick]
  /\ cpc' = "idle"
  /\ UNCHANGED <<handlerVars, padVars, got, gotAge>>

KeepLast ==
  /\ cpc = "check"
  /\ IF stampAge <= Timeout
     THEN cpc' = "read" /\ got' = <<>> /\ gotAge' = <<>>
     ELSE cpc' = "idle" /\ UNCHANGED <<got, gotAge>>
  /\ UNCHANGED <<handlerVars, padVars, applied>>

\* Priority 2 or 3: the age of the last /cmd_vel decides
TickCheck ==
  /\ cpc = "check"
  /\ IF stampAge <= Timeout
     THEN cpc' = "read" /\ got' = <<>> /\ gotAge' = <<>> /\ UNCHANGED applied
     ELSE cpc' = "idle" /\ applied' = Zero /\ UNCHANGED <<got, gotAge>>
  /\ UNCHANGED <<handlerVars, padVars>>

TickReads ==
  /\ cpc = "read" /\ Len(got) < Axes
  /\ got' = Append(got, ros[Len(got) + 1])
  /\ gotAge' = Append(gotAge, rosAge[Len(got) + 1])
  /\ UNCHANGED <<handlerVars, padVars, cpc, applied>>

\* applyVelCmdControl
TickApplies ==
  /\ cpc = "read" /\ Len(got) = Axes
  /\ applied' = got
  /\ cpc' = "idle" /\ got' = <<>> /\ gotAge' = <<>>
  /\ UNCHANGED <<handlerVars, padVars>>

Tick == TickJoystick \/ TickStick \/ TickCheck \/ TickReads \/ TickApplies

-----------------------------------------------------------------------------
Older(a) == IF a < Old THEN a + 1 ELSE a

TimePasses ==
  /\ hpc = 0 /\ cpc # "read"
  /\ rosAge' = [c \in 1..Axes |-> Older(rosAge[c])]
  /\ stampAge' = Older(stampAge)
  /\ UNCHANGED <<ros, twist, hpc, tickVars, padVars>>

Pad == \E v \in StickInputs : PadMessage(v)

Next ==
  \/ Pad
  \/ \E m \in [1..Axes -> TwistInputs] : TwistArrives(m)
  \/ TwistWrites \/ TwistStamps
  \/ Tick
  \/ TimePasses

Spec == Init /\ [][Next]_vars

\* The loop ticks, a handler that started completes, time passes, and while the
\* stick stays where it is the gamepad goes on publishing it (a real one does).
\* Nothing is assumed about the publisher of /cmd_vel.
Fairness ==
  /\ WF_vars(Tick) /\ WF_vars(TwistWrites \/ TwistStamps)
  /\ WF_vars(TimePasses)
  /\ \A v \in StickInputs : WF_vars(padMsg = v /\ PadMessage(v))

FairSpec == Spec /\ Fairness

-----------------------------------------------------------------------------
\* Properties

\* Every variable has a value of the code, and no velocity, of a stick, of a
\* twist beyond the limits or of a NaN, exceeds its maximum.
TypeOK ==
  /\ stick \in 0..Full /\ padMsg \in StickInputs
  /\ ros \in [1..Axes -> -Full..Full]
  /\ rosAge \in [1..Axes -> 0..Old] /\ stampAge \in 0..Old
  /\ twist \in [1..Axes -> TwistInputs \cup {0}] /\ hpc \in 0..(Axes + 1)
  /\ cpc \in {"idle", "stick", "check", "read"}
  /\ got \in Seq(-Full..Full) /\ Len(got) <= Axes
  /\ gotAge \in Seq(0..Old) /\ Len(gotAge) = Len(got)
  /\ applied \in [1..Axes -> -Full..Full]

\* However onTwist and the tick interleave, no component that the tick takes
\* from /cmd_vel is older than the timeout: the stamp is checked before the
\* components are read and written after they are.
NoStaleComponent == \A c \in 1..Len(gotAge) : gotAge[c] <= Timeout

\* Every component of ros_vel_cmd_ is at least as recent as the stamp that will
\* vouch for it, also while a twist is half written.
ComponentsNotBehindStamp == \A c \in 1..Axes : rosAge[c] <= stampAge

\* When /cmd_vel falls silent and the stick is at rest the commanded velocity
\* becomes and stays zero.
SilenceStops ==
  <>[](stampAge > Timeout /\ stick <= DeadZone) => <>[](applied = Zero)

\* When the gamepad keeps reporting a released stick and /cmd_vel is silent,
\* the smoothed stick falls into the dead zone and the velocity becomes zero.
ReleasedStickStops ==
  <>[](padMsg = 0 /\ stampAge > Timeout) => <>[](applied = Zero)

\* joystick_simu_node.cpp:64 "Press [Spacebar] to STOP all velocity commands.":
\* once the zero messages of a stop were the last of both channels to be
\* handled, no tick that starts then finds a command to apply.
StopStops ==
  [][(TickJoystick /\ padMsg = 0 /\ ros = Zero /\ hpc = 0) => cpc' = "check"]_vars
=============================================================================
