-------------------------- MODULE VelArbiter_proofs --------------------------
(***************************************************************************)
(* The freshness of the ROS velocity command, for any number of components *)
(* and any timeout.                                                        *)
(***************************************************************************)
EXTENDS VelArbiter, SequenceTheorems, TLAPS

USE VelAssumption DEF VelAssumption, Old

\* The part of TypeOK that the argument needs.
AgesOK ==
  /\ rosAge \in [1..Axes -> 0..Old] /\ stampAge \in 0..Old
  /\ hpc \in 0..(Axes + 1)
  /\ gotAge \in Seq(0..Old)
  /\ Len(got) = Len(gotAge) /\ Len(got) \in 0..Axes

\* What a half-handled twist has written is new, because the clock stands still.
WrittenIsNew == hpc > 0 => \A c \in 1..(hpc - 1) : rosAge[c] = 0

\* The stamp that passed the check stays fresh while the components are read.
ReadIsFresh == cpc = "read" => stampAge <= Timeout

Fresh ==
  /\ ComponentsNotBehindStamp /\ WrittenIsNew
  /\ ReadIsFresh /\ NoStaleComponent
  /\ cpc # "read" => gotAge = <<>>

LEMMA InitFresh == Init => AgesOK /\ Fresh
  BY DEF Init, AgesOK, Fresh, ComponentsNotBehindStamp, WrittenIsNew, ReadIsFresh,
         NoStaleComponent, Zero

LEMMA NextAges == AgesOK /\ [Next]_vars => AgesOK'
  <1>. SUFFICES ASSUME AgesOK, [Next]_vars PROVE AgesOK'
    OBVIOUS
  <1>. USE DEF AgesOK, handlerVars, tickVars, padVars
  <1>1. ASSUME NEW v, PadMessage(v) PROVE AgesOK'
    BY <1>1 DEF PadMessage
  <1>2. ASSUME NEW m, TwistArrives(m) PROVE AgesOK'
    BY <1>2 DEF TwistArrives
  <1>3. CASE TwistWrites
    BY <1>3 DEF TwistWrites
  <1>4. CASE TwistStamps
    BY <1>4 DEF TwistStamps
  <1>5. CASE TickJoystick \/ TickStick
    BY <1>5 DEF TickJoystick, TickStick
  <1>6. CASE TickCheck
    <2>1. <<>> \in Seq(0..Old) /\ Len(<<>>) = 0
      OBVIOUS
    <2>2. CASE stampAge <= Timeout
      BY <1>6, <2>1, <2>2 DEF TickCheck
    <2>3. CASE ~(stampAge <= Timeout)
      BY <1>6, <2>3 DEF TickCheck
    <2>. QED  BY <2>2, <2>3
  <1>7. CASE TickReads
    BY <1>7 DEF TickReads
  <1>8. CASE TickApplies
    BY <1>8 DEF TickApplies
  <1>9. CASE TimePasses
    BY <1>9 DEF TimePasses, Older
  <1>10. CASE UNCHANGED vars
    BY <1>10 DEF vars
  <1>. HIDE DEF AgesOK
  <1>. QED
    BY <1>1, <1>2, <1>3, <1>4, <1>5, <1>6, <1>7, <1>8, <1>9, <1>10
    DEF Next, Pad, Tick

LEMMA NextFresh == AgesOK /\ Fresh /\ [Next]_vars => Fresh'
  <1>. SUFFICES ASSUME AgesOK, Fresh, [Next]_vars PROVE Fresh'
    OBVIOUS
  <1>. USE DEF AgesOK, Fresh, ComponentsNotBehindStamp, WrittenIsNew, ReadIsFresh,
               NoStaleComponent, handlerVars, tickVars, padVars
  <1>1. ASSUME NEW v, PadMessage(v) PROVE Fresh'
    BY <1>1 DEF PadMessage
  <1>2. ASSUME NEW m, TwistArrives(m) PROVE Fresh'
    BY <1>2 DEF TwistArrives
  <1>3. CASE TwistWrites
    BY <1>3 DEF TwistWrites
  <1>4. CASE TwistStamps
    \* every component was written, so is new
    <2>1. \A c \in 1..Axes : rosAge[c] = 0
      BY <1>4 DEF TwistStamps
    <2>. QED  BY <1>4, <2>1 DEF TwistStamps
  <1>5. CASE TickJoystick \/ TickStick
    BY <1>5 DEF TickJoystick, TickStick
  <1>6. CASE TickCheck
    BY <1>6 DEF TickCheck
  <1>7. CASE TickReads
    <2>1. rosAge[Len(got) + 1] <= Timeout
      BY <1>7 DEF TickReads
    <2>2. NoStaleComponent'
      BY <1>7, <2>1 DEF TickReads
    <2>. QED  BY <1>7, <2>2 DEF TickReads
  <1>8. CASE TickApplies
    BY <1>8 DEF TickApplies
  <1>9. CASE TimePasses
    BY <1>9 DEF TimePasses, Older
  <1>10. CASE UNCHANGED vars
    BY <1>10 DEF vars
  <1>. QED
    BY <1>1, <1>2, <1>3, <1>4, <1>5, <1>6, <1>7, <1>8, <1>9, <1>10
    DEF Next, Pad, Tick

LEMMA FreshInvariant == Spec => [](AgesOK /\ Fresh)
  BY InitFresh, NextAges, NextFresh, PTL DEF Spec

\* However the subscriber thread and the tick interleave, a tick never applies a
\* component of a /cmd_vel message that is older than stale_timeout_s.
THEOREM FreshComponents == Spec => []NoStaleComponent
  <1>1. Fresh => NoStaleComponent
    BY DEF Fresh
  <1>. QED  BY <1>1, FreshInvariant, PTL

\* The components of ros_vel_cmd_ are never behind last_ros_cmd_time_.
THEOREM StampVouches == Spec => []ComponentsNotBehindStamp
  <1>1. Fresh => ComponentsNotBehindStamp
    BY DEF Fresh
  <1>. QED  BY <1>1, FreshInvariant, PTL

-----------------------------------------------------------------------------
\* The values. A stick is a mean of two values within its range, rounded down.

Velocities == -Full..Full

\* TypeOK, with a name for the range of a velocity
Typed ==
  /\ stick \in 0..Full /\ padMsg \in StickInputs
  /\ ros \in [1..Axes -> Velocities]
  /\ rosAge \in [1..Axes -> 0..Old] /\ stampAge \in 0..Old
  /\ twist \in [1..Axes -> TwistInputs \cup {0}] /\ hpc \in 0..(Axes + 1)
  /\ cpc \in {"idle", "stick", "check", "read"}
  /\ got \in Seq(Velocities) /\ Len(got) <= Axes
  /\ gotAge \in Seq(0..Old) /\ Len(gotAge) = Len(got)
  /\ applied \in [1..Axes -> Velocities]

LEMMA VelocityRange == 0 \in Velocities /\ \A x \in 0..Full : x \in Velocities
  BY DEF Velocities, Full

LEMMA SmoothedInRange ==
  ASSUME NEW x \in 0..Full, NEW v \in StickInputs
  PROVE  Smoothed(x, v) \in 0..Full
  <1>. DEFINE w == IF v < DeadZone THEN 0 ELSE v
  <1>1. w \in 0..1000
    OBVIOUS
  <1>. HIDE DEF w
  <1>2. (97 * x + 3 * w) \div 100 \in 0..1000
    BY <1>1 DEF Full
  <1>. QED  BY <1>2 DEF Smoothed, Smooth, w, Full

LEMMA ClampInRange ==
  ASSUME NEW v \in TwistInputs \cup {0}
  PROVE  Clamp(v) \in Velocities
  <1>1. CASE v = NaN
    BY <1>1 DEF Clamp, Full, Velocities
  <1>2. CASE v \in Int
    BY <1>2 DEF Clamp, Full, Velocities
  <1>. QED  BY <1>1, <1>2

LEMMA InitTypes == Init => Typed
  <1>. SUFFICES ASSUME Init PROVE Typed
    OBVIOUS
  <1>1. Zero \in [1..Axes -> Velocities] /\ Zero \in [1..Axes -> 0..Old]
        /\ Zero \in [1..Axes -> TwistInputs \cup {0}]
    BY VelocityRange DEF Zero
  <1>2. stick \in 0..Full /\ padMsg \in StickInputs /\ stampAge \in 0..Old
        /\ hpc \in 0..(Axes + 1)
    BY DEF Init, Full
  <1>3. /\ got \in Seq(Velocities) /\ Len(got) <= Axes
        /\ gotAge \in Seq(0..Old) /\ Len(gotAge) = Len(got)
    BY DEF Init
  <1>. QED  BY <1>1, <1>2, <1>3 DEF Init, Typed

LEMMA NextTypes == Typed /\ [Next]_vars => Typed'
  <1>. SUFFICES ASSUME Typed, [Next]_vars PROVE Typed'
    OBVIOUS
  <1>. USE DEF Typed, handlerVars, tickVars, padVars
  <1>1. ASSUME NEW v \in StickInputs, PadMessage(v) PROVE Typed'
    <2>1. stick' = Smoothed(stick, v) /\ padMsg' = v
      BY <1>1 DEF PadMessage
    <2>2. stick' \in 0..Full
      BY <2>1, SmoothedInRange
    <2>. QED  BY <1>1, <2>1, <2>2 DEF PadMessage
  <1>2. ASSUME NEW m \in [1..Axes -> TwistInputs], TwistArrives(m) PROVE Typed'
    BY <1>2 DEF TwistArrives
  <1>3. CASE TwistWrites
    <2>1. Clamp(twist[hpc]) \in Velocities
      BY <1>3, ClampInRange DEF TwistWrites
    <2>. QED  BY <1>3, <2>1 DEF TwistWrites
  <1>4. CASE TwistStamps
    BY <1>4 DEF TwistStamps, Zero
  <1>5. CASE TickJoystick
    BY <1>5 DEF TickJoystick
  <1>6. CASE TickStick
    BY <1>6, VelocityRange DEF TickStick, Zero
  <1>7. CASE TickCheck
    <2>1. Zero \in [1..Axes -> Velocities]
      BY VelocityRange DEF Zero
    <2>2. /\ <<>> \in Seq(Velocities) /\ Len(<<>>) = 0 /\ <<>> \in Seq(0..Old)
      OBVIOUS
    <2>3. CASE stampAge <= Timeout
      BY <1>7, <2>2, <2>3 DEF TickCheck
    <2>4. CASE ~(stampAge <= Timeout)
      BY <1>7, <2>1, <2>4 DEF TickCheck
    <2>. QED  BY <2>3, <2>4
  <1>8. CASE TickReads
    <2>1. Len(got) + 1 \in 1..Axes
      BY <1>8 DEF TickReads
    <2>2. got' \in Seq(Velocities) /\ Len(got') = Len(got) + 1
      BY <1>8, <2>1 DEF TickReads
    <2>3. gotAge' \in Seq(0..Old) /\ Len(gotAge') = Len(gotAge) + 1
      BY <1>8, <2>1 DEF TickReads
    <2>. QED  BY <1>8, <2>1, <2>2, <2>3 DEF TickReads
  <1>9. CASE TickApplies
    <2>1. got \in [1..Axes -> Velocities]
      BY <1>9 DEF TickApplies
    <2>. QED  BY <1>9, <2>1 DEF TickApplies
  <1>10. CASE TimePasses
    BY <1>10 DEF TimePasses, Older
  <1>11. CASE UNCHANGED vars
    BY <1>11 DEF vars
  <1>. HIDE DEF Typed
  <1>. QED
    BY <1>1, <1>2, <1>3, <1>4, <1>5, <1>6, <1>7, <1>8, <1>9, <1>10, <1>11
    DEF Next, Pad, Tick

\* Whatever a message or a stick carries, a NaN or a velocity beyond the limits
\* included, the velocity that the policy observes stays within its maximum.
THEOREM VelocityBounded == Spec => []TypeOK
  <1>1. Typed => TypeOK
    BY DEF Typed, TypeOK, Velocities
  <1>. QED  BY <1>1, InitTypes, NextTypes, PTL DEF Spec
=============================================================================
