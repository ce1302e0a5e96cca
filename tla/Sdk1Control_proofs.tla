------------------------- MODULE Sdk1Control_proofs -------------------------
(***************************************************************************)
(* The Aliengo controller, for every number of joints, ramp length and     *)
(* number of datagrams.                                                    *)
(***************************************************************************)
EXTENDS Sdk1Control, TLAPS

USE Sdk1Assumption DEF Sdk1Assumption, Joints, Unset, Startup, Policy, Shutdown

-----------------------------------------------------------------------------
\* Types. That a step is only written while one is left is part of them.

Typed == TypeOK /\ (mpc = "write" => step < num)

LEMMA InitType == Init => Typed
  <1>. SUFFICES ASSUME Init PROVE Typed
    OBVIOUS
  <1>1. Cmd(Unset, 0) \in Commands /\ [no |-> 0, up |-> FALSE] \in Datagram
    BY DEF Cmd, Commands, Datagram
  <1>2. /\ cmd \in [Joints -> Commands] /\ buf = cmd /\ sent = cmd
        /\ air \in Datagram /\ rmsg = air /\ key = air
    BY <1>1 DEF Init
  <1>3. pose = <<>> /\ pose \in Seq(0..MaxNo) /\ Len(pose) = 0
    BY DEF Init
  <1>4. num \in 1..MaxSteps /\ step \in 0..num /\ wj \in Joints
        /\ mpc = "waitReset" /\ ramp = Startup /\ on \subseteq {"send", "recv", "control"}
    BY DEF Init
  <1>5. rpc \in 0..(NumJoints + 1) /\ spc \in 0..(NumJoints + 1)
        /\ pressNo \in 0..MaxNo
    BY DEF Init
  <1>6. state = [j \in Joints |-> 0] /\ policyRunning = FALSE
    BY DEF Init
  <1>7. state \in [Joints -> 0..MaxNo]
    BY <1>6
  <1>8. policyRunning \in BOOLEAN
    BY <1>6
  <1>. QED  BY <1>2, <1>3, <1>4, <1>5, <1>7, <1>8 DEF Typed, TypeOK, MainPlaces

LEMMA RecvType ==
  ASSUME Typed, Recv \/ \E up \in BOOLEAN : RobotState(up)
  PROVE  Typed'
  <1>. USE DEF Typed, TypeOK, Datagram, mainVars, sendVars, recvVars
  <1>1. CASE \E up \in BOOLEAN : RobotState(up)
    BY <1>1 DEF RobotState
  <1>2. CASE RecvTakes
    BY <1>2 DEF RecvTakes
  <1>3. CASE RecvJoint
    BY <1>3 DEF RecvJoint
  <1>4. CASE RecvKeys
    BY <1>4 DEF RecvKeys
  <1>. QED  BY <1>1, <1>2, <1>3, <1>4 DEF Recv

LEMMA SendType ==
  ASSUME Typed, Send
  PROVE  Typed'
  <1>. USE DEF Typed, TypeOK, mainVars, recvVars
  <1>1. CASE SendStarts
    BY <1>1 DEF SendStarts
  <1>2. CASE SendCopies
    BY <1>2 DEF SendCopies
  <1>3. CASE SendFrame
    BY <1>3 DEF SendFrame
  <1>. QED  BY <1>1, <1>2, <1>3 DEF Send

LEMMA MainType ==
  ASSUME Typed, Main \/ Interrupt \/ ControlTick
  PROVE  Typed'
  <1>. USE DEF Typed, TypeOK, MainPlaces, AfterRamp, others, recvVars, sendVars
  <1>1. CASE SeesReset
    BY <1>1 DEF SeesReset, Datagram
  <1>2. CASE ReadJoint
    <2>1. Len(pose) + 1 \in Joints
      BY <1>2 DEF ReadJoint
    <2>2. state[Len(pose) + 1] \in 0..MaxNo
      BY <2>1
    <2>3. pose' \in Seq(0..MaxNo) /\ Len(pose') = Len(pose) + 1
      BY <1>2, <2>2 DEF ReadJoint
    <2>. QED  BY <1>2, <2>1, <2>3 DEF ReadJoint
  <1>3. CASE \E n \in 1..MaxSteps : PlanRamp(n)
    BY <1>3 DEF PlanRamp
  <1>4. CASE RampTimeout \/ RampEnds
    BY <1>4 DEF RampTimeout, RampEnds
  <1>8. CASE RampStep
    BY <1>8 DEF RampStep
  <1>9. CASE SeesStart
    BY <1>9 DEF SeesStart
  <1>10. CASE Destructor
    BY <1>10 DEF Destructor, Stop, Join
  <1>5. CASE WriteJoint
    <2>1. step + 1 \in 0..num /\ step + 1 \in 0..MaxSteps
      BY <1>5 DEF WriteJoint
    <2>2. Cmd(ramp, step + 1) \in Commands
      BY <2>1 DEF Cmd, Commands
    <2>3. cmd' \in [Joints -> Commands]
      BY <1>5, <2>2 DEF WriteJoint
    <2>4. CASE wj < NumJoints
      BY <1>5, <2>3, <2>4 DEF WriteJoint
    <2>5. CASE ~(wj < NumJoints)
      BY <1>5, <2>1, <2>3, <2>5 DEF WriteJoint
    <2>. QED  BY <2>4, <2>5
  <1>6. CASE Interrupt
    BY <1>6 DEF Interrupt
  <1>7. CASE ControlTick
    <2>1. Cmd(Policy, 0) \in Commands
      BY DEF Cmd, Commands
    <2>2. cmd' \in [Joints -> Commands]
      BY <1>7, <2>1 DEF ControlTick
    <2>. QED  BY <1>7, <2>2 DEF ControlTick, mainVars
  <1>. QED
    BY <1>1, <1>2, <1>3, <1>4, <1>5, <1>6, <1>7, <1>8, <1>9, <1>10 DEF Main

LEMMA NextType == Typed /\ [Next]_vars => Typed'
  <1>. SUFFICES ASSUME Typed, [Next]_vars PROVE Typed'
    OBVIOUS
  <1>1. CASE Recv \/ \E up \in BOOLEAN : RobotState(up)
    BY <1>1, RecvType
  <1>2. CASE Send
    BY <1>2, SendType
  <1>3. CASE Main \/ Interrupt \/ ControlTick
    BY <1>3, MainType
  <1>4. CASE UNCHANGED vars
    BY <1>4 DEF vars, Typed, TypeOK, recvVars, mainVars, sendVars
  <1>. QED  BY <1>1, <1>2, <1>3, <1>4 DEF Next

\* The controller's variables keep their types; no ramp passes its last step.
THEOREM TypeCorrect == Spec => []TypeOK
  <1>1. Typed => TypeOK
    BY DEF Typed
  <1>. QED  BY <1>1, InitType, NextType, PTL DEF Spec

-----------------------------------------------------------------------------
\* The pose of a reset is not older than the press that started it.

\* What the recv loop has parsed of a datagram, and that the keys come last.
Parsed ==
  /\ key.no <= rmsg.no /\ rmsg.no <= air.no
  /\ \A j \in Joints :
       /\ key.no <= state[j] /\ state[j] <= rmsg.no
       /\ j < rpc \/ rpc = 0 => state[j] = rmsg.no

Pressed ==
  /\ mpc = "waitReset" => pose = <<>>
  /\ pressNo <= key.no
  /\ PoseNotBehindPress

LEMMA RecvParsed ==
  ASSUME Typed, Parsed, Recv \/ \E up \in BOOLEAN : RobotState(up)
  PROVE  Parsed' /\ key.no <= key'.no
  <1>. USE DEF Typed, TypeOK, Datagram, Parsed
  <1>1. CASE \E up \in BOOLEAN : RobotState(up)
    BY <1>1 DEF RobotState, recvVars
  <1>2. CASE RecvTakes
    BY <1>2 DEF RecvTakes
  <1>3. CASE RecvJoint
    BY <1>3 DEF RecvJoint
  <1>4. CASE RecvKeys
    BY <1>4 DEF RecvKeys
  <1>. QED  BY <1>1, <1>2, <1>3, <1>4 DEF Recv

LEMMA FreshNext == Typed /\ Parsed /\ Pressed /\ [Next]_vars => (Parsed /\ Pressed)'
  <1>. SUFFICES ASSUME Typed, Parsed, Pressed, [Next]_vars
                PROVE  (Parsed /\ Pressed)'
    OBVIOUS
  <1>. USE DEF Pressed, PoseNotBehindPress
  <1>1. CASE Recv \/ \E up \in BOOLEAN : RobotState(up)
    <2>1. UNCHANGED <<mpc, pose, pressNo>>
      BY <1>1 DEF Recv, RecvTakes, RecvJoint, RecvKeys, RobotState, mainVars
    <2>2. pressNo \in Nat /\ key.no \in Nat /\ key'.no \in Nat
      BY <1>1, RecvType DEF Typed, TypeOK, Datagram
    <2>. QED  BY <1>1, <2>1, <2>2, RecvParsed
  <1>2. CASE Send \/ ControlTick \/ UNCHANGED vars
    BY <1>2 DEF Send, SendStarts, SendCopies, SendFrame, ControlTick, vars,
                recvVars, mainVars, Parsed
  <1>3. CASE Main \/ Interrupt
    <2>1. UNCHANGED <<air, recvVars>>
      BY <1>3 DEF Main, Interrupt, others, SeesReset, ReadJoint, PlanRamp,
                  RampTimeout, RampStep, WriteJoint, RampEnds, SeesStart,
                  Destructor, Stop, Join
    <2>2. Parsed'
      BY <2>1 DEF recvVars, Parsed
    <2>3. CASE SeesReset
      BY <2>1, <2>2, <2>3 DEF SeesReset, recvVars, Typed, TypeOK, Datagram
    <2>4. CASE ReadJoint
      <3>1. Len(pose) + 1 \in Joints
        BY <2>4 DEF ReadJoint, Typed, TypeOK
      <3>2. pressNo <= state[Len(pose) + 1]
        BY <3>1 DEF Parsed, Typed, TypeOK, Datagram
      <3>3. pose \in Seq(0..MaxNo) /\ state[Len(pose) + 1] \in 0..MaxNo
        BY <3>1 DEF Typed, TypeOK
      <3>. QED  BY <2>1, <2>2, <2>4, <3>2, <3>3 DEF ReadJoint, recvVars
    <2>5. CASE Interrupt
      BY <2>1, <2>2, <2>5 DEF Interrupt, recvVars
    <2>6. CASE \E n \in 1..MaxSteps : PlanRamp(n)
      BY <2>1, <2>2, <2>6 DEF PlanRamp, recvVars
    <2>7. CASE RampTimeout \/ RampStep \/ RampEnds \/ SeesStart
      BY <2>1, <2>2, <2>7 DEF RampTimeout, RampStep, RampEnds, SeesStart,
                              AfterRamp, recvVars
    <2>8. CASE WriteJoint \/ Destructor
      BY <2>1, <2>2, <2>8 DEF WriteJoint, Destructor, Stop, Join, recvVars
    <2>. QED  BY <1>3, <2>3, <2>4, <2>5, <2>6, <2>7, <2>8 DEF Main
  <1>. QED  BY <1>1, <1>2, <1>3 DEF Next

LEMMA FreshInit == Init => Parsed /\ Pressed
  BY DEF Init, Parsed, Pressed, PoseNotBehindPress

\* With any number of joints and however the recv loop overtakes main, a reset
\* starts from positions at least as recent as the operator's press.
THEOREM PoseIsFresh == Spec => []PoseNotBehindPress
  <1>1. Pressed => PoseNotBehindPress
    BY DEF Pressed
  <1>. QED  BY <1>1, InitType, NextType, FreshInit, FreshNext, PTL DEF Spec

-----------------------------------------------------------------------------
\* The frames sent never go back.

NotBehind(c, d) == c.who > d.who \/ (c.who = d.who /\ c.step >= d.step)

\* While a ramp has not begun nothing carries its name; once it has, no joint's
\* command is ahead of main's position in it. No policy ever writes.
Bounded ==
  /\ policyRunning = FALSE
  /\ mpc \in {"waitReset", "waitStart", "spin"} => ramp = Startup
  /\ \A j \in Joints :
       IF mpc \in {"waitReset", "read"} THEN cmd[j].who < ramp
       ELSE \/ cmd[j].who < ramp
            \/ /\ cmd[j].who = ramp
               /\ cmd[j].step <= step
                    + (IF mpc = "write" /\ j < wj THEN 1 ELSE 0)

\* A command travels from cmd_ to the send buffer and from there to the wire.
Travels ==
  \A j \in Joints : NotBehind(cmd[j], buf[j]) /\ NotBehind(buf[j], sent[j])

LEMMA BehindTotal ==
  ASSUME NEW c \in Commands, NEW d \in Commands
  PROVE  ~Behind(c, d) <=> NotBehind(c, d)
  BY DEF Commands, Behind, NotBehind

LEMMA NotBehindRefl ==
  ASSUME NEW c \in Commands
  PROVE  NotBehind(c, c)
  BY DEF Commands, NotBehind

LEMMA NotBehindTrans ==
  ASSUME NEW c \in Commands, NEW d \in Commands, NEW e \in Commands,
         NotBehind(c, d), NotBehind(d, e)
  PROVE  NotBehind(c, e)
  BY DEF Commands, NotBehind

LEMMA CommandFields ==
  ASSUME NEW c \in Commands
  PROVE  c.who \in Nat /\ c.step \in Nat
  BY DEF Commands

\* Main only overwrites a joint's command with a later one.
LEMMA WriteAdvances ==
  ASSUME Typed, Bounded, WriteJoint
  PROVE  Bounded' /\ \A j \in Joints : NotBehind(cmd'[j], cmd[j])
  <1>0. /\ \A j \in Joints : cmd[j] \in Commands
        /\ \A j \in Joints : cmd[j].who \in Nat /\ cmd[j].step \in Nat
        /\ cmd \in [Joints -> Commands] /\ step \in Nat /\ wj \in Joints /\ ramp \in Nat
    <2>1. cmd \in [Joints -> Commands] /\ step \in Nat /\ wj \in Joints /\ ramp \in Nat
      BY DEF Typed, TypeOK
    <2>. QED  BY <2>1, CommandFields
  <1>1. /\ mpc = "write" /\ ramp' = ramp /\ policyRunning' = policyRunning
        /\ cmd' = [cmd EXCEPT ![wj] = Cmd(ramp, step + 1)]
    BY DEF WriteJoint, others
  <1>2. cmd'[wj].who = ramp /\ cmd'[wj].step = step + 1
    BY <1>0, <1>1 DEF Cmd
  <1>3. \A j \in Joints \ {wj} : cmd'[j] = cmd[j]
    BY <1>0, <1>1
  <1>4. \A j \in Joints :
          \/ cmd[j].who < ramp
          \/ cmd[j].who = ramp /\ cmd[j].step <= step + (IF j < wj THEN 1 ELSE 0)
    BY <1>1 DEF Bounded
  <1>5. NotBehind(cmd'[wj], cmd[wj])
    BY <1>0, <1>2, <1>4 DEF NotBehind
  <1>6. \A j \in Joints : NotBehind(cmd'[j], cmd[j])
    BY <1>0, <1>3, <1>5, NotBehindRefl
  <1>7. CASE wj < NumJoints
    <2>1. wj' = wj + 1 /\ mpc' = mpc /\ step' = step
      BY <1>7 DEF WriteJoint
    <2>2. ASSUME NEW j \in Joints
          PROVE  \/ cmd'[j].who < ramp
                 \/ cmd'[j].who = ramp /\ cmd'[j].step <= step + (IF j < wj' THEN 1 ELSE 0)
      <3>1. CASE j = wj
        BY <1>0, <1>2, <2>1, <3>1
      <3>2. CASE j # wj
        <4>1. (j < wj') <=> (j < wj)
          BY <1>0, <2>1, <3>2
        <4>. QED  BY <1>3, <1>4, <3>2, <4>1
      <3>. QED  BY <3>1, <3>2
    <2>. QED  BY <1>1, <1>6, <2>1, <2>2 DEF Bounded
  <1>8. CASE ~(wj < NumJoints)
    <2>1. mpc' = "ramp" /\ step' = step + 1
      BY <1>8 DEF WriteJoint
    <2>2. ASSUME NEW j \in Joints
          PROVE  cmd'[j].who < ramp \/ (cmd'[j].who = ramp /\ cmd'[j].step <= step + 1)
      <3>1. CASE j = wj
        BY <1>0, <1>2, <3>1
      <3>2. CASE j # wj
        BY <1>0, <1>3, <1>4, <3>2
      <3>. QED  BY <3>1, <3>2
    <2>. QED  BY <1>1, <1>6, <2>1, <2>2 DEF Bounded
  <1>. QED  BY <1>7, <1>8

LEMMA BoundedNext ==
  ASSUME Typed, Bounded, [Next]_vars
  PROVE  Bounded' /\ \A j \in Joints : NotBehind(cmd'[j], cmd[j])
  <1>1. CASE WriteJoint
    BY <1>1, WriteAdvances
  <1>2. ASSUME cmd' = cmd PROVE \A j \in Joints : NotBehind(cmd'[j], cmd[j])
    BY <1>2, NotBehindRefl DEF Typed, TypeOK
  <1>3. CASE Recv \/ Send \/ ControlTick \/ UNCHANGED vars
               \/ \E up \in BOOLEAN : RobotState(up)
    <2>1. UNCHANGED <<mainVars, cmd, policyRunning>>
      BY <1>3 DEF Recv, RecvTakes, RecvJoint, RecvKeys, Send, SendStarts,
                  SendCopies, SendFrame, ControlTick, RobotState, vars, Bounded
    <2>. QED  BY <1>2, <2>1 DEF Bounded, mainVars
  <1>4. CASE SeesReset \/ ReadJoint
    BY <1>2, <1>4 DEF SeesReset, ReadJoint, others, Bounded
  <1>10. CASE Interrupt
    <2>1. mpc = "spin" /\ ramp = Startup
      BY <1>10 DEF Interrupt, Bounded
    <2>2. \A j \in Joints : cmd[j].who \in Nat
      BY CommandFields DEF Typed, TypeOK
    <2>3. \A j \in Joints : cmd[j].who < ramp \/ cmd[j].who = ramp
      BY <2>1 DEF Bounded
    <2>4. \A j \in Joints : cmd[j].who < Shutdown
      BY <2>1, <2>2, <2>3
    <2>. QED  BY <1>2, <1>10, <2>1, <2>4 DEF Interrupt, others, Bounded
  <1>5. CASE \E n \in 1..MaxSteps : PlanRamp(n)
    BY <1>2, <1>5 DEF PlanRamp, others, Bounded, Typed, TypeOK, Commands
  <1>6. CASE RampTimeout \/ RampEnds
    BY <1>2, <1>6 DEF RampTimeout, RampEnds, AfterRamp, others, Bounded, Typed, TypeOK
  <1>7. CASE RampStep
    BY <1>2, <1>7 DEF RampStep, others, Bounded, Typed, TypeOK, Commands
  <1>8. CASE SeesStart
    BY <1>2, <1>8 DEF SeesStart, others, Bounded
  <1>9. CASE Destructor
    BY <1>2, <1>9 DEF Destructor, Stop, Join, others, Bounded
  <1>. QED
    BY <1>1, <1>3, <1>4, <1>5, <1>6, <1>7, <1>8, <1>9, <1>10 DEF Next, Main

LEMMA TravelsNext ==
  ASSUME Typed, Typed', Travels, [Next]_vars,
         \A j \in Joints : NotBehind(cmd'[j], cmd[j])
  PROVE  Travels' /\ \A j \in Joints : NotBehind(sent'[j], sent[j])
  <1>. SUFFICES ASSUME NEW j \in Joints
                PROVE  /\ NotBehind(cmd'[j], buf'[j]) /\ NotBehind(buf'[j], sent'[j])
                       /\ NotBehind(sent'[j], sent[j])
    BY DEF Travels
  <1>1. /\ {cmd[j], buf[j], sent[j], cmd'[j], buf'[j], sent'[j]} \subseteq Commands
        /\ NotBehind(cmd[j], buf[j]) /\ NotBehind(buf[j], sent[j])
        /\ NotBehind(cmd'[j], cmd[j])
    <2>1. cmd \in [Joints -> Commands] /\ buf \in [Joints -> Commands]
          /\ sent \in [Joints -> Commands]
      BY DEF Typed, TypeOK
    <2>2. cmd' \in [Joints -> Commands] /\ buf' \in [Joints -> Commands]
          /\ sent' \in [Joints -> Commands]
      BY DEF Typed, TypeOK
    <2>3. NotBehind(cmd[j], buf[j]) /\ NotBehind(buf[j], sent[j])
      BY DEF Travels
    <2>. QED  BY <2>1, <2>2, <2>3
  <1>2. CASE SendCopies
    <2>1. cmd' = cmd /\ sent' = sent /\ buf' = [buf EXCEPT ![spc] = cmd[spc]]
      BY <1>2 DEF SendCopies
    <2>2. buf'[j] = buf[j] \/ buf'[j] = cmd[j]
      BY <2>1 DEF Typed, TypeOK
    <2>. QED  BY <1>1, <2>1, <2>2, NotBehindRefl, NotBehindTrans
  <1>3. CASE SendFrame
    <2>1. cmd' = cmd /\ sent' = buf /\ buf' = buf
      BY <1>3 DEF SendFrame
    <2>. QED  BY <1>1, <2>1, NotBehindRefl
  <1>4. CASE ~SendCopies /\ ~SendFrame
    <2>1. buf' = buf /\ sent' = sent
      BY <1>4 DEF Next, RobotState, Recv, RecvTakes, RecvJoint, RecvKeys, Main,
         SeesReset, ReadJoint, PlanRamp, RampTimeout, RampStep, WriteJoint,
         RampEnds, SeesStart, Destructor, Stop, Join, Interrupt, Send,
         SendStarts, ControlTick, others, sendVars, vars
    <2>. QED  BY <1>1, <2>1, NotBehindRefl, NotBehindTrans
  <1>. QED  BY <1>2, <1>3, <1>4

LEMMA OrderInit == Init => Bounded /\ Travels
  BY DEF Init, Bounded, Travels, NotBehind, Cmd

LEMMA OrderNext ==
  Typed /\ Bounded /\ Travels /\ [Next]_vars
    => /\ (Bounded /\ Travels)'
       /\ [\A j \in Joints : ~Behind(sent'[j], sent[j])]_vars
  <1>. SUFFICES ASSUME Typed, Bounded, Travels, [Next]_vars
                PROVE  /\ (Bounded /\ Travels)'
                       /\ \A j \in Joints : ~Behind(sent'[j], sent[j])
    OBVIOUS
  <1>1. Typed'
    BY NextType
  <1>2. Bounded' /\ \A j \in Joints : NotBehind(cmd'[j], cmd[j])
    BY BoundedNext
  <1>3. Travels' /\ \A j \in Joints : NotBehind(sent'[j], sent[j])
    BY <1>1, <1>2, TravelsNext
  <1>4. \A j \in Joints : sent[j] \in Commands /\ sent'[j] \in Commands
    BY <1>1 DEF Typed, TypeOK
  <1>. QED  BY <1>2, <1>3, <1>4, BehindTotal

\* For every number of joints and steps, the robot never receives an earlier
\* interpolation step of a joint after a later one.
THEOREM FramesInOrder == Spec => SentNeverGoesBack
  BY InitType, NextType, OrderInit, OrderNext, PTL DEF Spec, SentNeverGoesBack

=============================================================================
