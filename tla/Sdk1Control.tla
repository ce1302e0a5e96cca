----------------------------- MODULE Sdk1Control -----------------------------
(***************************************************************************)
(* The Aliengo controller (SDK1RobotControl): start-up, reset ramps and    *)
(* shutdown, against the threads that share cmd_ and state_ without a      *)
(* lock.                                                                   *)
(*                                                                         *)
(* Threads: main runs the constructor, spins and runs the destructors; the *)
(* recv and send loops run every 2 ms from the constructor on, the control *)
(* loop every 20 ms once started. A robot state is the number of the       *)
(* datagram it came with, a motor command the ramp and interpolation step  *)
(* that wrote it. Datagrams may be lost but are not reordered. Velocities  *)
(* and PowerProtect are left out.                                          *)
(***************************************************************************)
EXTENDS Naturals, Sequences

CONSTANTS
  NumJoints,  \* act_size
  MaxSteps,   \* bound on num_steps of a ramp
  MaxNo       \* bound: later datagrams all carry this number

ASSUME Sdk1Assumption ==
  NumJoints \in Nat \ {0} /\ MaxSteps \in Nat \ {0} /\ MaxNo \in Nat

Joints == 1..NumJoints

\* who wrote a motor command, in the order the program lets them
Unset == 0
Startup == 1
Policy == 2
Shutdown == 3

VARIABLES
  air,      \* last datagram of the robot: its number, and the "up" button
  rpc,      \* recv loop: joint it writes next, NumJoints + 1 the keys, 0 idle
  rmsg,     \* recv loop: the datagram it is parsing
  state,    \* state_: per joint, the datagram its position came with
  key,      \* key_data_
  mpc,      \* what main does next
  ramp,     \* which resetJointPosition main is in or was in last
  pose,     \* joint_pos read so far
  num,      \* num_steps
  step,     \* loop counter of the ramp
  wj,       \* joint main writes next
  pressNo,  \* history: number of the datagram whose press started the reset
  cmd,      \* cmd_: per joint, who wrote its command
  spc,      \* send loop: joint it copies next, NumJoints + 1 to send, 0 idle
  buf,      \* the send buffer of udp_
  sent,     \* the last command frame sent
  on,       \* the loops that are running
  policyRunning  \* policy_running_

recvVars == <<rpc, rmsg, state, key>>
mainVars == <<mpc, ramp, pose, num, step, wj, pressNo>>
sendVars == <<spc, buf, sent>>
vars == <<air, recvVars, mainVars, sendVars, cmd, on, policyRunning>>

Cmd(who, k) == [who |-> who, step |-> k]

Init ==
  /\ air = [no |-> 0, up |-> FALSE]
  /\ rpc = 0 /\ rmsg = air
  /\ state = [j \in Joints |-> 0] /\ key = air
  /\ mpc = "waitReset" /\ ramp = Startup /\ pose = <<>>
  /\ num = 1 /\ step = 0 /\ wj = 1 /\ pressNo = 0
  /\ cmd = [j \in Joints |-> Cmd(Unset, 0)]
  /\ spc = 0 /\ buf = cmd /\ sent = cmd
  /\ on = {"send", "recv"}
  /\ policyRunning = FALSE

-----------------------------------------------------------------------------
\* The robot sends its state with the buttons of the remote

RobotState(up) ==
  /\ air' = [no |-> IF air.no < MaxNo THEN air.no + 1 ELSE MaxNo, up |-> up]
  /\ UNCHANGED <<recvVars, mainVars, sendVars, cmd, on, policyRunning>>

-----------------------------------------------------------------------------
\* udpRecv

KeysFirst ==
  /\ "recv" \in on /\ rpc = 0
  /\ rmsg' = air /\ rpc' = 1 /\ key' = air
  /\ UNCHANGED <<air, state, mainVars, sendVars, cmd, on, policyRunning>>

RecvTakes ==
  /\ "recv" \in on /\ rpc = 0
  /\ rmsg' = air /\ rpc' = 1
  /\ UNCHANGED <<air, state, key, mainVars, sendVars, cmd, on, policyRunning>>

RecvJoint ==
  /\ rpc \in Joints
  /\ state' = [state EXCEPT ![rpc] = rmsg.no]
  /\ rpc' = rpc + 1
  /\ UNCHANGED <<air, rmsg, key, mainVars, sendVars, cmd, on, policyRunning>>

StaleKeys ==
  /\ rpc = NumJoints + 1
  /\ rpc' = 0
  /\ UNCHANGED <<air, rmsg, state, key, mainVars, sendVars, cmd, on, policyRunning>>

\* the keys are copied out of state_ after all of it was written
RecvKeys ==
  /\ rpc = NumJoints + 1
  /\ key' = rmsg /\ rpc' = 0
  /\ UNCHANGED <<air, rmsg, state, mainVars, sendVars, cmd, on, policyRunning>>

Recv == RecvTakes \/ RecvJoint \/ RecvKeys

-----------------------------------------------------------------------------
\* main

others == <<air, recvVars, sendVars, policyRunning>>

\* the constructor waits for "up" to be pressed before it resets the joints
SeesReset ==
  /\ mpc = "waitReset" /\ key.up
  /\ pressNo' = key.no /\ mpc' = "read"
  /\ UNCHANGED <<others, ramp, pose, num, step, wj, cmd, on>>

\* resetJointPosition reads state_ joint by joint
ReadJoint ==
  /\ mpc = "read" /\ Len(pose) < NumJoints
  /\ pose' = Append(pose, state[Len(pose) + 1])
  /\ UNCHANGED <<others, mpc, ramp, num, step, wj, pressNo, cmd, on>>

\* num_steps follows from the largest deviation from the default pose
PlanRamp(n) ==
  /\ mpc = "read" /\ Len(pose) = NumJoints
  /\ num' = n /\ step' = 0 /\ mpc' = "ramp"
  /\ UNCHANGED <<others, ramp, pose, wj, pressNo, cmd, on>>

AfterRamp == IF ramp = Startup THEN "waitStart" ELSE "stopSend"

RetryRamp ==
  /\ mpc = "ramp" /\ step < num
  /\ step' = 0
  /\ UNCHANGED <<others, mpc, ramp, pose, num, wj, pressNo, cmd, on>>

\* "RESET FAILED: timeout": the rest of the ramp is left out
RampTimeout ==
  /\ mpc = "ramp" /\ step < num
  /\ mpc' = AfterRamp
  /\ UNCHANGED <<others, ramp, pose, num, step, wj, pressNo, cmd, on>>

OneStepMore ==
  /\ mpc = "ramp" /\ step <= num
  /\ mpc' = "write" /\ wj' = 1
  /\ UNCHANGED <<others, ramp, pose, num, step, pressNo, cmd, on>>

RampStep ==
  /\ mpc = "ramp" /\ step < num
  /\ mpc' = "write" /\ wj' = 1
  /\ UNCHANGED <<others, ramp, pose, num, step, pressNo, cmd, on>>

LoseCount ==
  /\ mpc = "write"
  /\ cmd' = [cmd EXCEPT ![wj] = Cmd(ramp, step + 1)]
  /\ IF wj < NumJoints THEN wj' = wj + 1 /\ UNCHANGED mpc
                       ELSE mpc' = "ramp" /\ UNCHANGED wj
  /\ UNCHANGED <<others, ramp, pose, num, step, pressNo, on>>

\* the command of one joint; after the last one main sleeps and counts
WriteJoint ==
  /\ mpc = "write"
  /\ cmd' = [cmd EXCEPT ![wj] = Cmd(ramp, step + 1)]
  /\ IF wj < NumJoints
     THEN wj' = wj + 1 /\ UNCHANGED <<mpc, step>>
     ELSE mpc' = "ramp" /\ step' = step + 1 /\ UNCHANGED wj
  /\ UNCHANGED <<others, ramp, pose, num, pressNo, on>>

RampEnds ==
  /\ mpc = "ramp" /\ step >= num
  /\ mpc' = AfterRamp
  /\ UNCHANGED <<others, ramp, pose, num, step, wj, pressNo, cmd, on>>

\* it waits for "up" again and starts the control loop; the node then spins
SeesStart ==
  /\ mpc = "waitStart" /\ key.up
  /\ on' = on \cup {"control"} /\ mpc' = "spin"
  /\ UNCHANGED <<others, ramp, pose, num, step, wj, pressNo, cmd>>

\* spin returns; the node's destructor resets the joints a second time
Interrupt ==
  /\ mpc = "spin"
  /\ ramp' = Shutdown /\ pose' = <<>> /\ mpc' = "read"
  /\ UNCHANGED <<others, num, step, wj, pressNo, cmd, on>>

\* ~SDK1RobotControl: shutdown tells a loop to end and waits for its current
\* call; the control loop's call is one step here and need not be waited for
Stop(loop, at, next) ==
  /\ mpc = at
  /\ on' = on \ {loop} /\ mpc' = next
  /\ UNCHANGED <<others, ramp, pose, num, step, wj, pressNo, cmd>>

Join(idle, at, next) ==
  /\ mpc = at /\ idle
  /\ mpc' = next
  /\ UNCHANGED <<others, ramp, pose, num, step, wj, pressNo, cmd, on>>

Destructor ==
  \/ Stop("send", "stopSend", "joinSend")
  \/ Join(spc = 0, "joinSend", "stopRecv")
  \/ Stop("recv", "stopRecv", "joinRecv")
  \/ Join(rpc = 0, "joinRecv", "stopControl")
  \/ Stop("control", "stopControl", "done")

Main ==
  \/ SeesReset \/ ReadJoint \/ (\E n \in 1..MaxSteps : PlanRamp(n))
  \/ RampTimeout \/ RampStep \/ WriteJoint \/ RampEnds
  \/ SeesStart \/ Destructor

-----------------------------------------------------------------------------
\* udpSend: SetSend copies cmd_, Send sends the copy

SendStarts ==
  /\ "send" \in on /\ spc = 0
  /\ spc' = 1
  /\ UNCHANGED <<air, recvVars, mainVars, buf, sent, cmd, on, policyRunning>>

SendCopies ==
  /\ spc \in Joints
  /\ buf' = [buf EXCEPT ![spc] = cmd[spc]]
  /\ spc' = spc + 1
  /\ UNCHANGED <<air, recvVars, mainVars, sent, cmd, on, policyRunning>>

SendFrame ==
  /\ spc = NumJoints + 1
  /\ sent' = buf /\ spc' = 0
  /\ UNCHANGED <<air, recvVars, mainVars, buf, cmd, on, policyRunning>>

Send == SendStarts \/ SendCopies \/ SendFrame

-----------------------------------------------------------------------------
\* A tick of the control loop: without policy_running_ it returns at once,
\* otherwise the policy's positions go to cmd_

ControlTick ==
  /\ "control" \in on
  /\ cmd' = IF policyRunning THEN [j \in Joints |-> Cmd(Policy, 0)] ELSE cmd
  /\ UNCHANGED <<air, recvVars, mainVars, sendVars, on, policyRunning>>

Next ==
  \/ \E up \in BOOLEAN : RobotState(up)
  \/ Recv \/ Main \/ Interrupt \/ Send \/ ControlTick

Spec == Init /\ [][Next]_vars

\* The threads keep being scheduled. Nothing is assumed of the robot, of the
\* operator, or of how long a ramp takes.
FairSpec ==
  Spec /\ WF_vars(Recv) /\ WF_vars(Main) /\ WF_vars(Send) /\ WF_vars(ControlTick)

-----------------------------------------------------------------------------
\* Properties

MainPlaces == {"waitReset", "read", "ramp", "write", "waitStart", "spin",
               "stopSend", "joinSend", "stopRecv", "joinRecv", "stopControl", "done"}
Datagram == [no : 0..MaxNo, up : BOOLEAN]
Commands == [who : {Unset, Startup, Policy, Shutdown}, step : 0..MaxSteps]

\* Every variable stays within its values; no ramp commands a step beyond the
\* last one, which would overshoot the default pose.
TypeOK ==
  /\ air \in Datagram /\ rmsg \in Datagram /\ key \in Datagram
  /\ rpc \in 0..(NumJoints + 1) /\ spc \in 0..(NumJoints + 1)
  /\ state \in [Joints -> 0..MaxNo]
  /\ mpc \in MainPlaces /\ ramp \in {Startup, Shutdown}
  /\ pose \in Seq(0..MaxNo) /\ Len(pose) <= NumJoints
  /\ num \in 1..MaxSteps /\ step \in 0..num /\ wj \in Joints
  /\ pressNo \in 0..MaxNo
  /\ cmd \in [Joints -> Commands] /\ buf \in [Joints -> Commands]
  /\ sent \in [Joints -> Commands]
  /\ on \subseteq {"send", "recv", "control"}
  /\ policyRunning \in BOOLEAN

\* The reset never interpolates from a pose older than the operator's press:
\* whatever the recv loop does meanwhile, every joint position read came with
\* the datagram of the press or a later one. It holds because udpRecv copies
\* the keys after the state; the constructor may have read nothing before.
PoseNotBehindPress == \A j \in 1..Len(pose) : pose[j] >= pressNo

Behind(c, d) == c.who < d.who \/ (c.who = d.who /\ c.step < d.step)

\* However the send loop's copy interleaves with the ramps, the robot is never
\* sent an earlier interpolation step of a joint after a later one, nor a step
\* of the start-up ramp after one of the shutdown ramp.
SentNeverGoesBack == [][\A j \in Joints : ~Behind(sent'[j], sent[j])]_vars

\* Each destructor call returns: main never waits for a loop that waits for it,
\* and an interrupted node finishes its second reset and stops its loops.
ShutdownCompletes == (mpc = "read" /\ ramp = Shutdown) ~> (mpc = "done" /\ on = {})

\* An operator who keeps "up" pressed gets through both waits: the press is not
\* lost, and start-up does not depend on how long the ramp takes.
HeldPressStarts == <>[](air.up) => <>("control" \in on)

\* sdk1_robot_control.cpp:62 says the second press starts the main control
\* loop, the one of line 45 that executes main control: once it is started the
\* policy commands a joint, unless the node is shut down first.
ControlReachesMotors ==
  (mpc = "spin") ~> (mpc # "spin" \/ \E j \in Joints : cmd[j].who = Policy)
=============================================================================
