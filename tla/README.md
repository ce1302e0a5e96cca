# A verification development for LeggedControl

LeggedControl deploys a learned locomotion policy on Unitree quadrupeds: Go2 and
Go2W through SDK2 (DDS), Aliengo through SDK1 (UDP). This directory holds TLA+
modules of the parts of the code that decide *who commands the motors, when, and
with which velocity*, TLC configurations that check them on small instances, and
TLAPS proofs of the main safety results for every value of the constants.

Paths below are relative to the repository root. Line numbers and the mapping of
each definition to code are in `PROJECT.json` (`map`).

## 1. Inventory

| Component | State it keeps | Operations | Talks to |
|---|---|---|---|
| Policy node (`src/sdk2_policy_control.cpp`) | `control_thread_`, `policy_running_`, `low_cmd_`, `low_state_`, `gamepad_`, `ros_vel_cmd_`, `last_ros_cmd_time_`, history | `onJoystickMessage` (L1 safe exit, L2 activate/toggle), `activatePolicyMode`, `controlLoop` every 20 ms, `resetJointPosition` on detached threads, `onTwist`, `onLowStateMessage`, destructor | DDS topics `rt/lowcmd`, `rt/lowstate`, `rt/wirelesscontroller`; RPCs of the motion switcher; ROS `/cmd_vel` |
| Policy core (`src/base_robot_control.cpp`) | configuration, `his_obs_`, `last_act_`, `last_cmd_`, ONNX session | `controlLoop` (gate, observe, infer, map, write), `FromFile`, `loadOnnxModel`, `runOnnxInference`, `ensureObsBuffers` | ONNX runtime; the derived controllers |
| Gamepad, joint orders (`include/utils.h`) | smoothed sticks, pressed and edge flags | `Gamepad::Update`, `compute_pol2rob_from_sdk2policy` | both nodes |
| Aliengo controller (`src/sdk1_robot_control*.cpp`) | `cmd_`, `state_`, `key_data_`, three loops | constructor (waits, reset, start), `udpRecv`, `udpSend`, `resetJointPosition`, destructor, observations | robot over UDP |
| Aliengo node (`src/aliengo_node.cpp`) | last `/cmd_vel`, joystick velocity | `onTwist`, `controlLoop` timer, destructor with a second reset | Aliengo controller (and its `key_data_`, unlocked), ROS |
| Sport node (`src/sdk2_sport_control.cpp`) | last `/cmd_vel`, `sent_stop_` | constructor (StandUp), `onTwist` (blocking Move RPC), `onJoystickMessage`, destructor (StopMove); its control loop has no timer | SportClient RPCs |
| Keyboard simulator (`src/joystick_simu_node.cpp`) | none between keys | one DDS or ROS message per key, a click is press, 20 ms, release | the topics above |
| Subscriber queue (vendored `block_queue.hpp`, `dds_entity.hpp`) | a bounded queue, one consumer thread | `Put` evicting the earliest, `Get` | callbacks of the policy node |

Not part of the core: launch files, `config/*.ini`, the export script, standalone
mains, the vendor's examples and the remaining vendored headers.

What is hard here:

- **threads without locks.** The joystick handler, the control loop, detached
  resets, the ROS executor and the DDS threads share fields; the only mutex in use
  guards `low_state_`. `low_cmd_`, the message to the motors with its CRC, has a
  mutex that nothing locks.
- **blocking in a callback.** `activatePolicyMode` polls RPCs, and
  `stopControlLoop` joins a thread, on the joystick queue's only thread, with
  room for one waiting message; the sport node's Move blocks its only executor
  thread while `/cmd_vel` overflows.
- **failures.** RPC return codes are ignored, inference may fail, datagrams and
  messages get lost, a reset may time out, a request may be executed after the
  call that sent it has failed, a configuration may be half right.
- **priorities and time.** Two velocity sources, a stale timeout, smoothing.

For each component, what makes it correct:

- policy node: one control loop at most; nothing of the policy after a safe exit
  or before the motion service was released; a safe exit ends in the default pose;
  handlers terminate; a click is not lost;
- motor commands: a frame holds nothing from before it was begun, and an
  undisturbed one is whole and carries its own CRC;
- velocity: a stale or silent source ends in zero velocity, no torn read lets a
  stale component through; the sport robot executes commands in order, the newest
  one is not lost, and it stands when its node is gone;
- joint orders and configuration: observation and action agree for every
  permutation, and what it takes for the controllers to index only what exists,
  once a configuration is reported as loaded;
- Aliengo: a reset starts from a recent pose of the robot and never jumps back,
  each step of it is bounded and the last one arrives, start-up and shutdown
  terminate, the started loop commands the robot.

All hazards, with their lines and the properties that cover them, are in
`PROJECT.json` (`hazards`); those without a property say why.

## 2. Modules

| Module | What it is |
|---|---|
| `PolicyNode` | the policy node's joystick thread, its queue, the control loop threads, the reset threads and the motion service |
| `PolicyModes` | abstract specification: the modes an operator sees, and when a policy command may be under way |
| `MotorAccess` | abstract specification: which threads may be in `applyPositionControl`, and when |
| `PolicyNodeModes` | the refinement mappings from `PolicyNode` to `PolicyModes` and `MotorAccess` |
| `VelArbiter` | the velocity command: `onTwist`, stick smoothing, the tick's priority decision |
| `LowCmdBuffer` | `applyPositionControl` field by field: the control loop and detached resets in one shared message, its CRC, and the robot that checks it |
| `Crc32` | `crc32_core` and the polynomial division it computes |
| `JointMap` | the joint order inversion |
| `PolicyConfig` | what `FromFile` accepts and what the controllers then index; extends `JointMap` |
| `ResetTraj` | the interpolations of the two `resetJointPosition`, in exact integers |
| `ObsHistory` | the observation of a tick: the locked copy of the robot's state, the flat history buffer, the last action |
| `ObsWindow` | abstract specification of that buffer: a window of the last observations |
| `Sdk1Control` | the Aliengo controller: main, recv, send and control loops |
| `AliengoVelocity` | the Aliengo node's velocity: `onTwist`, the timer, the copy of the joystick data |
| `SportNode` | the sport node from construction to destruction, and the sport service |
| `CmdVel` | both nodes subscribed to one `/cmd_vel` |
| `MCPolicyNode`, `MCVelArbiter`, `MCLowCmd`, `MCPolicyConfig`, `MCCmdVel` | symmetry sets and input sets for TLC; `MCLowCmd` adds the CRC and `MCPolicyConfig` the resets, side by side |
| `*_proofs` | theorems about the module of that name |

Some definitions are alternatives to the code that no next-state relation uses
(`KeepRunning`, `DropNewest`, `ShortRamp`, ...): each is a plausible mistake in the
definition that follows it, and `PROJECT.json` (`mutants`) names the property that
notices it.

### PolicyNode

The unit of interleaving is the access to a shared field. `jpc` is the place of
the joystick thread in `onJoystickMessage` and its callees:

| Code | Actions |
|---|---|
| queue thread takes a message, `Gamepad::Update` | `JTake`, `NewPresses` |
| L1: `setPolicyRunning(false)`, `stopControlLoop`, detached reset | `JExit`, `JStop`/`JStopNothing`, `JJoin`, `JSpawn` |
| L2 with a loop: `togglePolicyRunning` | `JToggle` |
| L2 without: `activatePolicyMode` | `JActivate`, `JRelease`, `JCheck`, `JCreate`, `JAssign`, `JPause` |
| `controlLoop` and the base class's | `TickEnter`, `TickGate`, `TickInfer`, `TickWrite` |
| `resetJointPosition` | `ResetRead`, `ResetStep`, `ResetDone` |

`PadMessage` is a gamepad publication of any combination of L1 and L2; a keyboard
click is two of them. A message may carry both buttons, in which case the handler
runs L1 and then L2 in one call (`Handler`). `loop[i]` is the progress of thread
`i`: a tick tests `control_thread_` (whichever thread that is), then reads
`policy_running_` once, then infers, then writes. `lastCmd` is the last LowCmd on
the topic, by origin and interpolation step; the write itself is one step here,
and `LowCmdBuffer` is that step taken apart. `disarmed` and `late` are history variables.

The destructor of the thread object is compiled code that is not in the
repository. `JJoin` models it as a join, which is what the comment at
`sdk2_policy_control.cpp:172` expects of it. Thread identities are reused.
`misread` is a history variable: some `CheckMode` call has failed.

### PolicyModes

Eight actions over `mode` and `computing`. `Mode` maps the place of the handler,
the null check of `control_thread_` and `policy_running_` to a mode. The
refinement says more than the invariants: a command is only *begun* in the running
mode, an exit only ends when nothing is computing, an activation always ends
paused, and no step of the threads changes the mode in any other way.

### VelArbiter

One stick stands for three (the code tests their absolute values alike) and is an
integer per mille, rounded down at each smoothing step: `TwistWrites` writes one
component per step and `TwistStamps` the time after them, while `TickCheck` reads
the time before `TickReads` reads the components. Ages are capped just above the
timeout.

### LowCmdBuffer, Crc32

A frame is three passes over the joints and two single steps: `FillJoint` writes
the motor commands, `SumJoint` is `crc32_core` reading them, `StoreCrc` stores the
result, `ReadJoint` is `Write` serialising them, `Publish` adds the CRC and the
frame is out. Every step of a thread may be followed by one of any other. The
value of a joint is who wrote it for which frame; the last frame of any reset is
the configured default position, so that it is the same whoever writes it, and
the frames of the control loop are not told apart. A CRC is the joints it was
computed over, which is what `Crc32` justifies for a frame torn within a word. The
robot drops a frame whose CRC does not fit, which is why the code computes one.

`PolicyNode` and `LowCmdBuffer` are the two sides of one interface, `MotorAccess`: in
`PolicyNode` a call of `applyPositionControl` is a step, in `LowCmdBuffer` the handler is
what `Activate` and `SafeExit` say of it. Both are shown to implement it, so that what
`LowCmdBuffer` takes for granted (a policy that was run, no loop inside when a safe exit
starts its reset) is what the threads of `PolicyNode` do. A thread is inside from its
first joint to its last there, and while `loop[i] = "write"` here; a `ResetStep` enters
and leaves at once, which the interface does not see. `LowCmdBuffer` does not use the
identity of a reset twice, `PolicyNode` does once it is complete.

`Crc32` has the width of a word and the polynomial as constants; a word is the set
of its bits. `ReadWord` begins a round of the outer loop, with any word coming next,
and `NextBit` is a round of the inner one. The loop runs twice side by side, over the
words that the CRC is computed from and over those that are sent, of which at most one
is torn. The reference for the first is a quotient with that remainder. The
register depends on the words alone, so `MCLowCmd` runs it by itself, before the first
command, instead of in every state of the threads.

### JointMap, PolicyConfig

`JointMap` is the loop of `compute_pol2rob_from_sdk2policy` over an arbitrary list
of integers, one iteration per step; both overloads are the same loop. An entry out
of range is logged and skipped; `warned` is that log.

`PolicyConfig` reads a file of any lines in any order, so that keys are repeated,
missing or come before `act_size`. A list is its length, and the joint order its
entries too. `Open`, `Line`, `EndOfFile` and `Invert` are `FromFile`; `LoadModel` is
`loadOnnxModel`. `ResetInBounds`, `ObserveInBounds` and `ActInBounds` collect the
indices of the three users, into the lists and into the robot's `motor_state` and
`motor_cmd`, whose length is the parameter `MotorArrays` (20 on both robots:
`LowState_.hpp:37`, `LowCmd_.hpp:34`, `comm.h:85` and `:105`). `[OK]` is worth less than
it seems, and the two properties say exactly how much. `LoadedInBounds`: resets and
actions stay in bounds if and only if the file has no more joints than the robot has
motors, which nothing checks; a file of 21 joints with two lists of 21 is reported as
loaded. `LoadedObserves`: observations also need that the inversion logged no entry,
because they read through the order itself where actions read through its inverse, and
an `obs_size` of at most nine plus three per joint. Duplicates in the order harm
neither. After a failed load the node goes on with whatever was parsed
and nothing is claimed. Negative sizes, numbers that do not parse (an exception
that ends the process), scales and gains are left out.

### ResetTraj

`Read1` and `Read2` read a joint and determine the number of steps, `Step1` and `Step2`
are the rounds of the two loops; a timeout is a ramp that stops. A command times its
number of steps is an integer, so the ramps are exact; the rounding of floats is left
out. `MCPolicyConfig` runs the resets beside one configuration, which they do not
change. `StepBounded` is what the comment on `act_clip`
claims (line 91, the largest angle per step).

### AliengoVelocity, SportNode, CmdVel

One executor thread runs `onTwist` and the timer of the Aliengo node, so each is a
step. The joystick data come from the receive thread: `RecvBegins` and `RecvEnds`
are the copy into `key_data_`, and a timer that runs in between may get each part
from the old or the new datagram. One component and one axis stand for three.

The sport node has one callback, whose Move call occupies `call` from `OnTwist` to
`MoveReturns`; the request itself is in the service's hands, which may execute or
lose it before or after the call has returned or timed out. `Construct` is StandUp
and the subscription, `Interrupt` the end of `rclcpp::spin`, `StopMove` the
destructor. The service executes what it executes in the order it got it, late or not:
this is an assumption on the robot, under which `SportInOrder` and `GoneStops` hold. A
service that ran a late Move after StopMove would move a robot whose node is gone, and
nothing in the node could prevent it. The node's control loop is compiled but never
scheduled (the timer is commented out), so neither the stick nor the stale timeout is
part of the model.

`CmdVel` delivers a message to both queues, of `Depth` (10 in the code) messages
that evict the oldest. `no` numbers messages and is a history.

### ObsHistory

`his_obs_` is the flat buffer of the code, cell by cell: `Shifted` is the `memmove`
and the `memcpy`, `Ensured` is `ensureObsBuffers` when the size does not fit. The
configured history is any number from none. A frame is the joints' readings and the
last actions; a reading is the name of the message it came with, so a frame of two
readings is torn. The subscriber writes and the tick copies joint by joint under
`low_state_mtx_`. The velocity, the IMU, scaling, clipping and the joint order are
left out. What a tick does when the policy is paused (nothing, here) is left out
too. `Window` is the refinement mapping: frame `i` of the window is the cells
`(i - 1) * Frame + 1 .. i * Frame`.

### Sdk1Control

A joint position is the number of the datagram it came with, a motor command the
ramp and step that wrote it; both are read and written joint by joint. The number
of steps of a ramp is any up to a bound, and a ramp may time out at every step.
The control loop's tick is its gate and, behind it, its effect on `cmd_`.
`Interrupt` is the end of `rclcpp::spin`, modelled only while the node spins.

## 3. Runs

| Run | Checks | Bounds |
|---|---|---|
| `policy_safety` | type invariant, `SingleLoop`, `SafeExitQuiet`, `SettlesAtDefault`, `AtMostOneLate`, `PadUpToDate`, `PolicyOnlyAfterRelease`, refinement of `PolicyModes!Spec` and `MotorAccess!Spec` | 2 loops, 2 resets, queue 1, 2 interpolation steps |
| `policy_liveness` | `ExitReachesReset`, refinement of `PolicyModes!FairSpec` | 1 loop, 1 reset, queue 1, 1 interpolation step |
| `vel` | type invariant, `NoStaleComponent`, `SilenceStops`, `ReleasedStickStops` | 2 components (beyond the limit, not a number), timeout 1, stick released or fully deflected |
| `low_cmd` | `MixedOnlyByOverlap`, `UndisturbedIsAccepted`, `SettledAtDefault`; `CrcIsRemainder`, `CrcSeesTornWord` | 2 resets, 1 loop, 2 joints, 2 frames per reset; words of 4 bits, up to 2 of them, bit by bit, x^4 + x + 1 |
| `config` | type invariant, `ObservedOrIdentity`, `LoadedInBounds`, `LoadedObserves`; `StepBounded`, `RampsArrive` | 4 joints, entries -1..4 (every order), lengths 0, 3, 4, 5, frames that fit and one longer, 3 or 4 motors; angles -4..4, clips 1..3, up to 5 steps |
| `obs_history` | type invariant, `FrameIsOneState`, `ActIsApplied`, refinement of `ObsWindow!Spec` | 2 joints, histories of 0 to 3 frames, 2 readings, 2 actions |
| `sdk1` | type invariant, `PoseNotBehindPress`, `SentNeverGoesBack`, `ShutdownCompletes`, `HeldPressStarts` | 2 joints, ramps of 1 to 3 steps, 2 datagram numbers |
| `cmd_vel` | `NewestKept`, `SportInOrder`, `GoneStops`, `SportFollowsLatest`, `AliengoSilenceStops` | 3 messages (a stop, or twice the limit), queues of 2, timeout 1, stick released or fully deflected |

In the policy runs either RPC may return an error and inference may fail, at any
call. `PolicyOnlyAfterRelease` is stated up to the first failed `CheckMode`, since
a failed call is exactly what `policy_sport_mode` shows to defeat it; refused
releases are within what it covers.

Why the bounds are enough: a second loop identity lets a stop that does not join
leave two loops, which the model would show as two live threads; two resets
overlap in every way two can; a queue of one is the code's; with two
interpolation steps there is a first, a middle and a last one. Two components (or
joints) are the fewest that can be torn. A history of three frames has one that is
neither the newest nor the oldest. In `VelArbiter` the constant `MaxStick`
bounds how far a deflected stick accumulates (12 in `vel`: a stick that is deflected
again just above the dead zone); it cuts only larger sticks, whose further fall is
the same arithmetic. In `cmd_vel` three messages overflow a queue of two while a
fourth state, the call under way, holds none of them yet or one. In `low_cmd` three
threads let one overlap two others that do not overlap each other, and a reset has
a first and a last frame. The CRC is checked on every message of up to two words
(a first word, a last one, and a carry from one to the next); width and polynomial
are parameters; the code's 32 bits are out of reach of enumeration and covered by the
proof.
`JSpawn` needs a free reset identity: `policy_safety` covers up to two resets at
once; the proofs cover any number.

`config` stops when the constructor is through, `low_cmd` when all resets are
complete and the loop is not active, `cmd_vel` when the sport node is gone and the
messages are used up, the last bound of the model; these runs do not check for
deadlock. All others do.

### Disagreements between the code and what it says

| Run | Statement | What the run shows |
|---|---|---|
| `policy_lost_exit` | README.md:43, L1 is the safe exit | an L1 click during the activation is evicted by its own release |
| `policy_sport_mode` | log line `sdk2_policy_control.cpp:128` | a failed `CheckMode` counts as "released" |
| `vel_spacebar` | `joystick_simu_node.cpp:64` | one zero message only lowers the smoothed stick by 3 per cent |
| `sdk1_policy_never_runs` | comments `sdk1_robot_control.cpp:45` and `:62` | nothing sets `policy_running_`, the started loop never commands a joint |

## 4. Fairness

`PolicyNode!Fairness`: every thread of the process is scheduled (weak fairness
of J, of each tick and of each reset: they are operating system threads and each
of their steps stays enabled until taken); an accepted release takes effect; a
release that is asked for again and again is accepted sometimes (strong fairness
of `JRelease(TRUE)`). The last one is an assumption on the robot: the code's loop
has no bound and does not end without it. `CheckMode` and inference may fail for
ever.

`VelArbiter`: the tick, a started `onTwist`, time, and, while the stick stays where
it is, the gamepad that goes on publishing it (stated for each position by itself,
so that an operator is never obliged to move the stick). The simulator publishes
once per key instead; this is why a released stick stops with a gamepad and not
with the keyboard. Nothing is assumed of the publisher of `/cmd_vel`.

`Sdk1Control`: main, recv, send and control loops are scheduled. Nothing is
assumed of the operator, of the interrupt, or of how many steps a ramp gets to
before it times out.

`CmdVel`: the executor of each node runs what is ready, a Move call returns (it has
a timeout), and the service gets to each request, to execute or to lose it. Nothing
is assumed of the publisher, the operator, the datagrams, or of an interrupt; both
liveness properties are stated for behaviours that settle (a node that goes on
spinning, a pad that stays where it is).

## 5. Proofs

All theorems are for arbitrary constants, under the assumptions named in the
modules (`ConstantsAssumption`, `VelAssumption`, `JointAssumption`,
`ConfigAssumption`, `TrajAssumption`, `BufferAssumption`, `Sdk1Assumption`,
`ObsAssumption`, `CmdVelAssumption`, `CrcAssumption`: naturals, a non-empty queue, a null
thread that is no thread, loops that are no resets, a positive clip, a polynomial with a
constant term, which `0x04c11db7` has).

**PolicyNode_proofs.** None of the safety properties is inductive alone. The
argument has three layers over the type invariant.

1. `Owner`. The live thread is the one `control_thread_` names, or the one `temp`
   names while J destroys or has just created it (`Owned`, `HoldsThread`); in each
   place of the handler it is known which of the two is null (`NullInHandler`) and
   whether the policy is paused (`PausedInHandler`). It implies `SingleLoop` and,
   as a part, `StoppedIsPaused`: the joined thread is gone before the next is
   created, and every path that makes `control_thread_` null has paused the policy.
2. `Publishing`. `SafeExitQuiet` needs the join (no thread is alive when a reset
   is spawned); `LateAccount` says `late` plus the ticks in flight is at most one
   while paused, which gives `AtMostOneLate`; `FreshCounter` says an idle reset
   starts at step 0, so the last reset to publish publishes the final step, which
   gives `SettlesAtDefault`.
3. `ReleasedFirst` for `PolicyOnlyAfterRelease`: as long as no `CheckMode` failed,
   any place after the check, and any live loop, means the motion service has
   stopped.

`PadUpToDate` is inductive, with two lemmas about the last element of a queue.

`NodeImplementsModes`: initial states map to initial states; a tick changes `computing`
and only begins in the running mode (from `Owner`); each step of J maps to one action or
a stutter. `NodeFollowsAccess` maps the same steps to `MotorAccess`. What it needs is
`SafeExitQuiet`: the policy that computes has been run since the last exit, and none
computes when `JSpawn` starts a reset. `AccessIsArmed` is inductive in the interface.

The last part proves liveness. The prover has no ENABLED, so fairness is stated with the
guards of the actions written out: `ThreadsGoOn` (J moves again and again unless it is
again and again idle or waiting, and so does a loop in a tick), `ServiceAnswers` (an
accepted release happens again and again if it is asked for again and again, and takes
effect), and `[]<>ThreadAvailable` (resets complete, so that `JSpawn` finds a free identity
again and again). `PolicyNode!Fairness` gives all three: TLC found them to
hold of `FairSpec` on the instance of `policy_liveness`. From them:

- `ExitGetsThrough`, the property `ExitReachesReset`: the join waits for one tick, which
  goes from the gate to inference to the write and waits for nobody (`JoinEnds`). It is
  alive and the one that `temp` names (`Owner`, `Alive`).
- `HandlersTerminate`: J is idle again and again. The two places where it could stay
  are the join and the release loop; the latter ends because a service that has begun to
  stop never comes back (`ReleaseEnds`).
- `ModesAreFinished`: no activation, exit or command under way stays for ever, which is
  what the fairness of `PolicyModes` says once its ENABLED is replaced by the guards.

**VelArbiter_proofs.** `Fresh`: components are never behind the stamp; what a
half-handled twist wrote is new; the stamp stays fresh between the check and the
last read. The clock does not advance inside `onTwist` or between the reads of one
command: that is the granularity (microseconds against a timeout of a second)
under which the result holds. `VelocityBounded` is the type invariant, with the
limits: it needs the range of the smoothing step for every stick.

**LowCmdBuffer_proofs.** The threads exclude nobody, so the invariant says whose
commands each joint of a frame may hold: `From(w)` is the writer's own and those of
the threads in `others[w]`. `Overlap` (two threads inside know of each other) makes
a foreign write harmless for `FillInv`, `SumInv` and `OutInv`, one for each pass;
`CrcInv` follows for a frame with no others, since then only its own command is
left in all three. `LoopInv` (the join of a safe exit) and `RestInv` give
`SettledAtDefault`. `BufferFollowsAccess` is the other side of `MotorAccess`: `Begin` enters,
`Publish` leaves, and `LoopInv` keeps an inactive loop out.

**Crc32_proofs.** A round of the inner loop multiplies by x and reads a bit, modulo the
divisor. For `TornWordSeen`, add to the register what is left of the word: then a round is
the multiplication alone, and it is injective, since the constant term of the polynomial
keeps the bit that is shifted out. The two runs differ by the torn word once it is read
(`Torn`) and never meet again while they read the same bits. For `RegisterIsRemainder` the
invariant holds between bits too: the part of the dividend that was read is a multiple of
the divisor away from the register (`Congruent`, `Partial`), and the quotient gains a term
exactly when a bit is shifted out. A product counts pairs modulo two, so this is about the
parity of `Pairs` when an exponent is added. No induction over the message is needed: the
loop's own steps are the induction.

**PolicyConfig_proofs.** `Prefix`: what the first `pi` entries of the inversion have
established; `Warned`: what the log says of them. `ConfigInverts` shows parsing to be the inversion with steps around
it, so these results carry over; `Compared` ties the lengths to the phase after the
size check, and `Inverted` says that a loaded order was inverted to its end, so that a
silent log speaks for every entry; bounds rest on both. `RampInv` says where a ramp is
after each of its steps; `Sdk1Bounded` rests on the quotient being rounded up.

**ObsHistory_proofs.** `Exclusive` (who holds the mutex, what has been copied by
then) gives `FrameIsOneState`; `ActIsApplied` needs that the buffer only misfits
when there is no history (`MisfitOnlyAtZero`). `WindowImplemented` rests on the
arithmetic of the flat buffer (`CellIndex`: a cell lies within it, and one frame
earlier is the same cell of the frame before) and on `ShiftedCells`.

**Sdk1Control_proofs.** `Parsed` (the keys come last, every joint is at least as
recent) and `Pressed` give `PoseNotBehindPress`; `Bounded` (no joint's command is
ahead of main's position, no policy writes) and `Travels` (a command goes from
`cmd_` to the buffer to the wire) give `SentNeverGoesBack`.

**CmdVel_proofs.** `NewestKept` is inductive once a node that has not subscribed has no
messages (`Subscribed`). `Order` is what the order of execution rests on: the requests
in the service are sorted and after the one that ran (`Requests`); what a node that
still exists has sent is at most what it has taken, and its queue holds later messages
only (`Ahead`); the destructor's request is the last one (`Stopped`). Eviction takes the
head of a sorted queue (`SortedDeliver`), a late execution the head of the service's.

Some theorems are about definitions that no run lists. `StoppedIsPaused`,
`ComponentsNotBehindStamp` and `OrdersAgree` (a permutation is inverted) are a step towards
a property of a run, or a consequence of one. `Modes!Quiet` and `Access!PolicyIsArmed` are what the two
abstract specifications promise, `HandlerReturns` and `ModesGoOn` the liveness results
above. The type invariants of `LowCmdBuffer` and `CmdVel`, and `AccessSpec` for the former,
are proved and not also run.

Only model-checked: the liveness properties of the other modules (`SilenceStops`,
`ReleasedStickStops`, `ShutdownCompletes`, `HeldPressStarts`, `SportFollowsLatest`,
`AliengoSilenceStops`), which descend over an age, a stick, a ramp or a queue, and
descent needs induction over data; the refinement of `PolicyModes!FairSpec` with its
ENABLED; that resets complete, a descent too; and the violated statements of section 3.

## 6. Assumptions and what is not modelled

- Gains, velocities and torques of a motor command, and the words of the message
  that are not joints: each thread writes the same constants.
- The destructor of the policy node. It stops the loop and leaves detached resets
  with a node that is being destroyed; what they then read depends on the memory
  the build leaves behind.
- The gamepad's other buttons, and its staleness: the code gives a silent gamepad
  no bound, so its last stick stands.
- The values of observations and the ONNX runtime; loading and inference may fail,
  that is all. The number of the model's outputs is taken to be `act_size`.
- The Aliengo's two `getRobotObs`: they record their frame as `ObsHistory` does, with
  the parts of a frame in another order, and nothing reaches them while
  `policy_running_` is never set.
- UDP datagrams may be lost but arrive in order; `Loop::shutdown` joins.
- The sport service executes requests in the order it got them.
- How long the steps of a reset take, and so which ramps fit in the Aliengo's
  `max_time`: a timeout may end any of them.
- The clock does not go back.
- Data races on single words are modelled as atomic reads and writes.
- The ramps are exact; the float rounding of an interpolation is left out.
- What the robot does with a velocity; the sport service's `robot` is the last
  velocity it was told.
- Standalone programs (a constructor and a sleep), launch files, the export script,
  the vendor's example programs (one thread each, used by no node).
- Third-party headers. They are 98 in 100 lines of the repository (DDS, ONNX
  runtime, the vendor's SDK) and declare what compiled libraries implement; only
  the bounded queue and the queue thread, whose code is in the headers and whose
  eviction decides what the policy node hears, are modelled. The nodes' own code
  is some two thousand lines, and the mapping covers most of what changes state
  there.

## 7. Where the development stands

Done, in order of importance: `PolicyNode` with `PolicyModes`; `VelArbiter`;
`LowCmdBuffer`, with `MotorAccess` between it and `PolicyNode`; `PolicyConfig` over
`JointMap`; `Sdk1Control`; `ObsHistory` with
`ObsWindow`; `CmdVel` with `AliengoVelocity` and `SportNode`; `ResetTraj`; `Crc32`.

Left, if the code grows that way: a shutdown that waits for detached resets, which
would give the policy node's destructor something to keep; a staleness check for
the gamepad; the Aliengo's policy once something sets `policy_running_`, with its
observations as a second instance of `ObsHistory`.
