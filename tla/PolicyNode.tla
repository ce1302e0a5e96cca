------------------------------ MODULE PolicyNode ------------------------------
(***************************************************************************)
(* The go2/go2w policy node (SDK2PolicyControl): who may command the       *)
(* motors, and when.                                                       *)
(*                                                                         *)
(* Threads of the process, and what each may run concurrently:             *)
(*   J      the queue thread of the joystick subscriber, which runs        *)
(*          onJoystickMessage and everything it calls, one message at a    *)
(*          time, from a bounded queue whose earliest message is evicted;  *)
(*   loops  the recurrent 20 ms threads that startControlLoop creates and  *)
(*          stopControlLoop destroys; each tick is controlLoop;            *)
(*   resets the detached threads that run resetJointPosition.              *)
(* Outside it: the operator's gamepad and the robot's motion service.      *)
(*                                                                         *)
(* Velocities, observations and joint values are abstracted: a LowCmd is   *)
(* what produced it, and for a reset the interpolation step.               *)
(***************************************************************************)
EXTENDS Naturals, Sequences

CONSTANTS
  LoopIds,      \* identities of control loop threads, reused once dead
  ResetIds,     \* identities of reset threads: at most this many at once
  NoThread,     \* the null control_thread_
  QueueLen,     \* queue length given to InitChannel (1 in the code)
  Steps         \* interpolation steps of a reset (200 in the code)

ASSUME ConstantsAssumption ==
  /\ NoThread \notin LoopIds /\ LoopIds \cap ResetIds = {}
  /\ QueueLen \in Nat \ {0}
  /\ Steps \in Nat

Buttons == {"L1", "L2"}

VARIABLES
  held,           \* buttons of the last message the gamepad published
  mailbox,        \* mDataQueuePtr of the joystick subscriber
  pad,            \* gamepad_: buttons recorded as pressed
  onPress,        \* gamepad_: buttons whose on_press flag is set
  jpc,            \* what the J thread executes next
  temp,           \* thread object J is destroying or has just created
  controlThread,  \* control_thread_
  policyRunning,  \* policy_running_
  loop,           \* progress of each control loop thread
  reset,          \* progress of each detached reset thread
  step,           \* loop counter of each reset thread
  service,        \* motion service of the robot
  misread,        \* history: a CheckMode call has failed
  lastCmd,        \* last LowCmd written to the topic
  disarmed,       \* history: no run toggle since start or the last safe exit
  late            \* history: policy commands published since the last pause

padVars  == <<held, mailbox>>
joyVars  == <<pad, onPress, jpc>>
loopVars == <<temp, controlThread, loop>>
modeVars == <<policyRunning, disarmed>>
cmdVars  == <<reset, step, lastCmd, late>>
robotVars == <<service, misread>>
vars == <<padVars, joyVars, loopVars, modeVars, cmdVars, robotVars>>

NoCmd     == [src |-> "none", step |-> 0]
PolicyCmd == [src |-> "policy", step |-> 0]
ResetCmd(k) == [src |-> "reset", step |-> k]
DefaultPose == ResetCmd(Steps)

Init ==
  /\ held = {} /\ mailbox = <<>>
  /\ pad = {} /\ onPress = {} /\ jpc = "idle"
  /\ temp = NoThread /\ controlThread = NoThread
  /\ loop = [i \in LoopIds |-> "none"]
  /\ policyRunning = FALSE
  /\ reset = [t \in ResetIds |-> "none"]
  /\ step = [t \in ResetIds |-> 0]
  /\ service \in {"sport", "none"} /\ misread = FALSE
  /\ lastCmd = NoCmd
  /\ disarmed = TRUE /\ late = 0

-----------------------------------------------------------------------------
\* The gamepad and the subscriber's queue

DropNewest(q, m) == IF Len(q) >= QueueLen THEN q ELSE Append(q, m)

\* BlockQueue::Put(m, replace = true): a full queue loses its earliest message
Put(q, m) == Append(IF Len(q) >= QueueLen THEN Tail(q) ELSE q, m)

\* on_data_available: a gamepad message with any combination of buttons
PadMessage(b) ==
  /\ held' = b
  /\ mailbox' = Put(mailbox, b)
  /\ UNCHANGED <<joyVars, loopVars, modeVars, cmdVars, robotVars>>

-----------------------------------------------------------------------------
\* J: onJoystickMessage

\* where the handler goes for these on_press flags
Handler(flags) == IF "L1" \in flags THEN "l1"
                  ELSE IF "L2" \in flags THEN "l2" ELSE "idle"

\* Gamepad::Update: the buttons this message reports as newly pressed
NewPresses(m) == m \ pad

\* the queue thread takes a message
JTake ==
  /\ jpc = "idle" /\ mailbox # <<>>
  /\ mailbox' = Tail(mailbox)
  /\ pad' = Head(mailbox)
  /\ onPress' = NewPresses(Head(mailbox))
  /\ jpc' = Handler(onPress')
  /\ UNCHANGED <<held, loopVars, modeVars, cmdVars, robotVars>>

KeepRunning ==
  /\ jpc = "l1"
  /\ onPress' = onPress \ {"L1"}
  /\ jpc' = "stop"
  /\ UNCHANGED <<padVars, pad, loopVars, modeVars, cmdVars, robotVars>>

\* L1: setPolicyRunning(false)
JExit ==
  /\ jpc = "l1"
  /\ onPress' = onPress \ {"L1"}
  /\ policyRunning' = FALSE
  /\ jpc' = "stop"
  /\ UNCHANGED <<padVars, pad, loopVars, disarmed, cmdVars, robotVars>>

StopWithoutJoin ==
  /\ jpc = "stop" /\ controlThread # NoThread
  /\ controlThread' = NoThread
  /\ jpc' = "spawn"
  /\ UNCHANGED <<padVars, pad, onPress, temp, loop, modeVars, cmdVars, robotVars>>

\* stopControlLoop: reset() makes control_thread_ null, then destroys it
JStop ==
  /\ jpc = "stop" /\ controlThread # NoThread
  /\ temp' = controlThread
  /\ controlThread' = NoThread
  /\ jpc' = "join"
  /\ UNCHANGED <<padVars, pad, onPress, loop, modeVars, cmdVars, robotVars>>

JStopNothing ==
  /\ jpc = "stop" /\ controlThread = NoThread
  /\ jpc' = "spawn"
  /\ UNCHANGED <<padVars, pad, onPress, loopVars, modeVars, cmdVars, robotVars>>

\* the thread object's destructor returns once the current tick has ended
JJoin ==
  /\ jpc = "join" /\ loop[temp] = "idle"
  /\ loop' = [loop EXCEPT ![temp] = "none"]
  /\ temp' = NoThread
  /\ jpc' = "spawn"
  /\ UNCHANGED <<padVars, pad, onPress, controlThread, modeVars, cmdVars, robotVars>>

\* the detached thread that will run resetJointPosition
JSpawn(t) ==
  /\ jpc = "spawn" /\ reset[t] = "none"
  /\ reset' = [reset EXCEPT ![t] = "read"]
  /\ disarmed' = TRUE
  /\ jpc' = Handler(onPress)
  /\ UNCHANGED <<padVars, pad, onPress, loopVars, policyRunning,
                 step, lastCmd, late, robotVars>>

\* L2 with a control loop: togglePolicyRunning
JToggle ==
  /\ jpc = "l2" /\ controlThread # NoThread
  /\ onPress' = onPress \ {"L2"}
  /\ policyRunning' = ~policyRunning
  /\ disarmed' = (disarmed /\ policyRunning)
  /\ late' = IF policyRunning THEN late ELSE 0
  /\ jpc' = "idle"
  /\ UNCHANGED <<padVars, pad, loopVars, reset, step, lastCmd, robotVars>>

SkipRelease ==
  /\ jpc = "l2" /\ controlThread = NoThread
  /\ onPress' = onPress \ {"L2"}
  /\ jpc' = "create"
  /\ UNCHANGED <<padVars, pad, loopVars, modeVars, cmdVars, robotVars>>

\* L2 without one: activatePolicyMode
JActivate ==
  /\ jpc = "l2" /\ controlThread = NoThread
  /\ onPress' = onPress \ {"L2"}
  /\ jpc' = "release"
  /\ UNCHANGED <<padVars, pad, loopVars, modeVars, cmdVars, robotVars>>

\* msc_->ReleaseMode(), its return code ignored, and the one-second sleep
JRelease(ok) ==
  /\ jpc = "release"
  /\ service' = IF ok /\ service = "sport" THEN "stopping" ELSE service
  /\ jpc' = "check"
  /\ UNCHANGED <<padVars, pad, onPress, loopVars, modeVars, cmdVars, misread>>

RetryOnError(ok) ==
  /\ jpc = "check"
  /\ jpc' = IF ~ok \/ service # "none" THEN "release" ELSE "create"
  /\ misread' = (misread \/ ~ok)
  /\ UNCHANGED <<padVars, pad, onPress, loopVars, modeVars, cmdVars, service>>

\* msc_->CheckMode(): on an error motionName keeps its empty initial value
JCheck(ok) ==
  /\ jpc = "check"
  /\ jpc' = IF ok /\ service # "none" THEN "release" ELSE "create"
  /\ misread' = (misread \/ ~ok)
  /\ UNCHANGED <<padVars, pad, onPress, loopVars, modeVars, cmdVars, service>>

\* startControlLoop: the thread runs before control_thread_ is assigned
JCreate(i) ==
  /\ jpc = "create" /\ controlThread = NoThread
  /\ loop[i] = "none"
  /\ loop' = [loop EXCEPT ![i] = "idle"]
  /\ temp' = i
  /\ jpc' = "assign"
  /\ UNCHANGED <<padVars, pad, onPress, controlThread, modeVars, cmdVars, robotVars>>

JAssign ==
  /\ jpc = "assign"
  /\ controlThread' = temp
  /\ temp' = NoThread
  /\ jpc' = "pause"
  /\ UNCHANGED <<padVars, pad, onPress, loop, modeVars, cmdVars, robotVars>>

\* setPolicyRunning(false): "Start in paused state"
JPause ==
  /\ jpc = "pause"
  /\ policyRunning' = FALSE
  /\ jpc' = "idle"
  /\ UNCHANGED <<padVars, pad, onPress, loopVars, disarmed, cmdVars, robotVars>>

\* either RPC may return an error
RpcResults == BOOLEAN

J ==
  \/ JTake \/ JExit \/ JStop \/ JStopNothing \/ JJoin
  \/ \E t \in ResetIds : JSpawn(t)
  \/ JToggle \/ JActivate
  \/ \E ok \in RpcResults : JRelease(ok) \/ JCheck(ok)
  \/ \E i \in LoopIds : JCreate(i)
  \/ JAssign \/ JPause

-----------------------------------------------------------------------------
\* A tick of a control loop thread: controlLoop

\* the tick proceeds when it sees a control thread, whichever it is
TickEnter(i) ==
  /\ loop[i] = "idle" /\ controlThread # NoThread
  /\ loop' = [loop EXCEPT ![i] = "gate"]
  /\ UNCHANGED <<padVars, joyVars, temp, controlThread, modeVars, cmdVars, robotVars>>

UngatedTick(i) ==
  /\ loop[i] = "gate"
  /\ loop' = [loop EXCEPT ![i] = "infer"]
  /\ UNCHANGED <<padVars, joyVars, temp, controlThread, modeVars, cmdVars, robotVars>>

TickNeedsHandlerLock(i) ==
  /\ loop[i] = "gate" /\ jpc # "join"
  /\ loop' = [loop EXCEPT ![i] = IF policyRunning THEN "infer" ELSE "idle"]
  /\ UNCHANGED <<padVars, joyVars, temp, controlThread, modeVars, cmdVars, robotVars>>

\* BaseRobotControl::controlLoop reads policy_running_ once
TickGate(i) ==
  /\ loop[i] = "gate"
  /\ loop' = [loop EXCEPT ![i] = IF policyRunning THEN "infer" ELSE "idle"]
  /\ UNCHANGED <<padVars, joyVars, temp, controlThread, modeVars, cmdVars, robotVars>>

\* runOnnxInference: any run may fail
InferResults == BOOLEAN

\* observation and inference
TickInfer(i, ok) ==
  /\ loop[i] = "infer"
  /\ loop' = [loop EXCEPT ![i] = IF ok THEN "write" ELSE "idle"]
  /\ UNCHANGED <<padVars, joyVars, temp, controlThread, modeVars, cmdVars, robotVars>>

\* applyPositionControl with the policy's joint positions
TickWrite(i) ==
  /\ loop[i] = "write"
  /\ loop' = [loop EXCEPT ![i] = "idle"]
  /\ lastCmd' = PolicyCmd
  /\ late' = IF policyRunning THEN late ELSE late + 1
  /\ UNCHANGED <<padVars, joyVars, temp, controlThread, modeVars, reset, step, robotVars>>

Tick(i) ==
  \/ TickEnter(i) \/ TickGate(i) \/ TickWrite(i)
  \/ \E ok \in InferResults : TickInfer(i, ok)

-----------------------------------------------------------------------------
\* A reset thread: resetJointPosition

\* current and target positions, read under low_state_mtx_
ResetRead(t) ==
  /\ reset[t] = "read"
  /\ reset' = [reset EXCEPT ![t] = "ramp"]
  /\ UNCHANGED <<padVars, joyVars, loopVars, modeVars, step, lastCmd, late, robotVars>>

\* the condition of the interpolation loop
ShortRamp(t) == step[t] < Steps
LongRamp(t) == step[t] <= Steps + 1
StepsLeft(t) == step[t] <= Steps

\* one interpolated position, and the 10 ms sleep
ResetStep(t) ==
  /\ reset[t] = "ramp" /\ StepsLeft(t)
  /\ lastCmd' = ResetCmd(step[t])
  /\ step' = [step EXCEPT ![t] = step[t] + 1]
  /\ UNCHANGED <<padVars, joyVars, loopVars, modeVars, reset, late, robotVars>>

\* "Joint reset complete."
ResetDone(t) ==
  /\ reset[t] = "ramp" /\ ~StepsLeft(t)
  /\ reset' = [reset EXCEPT ![t] = "none"]
  /\ step' = [step EXCEPT ![t] = 0]
  /\ UNCHANGED <<padVars, joyVars, loopVars, modeVars, lastCmd, late, robotVars>>

Reset(t) == ResetRead(t) \/ ResetStep(t) \/ ResetDone(t)

-----------------------------------------------------------------------------
\* The motion service stops some time after it accepted the release
ServiceStops ==
  /\ service = "stopping"
  /\ service' = "none"
  /\ UNCHANGED <<padVars, joyVars, loopVars, modeVars, cmdVars, misread>>

Next ==
  \/ \E b \in SUBSET Buttons : PadMessage(b)
  \/ J
  \/ \E i \in LoopIds : Tick(i)
  \/ \E t \in ResetIds : Reset(t)
  \/ ServiceStops

Spec == Init /\ [][Next]_vars

\* Every thread keeps being scheduled, an accepted release takes effect, and
\* the motion service does not refuse every release. Nothing is assumed of the
\* operator, of inference or of CheckMode.
Fairness ==
  /\ WF_vars(J)
  /\ SF_vars(JRelease(TRUE))
  /\ WF_vars(ServiceStops)
  /\ \A i \in LoopIds : WF_vars(Tick(i))
  /\ \A t \in ResetIds : WF_vars(Reset(t))

FairSpec == Spec /\ Fairness

-----------------------------------------------------------------------------
\* Properties

JPlaces == {"idle", "l1", "stop", "join", "spawn", "l2", "release", "check",
            "create", "assign", "pause"}
InFlight(i) == loop[i] \in {"infer", "write"}
ResetPending(t) == reset[t] = "read" \/ (reset[t] = "ramp" /\ StepsLeft(t))

\* Every variable stays within the values the code can give it; in particular
\* a reset never counts past its last interpolation step.
TypeOK ==
  /\ held \in SUBSET Buttons
  /\ mailbox \in Seq(SUBSET Buttons) /\ Len(mailbox) <= QueueLen
  /\ pad \in SUBSET Buttons /\ onPress \in SUBSET Buttons
  /\ jpc \in JPlaces
  /\ temp \in LoopIds \cup {NoThread}
  /\ controlThread \in LoopIds \cup {NoThread}
  /\ policyRunning \in BOOLEAN
  /\ loop \in [LoopIds -> {"none", "idle", "gate", "infer", "write"}]
  /\ reset \in [ResetIds -> {"none", "read", "ramp"}]
  /\ step \in [ResetIds -> 0..(Steps + 1)]
  /\ service \in {"sport", "stopping", "none"}
  /\ lastCmd \in [src : {"none", "policy", "reset"}, step : 0..Steps]
  /\ misread \in BOOLEAN /\ disarmed \in BOOLEAN /\ late \in Nat

\* The handlers never leave two control loop threads alive at once, whatever
\* the order of clicks: start and stop of the loop do not leak a thread.
SingleLoop ==
  \A i, k \in LoopIds : loop[i] # "none" /\ loop[k] # "none" => i = k

\* Without a control loop the policy is not running: a loop that is created
\* later cannot publish before setPolicyRunning(false) pauses it, although
\* activatePolicyMode starts the thread first.
StoppedIsPaused == controlThread = NoThread => ~policyRunning

\* From the start of the node or the reset of a safe exit until the operator
\* toggles the policy on, the policy is paused and no tick that passed the
\* running check is still on its way to publish.
SafeExitQuiet == disarmed => ~policyRunning /\ \A i \in LoopIds : ~InFlight(i)

\* After a safe exit the motors end up commanded to the default pose: unless
\* the operator runs the policy again, its last command never stands once the
\* resets have published, and of several overlapping resets the last command is
\* the final interpolation step.
SettlesAtDefault ==
  disarmed => \/ \E t \in ResetIds : ResetPending(t)
              \/ lastCmd \in {NoCmd, DefaultPose}

\* A pause (L2) or a safe exit (L1) lets through at most the one policy
\* command that was being computed.
AtMostOneLate == late <= 1

\* Evictions never make the node act on an outdated pad for good: the newest
\* message is always the last in the queue, or the one Gamepad recorded.
PadUpToDate == held = IF mailbox = <<>> THEN pad ELSE mailbox[Len(mailbox)]

\* As long as no CheckMode call failed, policy commands are only computed and
\* published when the robot's own motion service has stopped, however many
\* releases were refused.
PolicyOnlyAfterRelease ==
  ~misread =>
    /\ lastCmd.src = "policy" => service = "none"
    /\ \A i \in LoopIds : InFlight(i) => service = "none"

\* A safe exit always gets through stopControlLoop to its reset thread: the
\* handler that waits for the tick and the tick never wait for each other.
ExitReachesReset == jpc = "stop" ~> disarmed /\ \E t \in ResetIds : ResetPending(t)

\* sdk2_policy_control.cpp:128 logs "Sport mode released." when the release
\* loop ends; the motion service has then stopped.
SportModeReleased == jpc = "create" => service = "none"

\* README.md:43 "1: Press L1 (Safe Exit: Stop policy and reset joints)": an L1
\* press during the activation is answered by a safe exit.
ExitPressHonoured ==
  (jpc = "check" /\ "L1" \in held /\ "L1" \notin pad) ~> (jpc = "stop")
=============================================================================
