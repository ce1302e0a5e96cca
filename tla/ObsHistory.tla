----------------------------- MODULE ObsHistory -----------------------------
(***************************************************************************)
(* What the policy observes: getRobotObs of the go2/go2w policy node, the  *)
(* part of controlLoop around it, and the subscriber that overwrites       *)
(* low_state_ meanwhile.                                                   *)
(*                                                                         *)
(* A frame is the joints' readings and then the last actions; the IMU and  *)
(* the scaling and clipping of values are left out, the velocity command   *)
(* is VelArbiter's, the joint orders are JointMap's. A reading is the name *)
(* of the message it came with. his_obs_ is the flat buffer of the code.   *)
(***************************************************************************)
EXTENDS Naturals, Sequences

CONSTANTS
  NumJoints,    \* act_size
  MaxHistory,   \* bound: history_steps of the configuration is at most this
  Readings,     \* low state messages
  Actions,      \* outputs of inference for a joint
  Zero          \* the initial value of readings and actions

ASSUME ObsAssumption == NumJoints \in Nat \ {0} /\ MaxHistory \in Nat

VARIABLES
  history,   \* obs_cfg_.history_steps
  lowState,  \* low_state_: the reading of each joint
  msg,       \* the message onLowStateMessage is copying
  spc,       \* joint it copies next, 0 when it is not running
  lock,      \* owner of low_state_mtx_
  tpc,       \* what the tick does next
  copy,      \* the joints of state_copy copied so far
  obs,       \* the frame of this tick
  lastAct,   \* last_act_
  hisObs,    \* his_obs_
  applied    \* history: the last action that was sent to the motors

subVars == <<lowState, msg, spc>>
vars == <<history, subVars, lock, tpc, copy, obs, lastAct, hisObs, applied>>

Joints == 1..NumJoints
Frame == 2 * NumJoints   \* obs_size of a configuration that fits the frame

Values == Readings \cup Actions \cup {Zero}
Zeros(n) == [i \in 1..n |-> Zero]
AtLeastOne(h) == IF h = 0 THEN 1 ELSE h

\* the constructor calls ensureObsBuffers after it read the configuration
Init ==
  /\ history \in 0..MaxHistory
  /\ lowState = [j \in Joints |-> Zero] /\ msg = Zero /\ spc = 0
  /\ lock = "free"
  /\ tpc = "idle" /\ copy = <<>> /\ obs = Zeros(Frame)
  /\ lastAct = Zeros(NumJoints)
  /\ hisObs = Zeros(Frame * AtLeastOne(history))
  /\ applied = Zeros(NumJoints)

-----------------------------------------------------------------------------
\* onLowStateMessage

MessageArrives(m) ==
  /\ spc = 0 /\ lock = "free"
  /\ msg' = m /\ spc' = 1 /\ lock' = "subscriber"
  /\ UNCHANGED <<history, lowState, tpc, copy, obs, lastAct, hisObs, applied>>

MessageWrites ==
  /\ spc \in Joints
  /\ lowState' = [lowState EXCEPT ![spc] = msg]
  /\ spc' = spc + 1
  /\ UNCHANGED <<history, msg, lock, tpc, copy, obs, lastAct, hisObs, applied>>

MessageDone ==
  /\ spc = NumJoints + 1
  /\ spc' = 0 /\ lock' = "free"
  /\ UNCHANGED <<history, lowState, msg, tpc, copy, obs, lastAct, hisObs, applied>>

Subscriber == MessageWrites \/ MessageDone

-----------------------------------------------------------------------------
\* A tick whose policy is running: getRobotObs, inference, the actions

UnlockedTick ==
  /\ tpc = "idle"
  /\ tpc' = "copy" /\ copy' = <<>>
  /\ UNCHANGED <<history, subVars, lock, obs, lastAct, hisObs, applied>>

TickLocks ==
  /\ tpc = "idle" /\ lock = "free"
  /\ tpc' = "copy" /\ lock' = "tick" /\ copy' = <<>>
  /\ UNCHANGED <<history, subVars, obs, lastAct, hisObs, applied>>

TickCopies ==
  /\ tpc = "copy" /\ Len(copy) < NumJoints
  /\ copy' = Append(copy, lowState[Len(copy) + 1])
  /\ UNCHANGED <<history, subVars, lock, tpc, obs, lastAct, hisObs, applied>>

\* the frame holds last_act_ as it is before the buffers are checked
TickObserves ==
  /\ tpc = "copy" /\ Len(copy) = NumJoints
  /\ obs' = copy \o lastAct
  /\ lock' = "free" /\ tpc' = "record" /\ copy' = <<>>
  /\ UNCHANGED <<history, subVars, lastAct, hisObs, applied>>

\* ensureObsBuffers, when his_obs_ has not the size of the configuration
Misfit == Len(hisObs) # Frame * history
UnpaddedEnsured == IF Misfit THEN Zeros(Frame * history) ELSE hisObs
Ensured == IF Misfit THEN Zeros(Frame * AtLeastOne(history)) ELSE hisObs

FrontFirst(b) ==
  [i \in 1..Len(b) |-> IF i <= 2 * Frame THEN obs[((i - 1) % Frame) + 1]
                       ELSE IF i <= Frame * history THEN b[i - Frame] ELSE b[i]]

\* memmove of all but the last frame, when there are several; then memcpy
Shifted(b) ==
  [i \in 1..Len(b) |-> IF i <= Frame THEN obs[i]
                       ELSE IF i <= Frame * history THEN b[i - Frame] ELSE b[i]]

\* his_obs_ is then the input of inference, as a whole
TickRecords ==
  /\ tpc = "record"
  /\ hisObs' = Shifted(Ensured)
  /\ lastAct' = IF Misfit THEN Zeros(NumJoints) ELSE lastAct
  /\ tpc' = "infer"
  /\ UNCHANGED <<history, subVars, lock, copy, obs, applied>>

ZeroOnFailure ==
  /\ tpc = "infer"
  /\ tpc' = "idle" /\ lastAct' = Zeros(NumJoints)
  /\ UNCHANGED <<history, subVars, lock, copy, obs, hisObs, applied>>

\* runOnnxInference fails
TickFails ==
  /\ tpc = "infer"
  /\ tpc' = "idle"
  /\ UNCHANGED <<history, subVars, lock, copy, obs, lastAct, hisObs, applied>>

TickInfers(out) ==
  /\ tpc = "infer"
  /\ lastAct' = out
  /\ tpc' = "apply"
  /\ UNCHANGED <<history, subVars, lock, copy, obs, hisObs, applied>>

\* applyPositionControl of the same outputs
TickApplies ==
  /\ tpc = "apply"
  /\ applied' = lastAct
  /\ tpc' = "idle"
  /\ UNCHANGED <<history, subVars, lock, copy, obs, lastAct, hisObs>>

Tick ==
  \/ TickLocks \/ TickCopies \/ TickObserves \/ TickRecords
  \/ TickFails \/ (\E out \in [Joints -> Actions] : TickInfers(out)) \/ TickApplies

Next == (\E m \in Readings : MessageArrives(m)) \/ Subscriber \/ Tick

Spec == Init /\ [][Next]_vars

-----------------------------------------------------------------------------
\* Properties

\* Every variable keeps its type; the buffer keeps the size that controlLoop
\* takes the input of inference from.
TypeOK ==
  /\ history \in 0..MaxHistory
  /\ lowState \in [Joints -> Readings \cup {Zero}] /\ msg \in Readings \cup {Zero}
  /\ spc \in 0..(NumJoints + 1)
  /\ lock \in {"free", "subscriber", "tick"}
  /\ tpc \in {"idle", "copy", "record", "infer", "apply"}
  /\ copy \in Seq(Readings \cup {Zero}) /\ Len(copy) <= NumJoints
  /\ obs \in [1..Frame -> Values]
  /\ lastAct \in [Joints -> Actions \cup {Zero}]
  /\ hisObs \in [1..(Frame * AtLeastOne(history)) -> Values]
  /\ applied \in [Joints -> Actions \cup {Zero}]

\* A frame never mixes the joints of two robot states, however the subscriber
\* and the tick interleave.
FrameIsOneState == \A i, j \in Joints : obs[i] = obs[j]

\* With a history of at least one frame (the configuration files ask for it)
\* the actions the next frame will report are the ones last sent to the motors,
\* whichever ticks failed in between.
ActIsApplied == (history > 0 /\ tpc # "apply") => lastAct = applied

\* The flat buffer as a window of frames.
Window == INSTANCE ObsWindow
  WITH Frames <- [1..Frame -> Values], Blank <- Zeros(Frame),
       MaxLength <- AtLeastOne(MaxHistory), latest <- obs,
       window <- [i \in 1..AtLeastOne(history) |->
                    [k \in 1..Frame |-> hisObs[(i - 1) * Frame + k]]]

\* The input of every inference is the last observations, newest first: each
\* tick records the frame it built exactly once, whatever the configured
\* history, failures of inference included.
WindowSpec == Window!Spec
=============================================================================
