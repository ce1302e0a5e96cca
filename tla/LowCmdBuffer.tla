----------------------------- MODULE LowCmdBuffer -----------------------------
(***************************************************************************)
(* applyPositionControl of the policy node, field by field. The message    *)
(* low_cmd_ is one buffer for every thread that commands the motors: the   *)
(* control loop's and those of the detached resets. Each fills the joints, *)
(* computes the CRC over what the buffer then holds, stores it and hands   *)
(* the buffer to DDS, which reads it once more. low_cmd_mtx_ is declared   *)
(* for this and nothing locks it.                                          *)
(*                                                                         *)
(* A command of a joint is the writer and the step it is for; a CRC is the *)
(* joints it was computed over (Crc32 is about the polynomial). The robot  *)
(* drops a frame whose CRC does not fit.                                   *)
(***************************************************************************)
EXTENDS Integers, FiniteSets

CONSTANTS
  NumJoints,  \* obs_cfg_.act_size
  Resets,     \* threads of resetJointPosition
  Loops,      \* threads of controlLoop (one in the node)
  Steps       \* last step of a reset (200 in the code)

ASSUME BufferAssumption ==
  /\ NumJoints \in Nat \ {0} /\ Steps \in Nat
  /\ Resets \cap Loops = {} /\ "node" \notin Resets \cup Loops

Joints == 1..NumJoints
Writers == Resets \cup Loops
Places == {"none", "rest", "fill", "sum", "store", "read", "write", "done"}

\* joint_positions of w's frame k; the last frame of any reset is dft_dof_pos
DefaultPose == [by |-> "node", step |-> 1]
Unset == [by |-> "node", step |-> 0]
Command(w, k) ==
  IF w \in Resets /\ k = Steps THEN DefaultPose ELSE [by |-> w, step |-> k]
Commands ==
  {Unset, DefaultPose} \cup [by : Writers, step : 0..Steps]
Uniform(c) == [j \in Joints |-> c]
Nothing == Uniform(Unset)

VARIABLES
  q,       \* low_cmd_.motor_cmd()[..].q()
  crc,     \* low_cmd_.crc()
  active,  \* the control loop may apply commands (running, not exited)
  pc, at,  \* each writer's place, and the joint it reads or writes next
  step,    \* each writer's frame
  sum,     \* joints crc32_core has gone through
  out,     \* joints Write has gone through
  others,  \* history: the writers that were inside since w's frame began
  clean,   \* history: no other writer was inside during the last published frame
  robot    \* joints of the last frame the robot accepted

vars == <<q, crc, active, pc, at, step, sum, out, others, clean, robot>>

\* initLowCmd
Init ==
  /\ q = Nothing /\ crc = Nothing /\ active = FALSE
  /\ pc = [w \in Writers |-> IF w \in Loops THEN "rest" ELSE "none"]
  /\ at = [w \in Writers |-> 1] /\ step = [w \in Writers |-> 0]
  /\ sum = [w \in Writers |-> Nothing] /\ out = [w \in Writers |-> Nothing]
  /\ others = [w \in Writers |-> {}]
  /\ clean = TRUE /\ robot = Nothing

Inside(w) == pc[w] \in {"fill", "sum", "store", "read", "write"}

-----------------------------------------------------------------------------
\* L2: the policy runs, whatever reset is still under way
Activate ==
  /\ active' = TRUE
  /\ UNCHANGED <<q, crc, pc, at, step, sum, out, others, clean, robot>>

\* L1: the loop is joined, then a detached reset starts
SafeExit(r) ==
  /\ pc[r] = "none" /\ \A w \in Loops : ~Inside(w)
  /\ active' = FALSE
  /\ pc' = [pc EXCEPT ![r] = "rest"]
  /\ UNCHANGED <<q, crc, at, step, sum, out, others, clean, robot>>

Begin(w) ==
  /\ pc[w] = "rest"
  /\ w \in Loops => active
  /\ pc' = [pc EXCEPT ![w] = "fill"]
  /\ others' = [v \in Writers |->
       IF v = w THEN {u \in Writers : Inside(u)}
       ELSE IF Inside(v) THEN others[v] \cup {w} ELSE others[v]]
  /\ UNCHANGED <<q, crc, active, at, step, sum, out, clean, robot>>

\* a step that goes through the joints moves to the next one, or on
Advance(w, next) ==
  /\ at' = [at EXCEPT ![w] = IF @ = NumJoints THEN 1 ELSE @ + 1]
  /\ pc' = [pc EXCEPT ![w] = IF at[w] = NumJoints THEN next ELSE @]

\* the last joint keeps what an earlier frame left there
FillButLast(w) ==
  /\ pc[w] = "fill"
  /\ q' = IF at[w] = NumJoints THEN q ELSE [q EXCEPT ![at[w]] = Command(w, step[w])]
  /\ Advance(w, "sum")
  /\ UNCHANGED <<crc, active, step, sum, out, others, clean, robot>>

FillJoint(w) ==
  /\ pc[w] = "fill"
  /\ q' = [q EXCEPT ![at[w]] = Command(w, step[w])]
  /\ Advance(w, "sum")
  /\ UNCHANGED <<crc, active, step, sum, out, others, clean, robot>>

SumJoint(w) ==
  /\ pc[w] = "sum"
  /\ sum' = [sum EXCEPT ![w][at[w]] = q[at[w]]]
  /\ Advance(w, "store")
  /\ UNCHANGED <<q, crc, active, step, out, others, clean, robot>>

\* the CRC is computed and not stored
DropCrc(w) ==
  /\ pc[w] = "store"
  /\ sum' = [sum EXCEPT ![w] = Nothing]
  /\ pc' = [pc EXCEPT ![w] = "read"]
  /\ UNCHANGED <<q, crc, active, at, step, out, others, clean, robot>>

StoreCrc(w) ==
  /\ pc[w] = "store"
  /\ crc' = sum[w]
  /\ sum' = [sum EXCEPT ![w] = Nothing]
  /\ pc' = [pc EXCEPT ![w] = "read"]
  /\ UNCHANGED <<q, active, at, step, out, others, clean, robot>>

\* Write serialises the joints in order and then the CRC, the last field
ReadJoint(w) ==
  /\ pc[w] = "read"
  /\ out' = [out EXCEPT ![w][at[w]] = q[at[w]]]
  /\ Advance(w, "write")
  /\ UNCHANGED <<q, crc, active, step, sum, others, clean, robot>>

\* the loop ends one step early
EndsEarly(w) == w \in Resets /\ step[w] + 1 >= Steps
IsLast(w) == w \in Resets /\ step[w] = Steps

\* the frames of a loop are not told apart
NextStep(w) ==
  IF w \in Resets /\ step[w] < Steps THEN step[w] + 1 ELSE step[w]

\* the CRC, and the frame is out
Publish(w) ==
  /\ pc[w] = "write"
  /\ clean' = (others[w] = {})
  /\ robot' = IF crc = out[w] THEN out[w] ELSE robot
  /\ pc' = [pc EXCEPT ![w] =
       IF IsLast(w) THEN "done" ELSE "rest"]
  /\ step' = [step EXCEPT ![w] = NextStep(w)]
  /\ out' = [out EXCEPT ![w] = Nothing]
  /\ others' = [others EXCEPT ![w] = {}]
  /\ UNCHANGED <<q, crc, active, at, sum>>

Apply(w) ==
  \/ Begin(w) \/ FillJoint(w) \/ SumJoint(w)
  \/ StoreCrc(w) \/ ReadJoint(w) \/ Publish(w)

Next ==
  \/ Activate
  \/ \E r \in Resets : SafeExit(r)
  \/ \E w \in Writers : Apply(w)

Spec == Init /\ [][Next]_vars

-----------------------------------------------------------------------------
TypeOK ==
  /\ q \in [Joints -> Commands] /\ crc \in [Joints -> Commands]
  /\ active \in BOOLEAN
  /\ pc \in [Writers -> Places] /\ at \in [Writers -> Joints]
  /\ step \in [Writers -> 0..Steps]
  /\ sum \in [Writers -> [Joints -> Commands]]
  /\ out \in [Writers -> [Joints -> Commands]]
  /\ others \in [Writers -> SUBSET Writers]
  /\ clean \in BOOLEAN
  /\ robot \in [Joints -> Commands]

\* A joint of a frame about to go out is the writer's own command or one of a
\* thread that was in applyPositionControl at the same time: however the threads
\* interleave, nothing is left in a frame from before it was begun.
MixedOnlyByOverlap ==
  \A w \in Writers, j \in Joints : pc[w] = "write" =>
    \/ out[w][j] = Command(w, step[w])
    \/ \E v \in others[w] : out[w][j] \in {Command(v, k) : k \in 0..Steps}

\* A frame that no other thread overlaps is whole and the robot accepts it: its
\* CRC is the one of what is sent.
UndisturbedIsAccepted ==
  \A w \in Writers : pc[w] = "write" /\ others[w] = {} =>
    out[w] = Uniform(Command(w, step[w])) /\ crc = out[w]

\* every reset that was started has logged "Joint reset complete."
Settled ==
  /\ ~active /\ \A w \in Loops : pc[w] = "rest"
  /\ \E r \in Resets : pc[r] = "done"
  /\ \A r \in Resets : pc[r] \in {"none", "done"}

\* When all resets are complete after a safe exit, and no other thread overlapped
\* the last frame, the robot is at the default pose.
SettledAtDefault == Settled /\ clean => robot = Uniform(DefaultPose)

Access == INSTANCE MotorAccess WITH
  armed <- active,
  started <- {r \in Resets : pc[r] \notin {"none", "done"}},
  inside <- {w \in Writers : Inside(w)}

\* The threads of this module enter applyPositionControl when those of PolicyNode do.
AccessSpec == Access!Spec
=============================================================================
