----------------------------- MODULE PolicyConfig -----------------------------
(***************************************************************************)
(* What FromFile accepts and what the controllers then index with it. A    *)
(* file is any sequence of lines in any order; a key may be repeated or    *)
(* missing, the last line of a key counts, and the lengths of the lists    *)
(* are compared only at the end. When the file cannot be opened or the     *)
(* lengths differ, both constructors log it and go on. A single number     *)
(* that does not parse ends the process and is left out, and so are gains  *)
(* and scales; an empty item of a list leaves its value uninitialised, so  *)
(* that an entry of the order may be anything.                             *)
(*                                                                         *)
(* The joint order of the file, when it has one, is JointMap's list of N.  *)
(***************************************************************************)
EXTENDS JointMap

CONSTANTS
  Lengths,    \* values of act_size, and lengths of dft_dof_pos
  FrameSizes, \* values of obs_size
  MotorArrays \* lengths of the robot's motor_state and motor_cmd (20 on both robots)

ASSUME ConfigAssumption ==
  Lengths \subseteq Nat /\ FrameSizes \subseteq Nat /\ MotorArrays \subseteq Nat

DefaultActSize == 12
DefaultObsSize == 45

VARIABLES
  phase,     \* place in FromFile and in the constructor
  act_size,
  dft,       \* length of dft_dof_pos
  order,     \* length of joint_idx_sdk2policy
  obs_size,
  ok,
  ready      \* onnx_ready_

fileVars == <<act_size, dft, order, obs_size>>
configVars == <<phase, fileVars, ok, ready>>
allVars == <<vars, configVars>>

ConfigInit ==
  /\ Init
  /\ phase = "open" /\ ok = FALSE /\ ready = FALSE
  /\ act_size = DefaultActSize /\ obs_size = DefaultObsSize
  /\ dft = 0 /\ order = 0

\* the stream opens, or the defaults are returned as they are
Open(opens) ==
  /\ phase = "open"
  /\ phase' = IF opens THEN "lines" ELSE "model"
  /\ UNCHANGED <<vars, fileVars, ok, ready>>

\* vec.clear() forgotten
AppendingLine ==
  /\ phase = "lines"
  /\ \/ act_size' \in Lengths /\ UNCHANGED <<dft, order, obs_size>>
     \/ obs_size' \in FrameSizes /\ UNCHANGED <<act_size, dft, order>>
     \/ dft' \in Lengths /\ UNCHANGED <<act_size, order, obs_size>>
     \/ order' = order + N /\ UNCHANGED <<act_size, dft, obs_size>>
  /\ UNCHANGED <<vars, phase, ok, ready>>

\* parse_vec clears its list first
Line ==
  /\ phase = "lines"
  /\ \/ act_size' \in Lengths /\ UNCHANGED <<dft, order, obs_size>>
     \/ obs_size' \in FrameSizes /\ UNCHANGED <<act_size, dft, order>>
     \/ dft' \in Lengths /\ UNCHANGED <<act_size, order, obs_size>>
     \/ order' = N /\ UNCHANGED <<act_size, dft, obs_size>>
  /\ UNCHANGED <<vars, phase, ok, ready>>

\* one list of the two forgotten
OneListFits == dft = act_size

SizesFit == dft = act_size /\ order = act_size

EndOfFile ==
  /\ phase = "lines"
  /\ phase' = IF SizesFit THEN "invert" ELSE "model"
  /\ UNCHANGED <<vars, fileVars, ok, ready>>

\* compute_pol2rob_from_sdk2policy, then *ok
Invert ==
  /\ phase = "invert"
  /\ \/ pi < order /\ Entry /\ UNCHANGED <<phase, ok>>
     \/ pi >= order /\ phase' = "model" /\ ok' = TRUE /\ UNCHANGED vars
  /\ UNCHANGED <<fileVars, ready>>

\* loadOnnxModel catches what it throws
LoadModel(loads) ==
  /\ phase = "model"
  /\ phase' = "up" /\ ready' = loads
  /\ UNCHANGED <<vars, fileVars, ok>>

ConfigNext ==
  \/ \E b \in BOOLEAN : Open(b) \/ LoadModel(b)
  \/ Line \/ EndOfFile \/ Invert

ConfigSpec == ConfigInit /\ [][ConfigNext]_allVars

-----------------------------------------------------------------------------
\* The indices the controllers use, on a robot with arrays of this many motors.
\* Lists and arrays are indexed from 0.

Below(n) == 0..(n - 1)

\* resetJointPosition: motor_state()[i] and dft_dof_pos[i]; applyPositionControl:
\* motor_cmd()[i]
ResetInBounds(motors) == Below(act_size) \subseteq Below(dft) \cap Below(motors)

\* getRobotObs: motor_state()[i] and dft_dof_pos[i], joint_idx_sdk2policy[pi],
\* dof_pos_sdk[ri], and the memcpy of a frame from gyr, grav, cmd (9), positions,
\* velocities and actions
ObserveInBounds(motors) ==
  /\ Below(act_size) \subseteq Below(dft) \cap Below(order) \cap Below(motors)
  /\ \A p \in Below(act_size) : sdk2policy[p] \in Below(act_size)
  /\ Below(obs_size) \subseteq Below(9 + 3 * act_size)

\* controlLoop: joint_idx_policy2sdk[r], which is empty unless the inversion ran,
\* outputs[p], of act_size outputs, and dft_dof_pos[r]; applyPositionControl:
\* motor_cmd()[i]
ActInBounds(motors) ==
  /\ Below(act_size) \subseteq
       Below(IF ok THEN order ELSE 0) \cap Below(dft) \cap Below(motors)
  /\ \A r \in Below(act_size) : pol2rob[r] \in Below(act_size)

-----------------------------------------------------------------------------
FileTypeOK ==
  /\ phase \in {"open", "lines", "invert", "model", "up"}
  /\ act_size \in Lengths \cup {DefaultActSize}
  /\ obs_size \in FrameSizes \cup {DefaultObsSize}
  /\ dft \in Lengths \cup {0} /\ order \in {0, N}
  /\ ok \in BOOLEAN /\ ready \in BOOLEAN

\* The sizes are those of the file's last lines or the defaults, and whatever the
\* order names, the indices made from it stay within the outputs.
ConfigTypeOK == TypeOK /\ FileTypeOK

\* What the report [OK] of a configuration is worth to resets and actions: they
\* index only what exists exactly if the file names no more joints than the robot
\* has motors, whatever the order of its lines, whichever keys it repeats and
\* whatever joints it names. FromFile compares the lists with act_size, and
\* nothing compares act_size with the robot.
LoadedInBounds ==
  ok => \A motors \in MotorArrays :
          ResetInBounds(motors) /\ ActInBounds(motors) <=> act_size <= motors

\* Observing reads through the order itself, unchecked: an entry that the inversion
\* only skipped is indexed in every tick. In a configuration that was reported as
\* loaded, observations index only what exists exactly if no entry was logged as
\* out of range, and act_size and obs_size, which nothing checks, fit the robot and
\* the frame.
LoadedObserves ==
  ok => \A motors \in MotorArrays :
          ObserveInBounds(motors) <=>
            ~warned /\ act_size <= motors /\ obs_size <= 9 + 3 * act_size
=============================================================================
