------------------------------ MODULE ResetTraj ------------------------------
(***************************************************************************)
(* The interpolations of the two resetJointPosition, in integers: angles   *)
(* are multiples of any unit, and a command is multiplied by the number of *)
(* steps, so that nothing is rounded. One joint stands for all of them.    *)
(***************************************************************************)
EXTENDS Integers

CONSTANTS
  Angles,      \* positions of a joint
  Deviations,  \* largest deviation of all joints, act_max
  Clips,       \* act_clip (0.1 rad in the code)
  StepCounts   \* numbers of steps (200 for SDK2, at most 100 in max_time for SDK1)

ASSUME TrajAssumption ==
  /\ Angles \subseteq Int /\ Deviations \subseteq Nat
  /\ Clips \subseteq Nat \ {0} /\ StepCounts \subseteq Nat \ {0}

\* rounded down
Floor(a, b) == a \div b

Ceil(a, b) == (a + b - 1) \div b

\* SDK1: std::max(1, ceil(act_max / act_clip))
NumSteps(act_max, act_clip) ==
  IF Ceil(act_max, act_clip) > 1 THEN Ceil(act_max, act_clip) ELSE 1

\* SDK1: joint_pos * (1 - ratio) + dft_dof_pos * ratio, ratio = (k + 1) / n,
\* k from 0 to n - 1
Sdk1Command(p, g, n, k) == p * (n - (k + 1)) + g * (k + 1)

\* the last step is left out
StopsShort(p, g, n, k) == p * n + (g - p) * (IF k = n THEN n - 1 ELSE k)

\* SDK2: current + (target - current) * (k / n), k from 0 to n
Sdk2Command(p, g, n, k) == p * n + (g - p) * k

Distance(a, b) == IF a < b THEN b - a ELSE a - b
Between(a, x, b) == x \in IF a <= b THEN a..b ELSE b..a

VARIABLES
  robot,             \* whose reset runs: "sdk1", "sdk2", or "none" yet
  pos, goal,         \* where the joint was read, and dft_dof_pos
  clip,              \* act_clip of SDK1
  num_steps, step,
  q                  \* the joint's last command, at first where it was read

jointVars == <<robot, pos, goal, clip, num_steps>>
rampVars == <<jointVars, step, q>>

RampInit ==
  /\ robot = "none" /\ pos = 0 /\ goal = 0 /\ clip = 0
  /\ num_steps = 0 /\ step = 0 /\ q = 0

\* the joints are read, this one among others that may be further from dft_dof_pos
Read(r, p, g, c, n) ==
  /\ robot = "none"
  /\ robot' = r /\ pos' = p /\ goal' = g /\ clip' = c
  /\ num_steps' = n /\ step' = 0 /\ q' = p * n

Read1 ==
  \E p, g \in Angles, act_max \in Deviations, act_clip \in Clips :
    /\ Distance(p, g) <= act_max
    /\ Read("sdk1", p, g, act_clip, NumSteps(act_max, act_clip))

Read2 == \E p, g \in Angles, n \in StepCounts : Read("sdk2", p, g, 0, n)

\* the loop, which the timeout may end before any step
Step1 ==
  /\ robot = "sdk1" /\ step < num_steps
  /\ q' = Sdk1Command(pos, goal, num_steps, step)
  /\ step' = step + 1 /\ UNCHANGED jointVars

Step2 ==
  /\ robot = "sdk2" /\ step <= num_steps
  /\ q' = Sdk2Command(pos, goal, num_steps, step)
  /\ step' = step + 1 /\ UNCHANGED jointVars

RampNext == Read1 \/ Read2 \/ Step1 \/ Step2

RampSpec == RampInit /\ [][RampNext]_rampVars

-----------------------------------------------------------------------------
\* Properties

\* The claim of the comment on act_clip: no step of a reset of the Aliengo, the
\* first one from where the joint was read included, moves a joint by more than
\* act_clip.
StepBounded ==
  [][robot = "sdk1" => Distance(q, q') <= clip * num_steps]_rampVars

\* Both resets end exactly at the default position and never pass it, and the one
\* of SDK2 starts where the joint was read.
RampsArrive ==
  /\ Between(pos * num_steps, q, goal * num_steps)
  /\ robot = "sdk1" /\ step = num_steps => q = goal * num_steps
  /\ robot = "sdk2" /\ step = num_steps + 1 => q = goal * num_steps
  /\ robot = "sdk2" /\ step <= 1 => q = pos * num_steps
=============================================================================
