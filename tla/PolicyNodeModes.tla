-------------------------- MODULE PolicyNodeModes --------------------------
(* The refinement mappings from PolicyNode to PolicyModes and MotorAccess. *)
EXTENDS PolicyNode

\* The mode follows from where the joystick handler is, the null check of
\* control_thread_ (isControlLoopRunning) and policy_running_.
Mode ==
  IF jpc \in {"stop", "join", "spawn"} THEN "exiting"
  ELSE IF controlThread = NoThread
    THEN IF jpc \in {"release", "check", "create", "assign"}
         THEN "activating" ELSE "off"
  ELSE IF policyRunning THEN "running" ELSE "paused"

Computing == \E i \in LoopIds : InFlight(i)

Modes == INSTANCE PolicyModes WITH mode <- Mode, computing <- Computing

\* Every step of the node's threads is a step of the operator's mode machine or
\* invisible to it.
ModesSpec == Modes!Spec

\* The node also finishes what the mode machine says it begins.
ModesFairSpec == Modes!FairSpec

Access == INSTANCE MotorAccess WITH
  Loops <- LoopIds, Resets <- ResetIds,
  armed <- ~disarmed,
  started <- {t \in ResetIds : reset[t] # "none"},
  inside <- {i \in LoopIds : loop[i] = "write"}

\* The threads call applyPositionControl as LowCmdBuffer takes it: the policy only
\* after it was run, and a reset of a safe exit when no loop is in there.
AccessSpec == Access!Spec
=============================================================================
