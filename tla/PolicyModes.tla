----------------------------- MODULE PolicyModes -----------------------------
(***************************************************************************)
(* What the policy node promises its operator: the modes that L1 and L2    *)
(* move it through, and in which of them a policy command may be under     *)
(* way. Threads, the queue and the motion service do not appear.           *)
(***************************************************************************)

VARIABLES
  mode,       \* the mode the operator sees
  computing   \* a policy command is being computed or published

vars == <<mode, computing>>

Modes == {"off", "activating", "paused", "running", "exiting"}

Init == mode = "off" /\ computing = FALSE

\* L2 without a control loop, and the end of the activation it starts
Activate == mode = "off" /\ mode' = "activating" /\ UNCHANGED computing
Ready    == mode = "activating" /\ mode' = "paused" /\ UNCHANGED computing

\* L2 with a control loop
Run   == mode = "paused" /\ mode' = "running" /\ UNCHANGED computing
Pause == mode = "running" /\ mode' = "paused" /\ UNCHANGED computing

\* L1, and the moment its reset takes over
Exit ==
  /\ mode \in {"off", "paused", "running"}
  /\ mode' = "exiting"
  /\ UNCHANGED computing

Exited == mode = "exiting" /\ ~computing /\ mode' = "off" /\ UNCHANGED computing

\* a command is computed only from the running mode; it may finish in another
Compute == mode = "running" /\ ~computing /\ computing' = TRUE /\ UNCHANGED mode
Finish  == computing /\ computing' = FALSE /\ UNCHANGED mode

Next == \/ Activate \/ Ready \/ Run \/ Pause \/ Exit \/ Exited \/ Compute \/ Finish

Spec == Init /\ [][Next]_vars

\* what is begun is finished; the operator is free to do nothing
FairSpec == Spec /\ WF_vars(Ready) /\ WF_vars(Exited) /\ WF_vars(Finish)

\* With no control loop, or with one not yet handed over, nothing of the policy
\* reaches the motors.
Quiet == mode \in {"off", "activating"} => ~computing
=============================================================================
