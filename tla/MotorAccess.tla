----------------------------- MODULE MotorAccess -----------------------------
(***************************************************************************)
(* Who may be in applyPositionControl, and when. It is the interface of    *)
(* two models: PolicyNode is the threads that call it, each call a single  *)
(* step, and LowCmdBuffer is the call taken apart. Nothing locks it, so    *)
(* resets overlap each other and a policy that was activated again; only   *)
(* the policy that a safe exit ends is kept out of the reset that follows. *)
(***************************************************************************)

CONSTANTS
  Loops,   \* threads of controlLoop
  Resets   \* threads of resetJointPosition

VARIABLES
  armed,    \* the operator has run the policy since the last safe exit
  started,  \* resets that are under way
  inside    \* threads in applyPositionControl

accessVars == <<armed, started, inside>>

Init == armed = FALSE /\ started = {} /\ inside = {}

\* L2
Arm == armed' = TRUE /\ UNCHANGED <<started, inside>>

\* L1
SafeExit(r) ==
  /\ r \notin started /\ \A w \in Loops : w \notin inside
  /\ armed' = FALSE /\ started' = started \cup {r}
  /\ UNCHANGED inside

Enter(w) ==
  /\ w \notin inside
  /\ IF w \in Loops THEN armed ELSE w \in started
  /\ inside' = inside \cup {w}
  /\ UNCHANGED <<armed, started>>

\* a reset may be complete with that
Leave(w) ==
  /\ w \in inside
  /\ inside' = inside \ {w}
  /\ started' \in {started} \cup {started \ {r} : r \in {w} \cap Resets}
  /\ UNCHANGED armed

Complete(r) ==
  /\ r \in started /\ r \notin inside
  /\ started' = started \ {r}
  /\ UNCHANGED <<armed, inside>>

Next ==
  \/ Arm
  \/ \E r \in Resets : SafeExit(r) \/ Complete(r)
  \/ \E w \in Loops \cup Resets : Enter(w) \/ Leave(w)

Spec == Init /\ [][Next]_accessVars

\* No policy writes over the resets of a safe exit, unless it is run again.
PolicyIsArmed == \A w \in Loops : w \in inside => armed
=============================================================================
