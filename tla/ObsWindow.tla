------------------------------ MODULE ObsWindow ------------------------------
(***************************************************************************)
(* What the observation buffer promises the policy: a window of the last   *)
(* observations, the newest first, with blank ones before the first.       *)
(***************************************************************************)
EXTENDS Naturals

CONSTANTS Frames, Blank, MaxLength
VARIABLES latest, window

wvars == <<latest, window>>

Init ==
  /\ latest = Blank
  /\ \E n \in 1..MaxLength : window = [i \in 1..n |-> Blank]

\* the robot is observed
Observe(f) == latest' = f /\ UNCHANGED window

\* the observation becomes the newest of the window
Record ==
  /\ window' = [i \in DOMAIN window |-> IF i = 1 THEN latest ELSE window[i - 1]]
  /\ UNCHANGED latest

Next == (\E f \in Frames : Observe(f)) \/ Record

Spec == Init /\ [][Next]_wvars
=============================================================================
