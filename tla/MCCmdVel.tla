------------------------------- MODULE MCCmdVel -------------------------------
(* An instance of CmdVel for TLC. *)
EXTENDS CmdVel

\* a stop, and a velocity beyond the limit
MCTwists == {0, 2}
MCSticks == {0, 1}
=============================================================================
