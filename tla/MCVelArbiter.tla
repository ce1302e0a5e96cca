---------------------------- MODULE MCVelArbiter ----------------------------
(* Instances of VelArbiter for TLC. *)
EXTENDS VelArbiter, TLC

\* a component beyond the limit, and one that is not a number
MCTwists == {-2000, NaN}

\* released, within the dead zone, fully deflected
MCSticks == {0, 5, 1000}
=============================================================================
