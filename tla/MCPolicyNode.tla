---------------------------- MODULE MCPolicyNode ----------------------------
(* Instances of PolicyNode for TLC. *)
EXTENDS PolicyNodeModes, TLC

\* Thread identities are interchangeable (sound for the safety runs only).
Threads == Permutations(LoopIds) \cup Permutations(ResetIds)
=============================================================================
