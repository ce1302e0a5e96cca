---------------------------- MODULE MCPolicyConfig ----------------------------
(* PolicyConfig for TLC, with the arithmetic of the ramps (ResetTraj). *)
EXTENDS PolicyConfig, ResetTraj

\* every joint, one below the range and one above it
MCEntries == -1..N
\* no joint, fewer, as many and more than the order names
MCLengths == {0, N - 1, N, N + 1}
\* the frame of N joints, and one that is longer
MCFrameSizes == {9 + 3 * N, 10 + 3 * N}
\* a motor less than the order names, and as many
MCMotorArrays == {N - 1, N}

\* angles on both sides of zero, clips that divide a deviation and that do not
MCAngles == -4..4
MCDeviations == 0..8
MCClips == 1..3
MCStepCounts == 1..5

\* The resets of one joint, whose place in the order decides nothing: they run by
\* themselves, beside one of the files.
MCInit == ConfigInit /\ RampInit
MCNext ==
  \/ RampInit /\ ConfigNext /\ UNCHANGED rampVars
  \/ ConfigInit /\ (\A i \in Joints : sdk2policy[i] = i) /\ RampNext /\ UNCHANGED allVars
MCSpec == MCInit /\ [][MCNext]_<<allVars, rampVars>>
=============================================================================
