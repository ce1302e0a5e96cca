------------------------------- MODULE MCLowCmd -------------------------------
(* LowCmdBuffer for TLC, with the CRC it uses (Crc32) in four-bit words. *)
EXTENDS LowCmdBuffer, Crc32, TLC

\* resets are interchangeable
Symmetry == Permutations(Resets)
\* x^4 + x + 1, primitive as the code's polynomial is
MCPolynomial == {0, 1}

\* The CRC of a message depends on its words alone: it is computed by itself,
\* before anything is commanded.
MCInit == Init /\ CrcInit
MCNext ==
  \/ CrcInit /\ Next /\ UNCHANGED crcVars
  \/ Init /\ CrcNext /\ UNCHANGED vars
MCSpec == MCInit /\ [][MCNext]_<<vars, crcVars>>
=============================================================================
