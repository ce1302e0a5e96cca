SPECIFICATION MCSpec
CONSTANTS
  NumJoints = 2
  Resets = {r1, r2}
  Loops = {l1}
  Steps = 1
  Width = 4
  Polynomial <- MCPolynomial
  MaxWords = 2
SYMMETRY Symmetry
INVARIANTS
  MixedOnlyByOverlap
  UndisturbedIsAccepted
  SettledAtDefault
  CrcIsRemainder
  CrcSeesTornWord
CHECK_DEADLOCK FALSE
