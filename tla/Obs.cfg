SPECIFICATION Spec
CONSTANTS
  NumJoints = 2
  MaxHistory = 3
  Readings = {r1, r2}
  Actions = {a1, a2}
  Zero = Zero
INVARIANTS TypeOK FrameIsOneState ActIsApplied
PROPERTIES WindowSpec
