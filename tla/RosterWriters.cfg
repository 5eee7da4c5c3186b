SPECIFICATION Spec
CONSTANTS
  Courier = {c1}
  Request = {q1, q2}
  MaxVerdicts = 2
  MayFail = TRUE
  Enforce = TRUE
  Idle = Idle
INVARIANTS TypeOK LatestVerdictRecorded SuspensionSticks
SYMMETRY Symmetry
