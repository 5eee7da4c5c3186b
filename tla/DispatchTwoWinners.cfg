SPECIFICATION Spec
CONSTANTS
  Courier = {c1, c2}
  Job = {j1}
  Round = {n1}
  Request = {q1}
  Report = {}
  Fanout = 2
  PayingJob = {j1}
  Mortal = {}
  NoRow = NoRow
  Free = Free
INVARIANTS OneWinnerPerJob
CHECK_DEADLOCK FALSE
