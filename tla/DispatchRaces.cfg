SPECIFICATION FairSpec
CONSTANTS
  Courier = {c1, c2}
  Job = {j1, j2}
  Round = {n1}
  Request = {q1, q2}
  Report = {}
  Fanout = 2
  PayingJob = {j1, j2}
  Mortal = {q1}
  NoRow = NoRow
  Free = Free
INVARIANTS TypeOK SingleLiveClaim MilestonesFromHolder ReadsStayValid
PROPERTIES WinsAreAnnounced ImplementsDuty ImplementsFeed
CHECK_DEADLOCK FALSE
