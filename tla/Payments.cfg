SPECIFICATION FairSpec
CONSTANTS
  Request = {q1, q2}
  MaxReturn = 2
  MaxFault = 2
INVARIANTS
  TypeOK
  OneCallAtATime
  RecordMatchesGateway
PROPERTIES
  ImplementsHold
  OwedIsRefunded
CHECK_DEADLOCK FALSE
