SPECIFICATION Spec
CONSTANTS
  Courier = {c1}
  Job = {j1, j2}
  Request = {q1, q2}
  Pay <- TripsAndCash
  Amount = {1}
  LastPeriod = 2
  Idle = Idle
INVARIANTS TypeOK CreditedOnce RemittedWasCollected SinglesBalanceIsSum SinglesNeverOverpaid
PROPERTIES ImplementsAccount
SYMMETRY Symmetry
