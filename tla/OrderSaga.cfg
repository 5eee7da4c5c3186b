SPECIFICATION Spec
CONSTANTS
  Vendor = {v1, v2}
  MaxCash = 3
  MaxOnline = 2
  MaxFault = 1
SYMMETRY Stores
INVARIANTS TypeOK CancelledNeverCharged PickedUpWasCredited CreditedOncePerCut DeliveredWasCollected
PROPERTIES CashOrderMovesForward
CHECK_DEADLOCK FALSE
