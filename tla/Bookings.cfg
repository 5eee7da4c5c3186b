SPECIFICATION FairSpec
CONSTANTS
  Shipment = {b1, b2}
  Discounted = {b1, b2}
  Desk = {d1}
  Consumer = pc
  Mortal = {b1, pc}
  Override = {"confirmed"}
  Scheduled = TRUE
  None = None
INVARIANTS TypeOK BookedOnce UnpaidNeverDispatched HeldUntilOut GoneIsCancelled
PROPERTY PaidReachesDispatch
CHECK_DEADLOCK FALSE
