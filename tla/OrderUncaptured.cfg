SPECIFICATION Spec
CONSTANTS
  Vendor = {v1}
  MaxCash = 2
  MaxOnline = 2
  MaxFault = 0
INVARIANT CollectingWasCaptured
CHECK_DEADLOCK FALSE
