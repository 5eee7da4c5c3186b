SPECIFICATION Spec
CONSTANTS
  Shipment = {s1, s2}
  Driver = {d1, d2}
  Gig = {d1, d2}
  Round = {n1}
  Attempt = {a1, a2}
  Desk = {k1}
  Phone = {p1}
  Sweeper = {v1}
  Mortal = {k1, p1}
  MaxWave = 2
  MaxEvent = 1
  None = None
INVARIANTS TypeOK ClaimIsExclusive OneActiveTrip NothingIsLost
PROPERTIES OfferClosesOnce
CHECK_DEADLOCK FALSE
SYMMETRY Symmetry
