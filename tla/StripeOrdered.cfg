\* One subscription, its events in order, one request at a time.
CONSTANTS
  NoCustomer = NoCustomer
  Subs = {a}
  Slots = {d1}
  MaxPeriod = 2
  MaxFaults = 2
  Ordered = TRUE
  MayOmit = FALSE
  MayMisread = FALSE
  MayReconcile = FALSE
SPECIFICATION Spec
INVARIANTS
  SettledAgrees
