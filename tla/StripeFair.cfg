\* Fair retries, one request at a time, any order, every fault, and a reconcile that is
\* asked for again and again.
CONSTANTS
  NoCustomer = NoCustomer
  Subs = {a}
  Slots = {d1}
  MaxPeriod = 1
  MaxFaults = 2
  Ordered = FALSE
  MayOmit = FALSE
  MayMisread = TRUE
  MayReconcile = TRUE
SPECIFICATION FairSpec
INVARIANTS
  AckedIsApplied
PROPERTIES
  EveryEventLands
  Converges
