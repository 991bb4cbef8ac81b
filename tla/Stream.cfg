\* Two attempts, a ring of two events, any one fault.
CONSTANTS
  Attempts = 2
  MaxEvents <- MCEvents
  RingSize = 2
  FeedSize = 4
  MaxWire = 1
  MaxFaults = 1
SPECIFICATION FairSpec
INVARIANTS
  FeedWhole
PROPERTIES
  ViewNeverGoesBack
  PageSettles
CHECK_DEADLOCK FALSE
