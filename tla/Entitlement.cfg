\* Two events at a time about two subscriptions, of any age and in any order.
CONSTANTS
  Handlers = {h1, h2}
  Subs = {s1, s2}
  NoSub = NoSub
  MaxTime = 2
  MaxVersion = 4
  MaxOverlap = 2
  MaxExtras = 0
  TrialDays = 1
  GraceDays = 1
SYMMETRY Symmetry
SPECIFICATION Spec
INVARIANTS
  NeverThrows
  EndedNotFollowed
PROPERTIES
  DecidedOnCurrent
  OldGrantsStayOut
  DisputeHolds
  GraceNotExtended
  KeepsPromise
