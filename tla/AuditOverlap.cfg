\* Every fault, two invocations of one audit alive at once.
CONSTANTS
  Slots = {s1, s2}
  Nobody = Nobody
  Retries = 1
  Chunks = 1
  Emails = {e1}
  NoEmail = NoEmail
  Faults <- FaultKinds
  MaxFaults = 2
SPECIFICATION Spec
INVARIANTS
  MailHonest
  AlertHonest
PROPERTIES
  EndedIsFinal
