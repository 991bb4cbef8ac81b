\* The answer of an invocation is lost after its last write.
CONSTANTS
  Slots = {s1}
  Nobody = Nobody
  Retries = 1
  Chunks = 1
  Emails = {e1}
  NoEmail = NoEmail
  Faults <- LostAnswer
  MaxFaults = 2
SPECIFICATION Spec
INVARIANTS
  SettledReportWhole
