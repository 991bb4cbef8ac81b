\* Every call but the mail may fail, the failure handler's UPDATE may throw; one
\* invocation at a time, fair scheduling.
CONSTANTS
  Slots = {s1}
  Nobody = Nobody
  Retries = 1
  Chunks = 2
  Emails = {e1, e2}
  NoEmail = NoEmail
  Faults <- MailSafeFaults
  MaxFaults = 4
SPECIFICATION FairSpec
INVARIANTS
  ReportWhole
  FailureSignalled
PROPERTIES
  KeepsPromise
  MailComes
