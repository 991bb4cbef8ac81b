\* Fair scheduling; calls that fail and invocations that are killed.
CONSTANTS
  Slots = {s1}
  Nobody = Nobody
  Retries = 1
  Chunks = 1
  Emails = {e1}
  NoEmail = NoEmail
  Faults <- PlatformFaults
  MaxFaults = 3
SPECIFICATION FairSpec
PROPERTIES
  RunEndsAudit
