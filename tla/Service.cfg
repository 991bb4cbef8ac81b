SYMMETRY Symmetry
SPECIFICATION Spec
CONSTANTS
  b1 = b1
  b2 = b2
  b3 = b3
  Batches = {b1, b2, b3}
  Requests = {b1, b2, b3}
  BatchOf <- MCBatchOf
  Skew = 1
  NonceTTL = 2
  ResultTTL = 3
  Concurrency = 2
  MaxNonces = 3
  MaxRecords = 2
  MaxBytes = 2
  Sizes = {1, 2}
INVARIANTS
  RunsOnce
  RunsMatchRecords
PROPERTIES
  EndIsOnRecord
