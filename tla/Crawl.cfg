SPECIFICATION FairSpec
CONSTANTS
  Reals <- MCReals
  Id <- MCId
  StartUrls <- MCStart
  Links <- MCLinks
  Lands <- MCLands
  Offsite = Offsite
  Template <- MCTemplate
  Key <- MCKey
  PageCap = 8
  BatchSize = 2
  MinStrata = 3
  Share = 4
  MaxCrawlMs = 0
  FloorMs = 1
  MaxLost = 2
INVARIANTS
  PartialIsSaid
  PoolShallow
  SameSample
PROPERTIES
  FairShare
  ReadStays
  Ends
CHECK_DEADLOCK FALSE
