SPECIFICATION FairSpec
CONSTANTS
  b1 = b1
  b2 = b2
  Batches = {b1, b2}
  Lanes <- MCLanes
  Floor = 1
  Delays = {2}
  SlowMs = 0
  SlowWindow = 1
  Forget = 2
  Cooldown = 3
  After429s = 1
  AfterChallenged = 2
  Long = 2
INVARIANT NoLostWakeup
PROPERTY Paced StopHolds SendsAllowed QueueMoves
