CONSTANTS
  Calls = {c1}
  MaxText = 1
  MaxEpoch = 1
  MaxDrops = 1
SPECIFICATION FairSpec
INVARIANTS
  CompletedTurnIsFenced
PROPERTIES
  BoundaryWaitEnds
  RetiredTurnSettles
