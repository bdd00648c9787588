CONSTANTS
  Calls = {c1}
  MaxText = 1
  MaxEpoch = 0
  MaxDrops = 1
SPECIFICATION Spec
INVARIANTS
  ReconnectKeepsInvocation
