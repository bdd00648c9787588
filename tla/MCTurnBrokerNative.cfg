CONSTANTS
  t1 = t1
  t2 = t2
  r1 = r1
  r2 = r2
  Token = {t1}
  Call = {c1, c2}
  Activity = {a1, a2}
  Waiter = {w1, w2}
  SafeToken <- NoTokens
  ExternalToken <- FirstOnly
  Trace = {r1}
  TraceOf <- OneTrace
  MaxRetired = 1
  None = None
SPECIFICATION Spec
SYMMETRY Symmetry
INVARIANTS
  CallsPartitioned
  NoLostWakeup
  CommittedTurnIsQuiet
PROPERTIES
  FenceSound
  ImplementsToolRelay
