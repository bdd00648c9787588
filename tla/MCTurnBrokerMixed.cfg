CONSTANTS
  t1 = t1
  t2 = t2
  r1 = r1
  r2 = r2
  Token = {t1, t2}
  Call = {c1}
  Activity = {a1}
  Waiter = {w1}
  SafeToken <- FirstOnly
  ExternalToken <- FirstOnly
  Trace = {r1, r2}
  TraceOf <- OwnTraces
  MaxRetired = 1
  None = None
SPECIFICATION Spec
SYMMETRY Symmetry
INVARIANTS
  SafeTurnAuthorized
  NoLostSafeWakeup
  NoWaitOutlivesItsTurn
