CONSTANTS
  t1 = t1
  r1 = r1
  a1 = a1
  a2 = a2
  c1 = c1
  c2 = c2
  Token = {t1}
  Call = {c1}
  Activity = {a1}
  Waiter = {w1}
  SafeToken <- NoTokens
  ExternalToken <- NoTokens
  Trace = {r1}
  TraceOf <- OneTrace
  MaxRetired = 1
  None = None
  CallOf <- OwnCall
SPECIFICATION HarnessFairSpec
INVARIANTS
  SettledRequestHoldsNoLease
  ReleasedCallIsDead
PROPERTIES
  
  RequestsOnEndedTurnsFinish
  QueuedCallsAreHandedOut
CHECK_DEADLOCK FALSE
