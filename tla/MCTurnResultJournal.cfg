CONSTANTS
  Key = {k1, k2}
  Epoch = {e1, e2}
  Answer = {v1, v2}
  MaxEntries = 1
  None = None
SPECIFICATION Spec
SYMMETRY Symmetry
INVARIANTS
  SnapshotLoads
  UnknownSendIsDurable
PROPERTIES
  NoBlindResend
  AnswersDurableAndStable
