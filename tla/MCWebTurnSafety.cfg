CONSTANTS
  Calls = {c1, c2}
  MaxText = 2
  MaxEpoch = 0
  MaxDrops = 1
SPECIFICATION Spec
SYMMETRY Symmetry
INVARIANTS
  FinalIsQuiet
  BoundaryBeforeTools
  
  StreamMatchesAnswer
