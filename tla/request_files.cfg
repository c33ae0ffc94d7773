SPECIFICATION Spec
CONSTANTS
  Requests = {r1, r2}
  Names = {n1, n2}
SYMMETRY MCSymmetry
CHECK_DEADLOCK FALSE
INVARIANTS ReadsOwnFiles LeftBehind IRsFit
PROPERTIES LeftForGood
