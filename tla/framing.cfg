SPECIFICATION Spec
CONSTANTS
  Base = 2
  Limit = 4
  Word = 32
  Lengths <- MCLengths
  Numeral <- MCNumeral
  Foreign <- MCForeign
CHECK_DEADLOCK FALSE
INVARIANTS NeverCut RefusesLong
PROPERTIES Delivered
