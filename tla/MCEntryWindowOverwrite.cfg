SPECIFICATION Spec
CONSTANTS
  Names = {a, b}
  a = a
  b = b
  None = None
  MaxClock = 2
  MaxEpoch = 2
  MaxReencs = 1
CHECK_DEADLOCK FALSE
SYMMETRY NameSymmetry
INVARIANT NoBlindOverwrite
