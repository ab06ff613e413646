SPECIFICATION Spec
CONSTANTS
  Names = {a, b}
  a = a
  b = b
  None = None
  MaxClock = 1
  MaxEpoch = 3
  MaxReencs = 1
CHECK_DEADLOCK FALSE
SYMMETRY NameSymmetry
INVARIANT PromptNamesVictim
