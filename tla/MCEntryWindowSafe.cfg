SPECIFICATION Spec
CONSTANTS
  Names = {a, b}
  a = a
  b = b
  None = None
  MaxClock = 1
  MaxEpoch = 2
  MaxReencs = 1
CHECK_DEADLOCK FALSE
INVARIANT TypeOK
INVARIANT SettledView
INVARIANT UnpromptedSaveIsSafe
INVARIANT SaveMatchesEditor
INVARIANT NoNullName
PROPERTY ViewSettles
