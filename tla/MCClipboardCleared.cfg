SPECIFICATION Spec
CONSTANTS
  ClipTime = 2
  MaxCopies = 2
  MaxChanges = 1
CHECK_DEADLOCK FALSE
INVARIANT SecretsAreCleared
