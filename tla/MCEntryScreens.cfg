SPECIFICATION Spec
CONSTANTS
  nl = nl
  nul = nul
  a = a
  b = b
  s = s
  NL = nl
  Nul = nul
  Plain <- MCPlain
  Texts <- MCTexts
  Foreign <- MCForeign
  Gone = Gone
  None = None
  Typed <- MCTyped
  CharSets <- MCCharSets
  MaxCounter = 12
  Chars <- MCChars
  MaxLog = 3
  MaxRows = 3
  MaxTyped = 2
  MaxCodes = 2
  MaxEpoch = 2
CHECK_DEADLOCK FALSE
INVARIANT TypeOK
INVARIANT RestorableIsShown
INVARIANT DiffTellsTheChange
INVARIANT EditorIsExact
 
INVARIANT GeneratorIsFair
PROPERTY RestoreIsExact
PROPERTY RevisionsSettle
