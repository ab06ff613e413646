SPECIFICATION Spec
CONSTANTS
  d = d
  e = e
  x = x
  y = y
  Names = {x, y}
  Dirs = {d, e}
  Path <- MCPath
  p = p
  q = q
  Procs = {p, q}
  None = None
  Blocks = 1
  MaxWrites = 2
  MaxCrashes = 1
CHECK_DEADLOCK FALSE
SYMMETRY ProcSymmetry
INVARIANT TypeOK
INVARIANT NoTempLeft
INVARIANT NoEmptyDirs
PROPERTY StoredAtomically
