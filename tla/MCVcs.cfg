SPECIFICATION Spec
CONSTANTS
  f = f
  g = g
  Files = {f, g}
  main = main
  worker = worker
  Threads = {main, worker}
  MainLoop = main
  SignCommits = FALSE
  MaxTexts = 3
  MaxCommits = 2
CHECK_DEADLOCK FALSE
SYMMETRY VcsSymmetry
INVARIANT TypeOK
INVARIANT SavedIsRestorable
PROPERTY FastForward
