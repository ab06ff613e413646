SPECIFICATION Spec
CONSTANTS
  f = f
  g = g
  Files = {f, g}
  main = main
  worker = worker
  Threads = {main, worker}
  MainLoop = main
  SignCommits = TRUE
  MaxTexts = 2
  MaxCommits = 3
CHECK_DEADLOCK FALSE
SYMMETRY VcsSymmetry
INVARIANT CommitsStay
