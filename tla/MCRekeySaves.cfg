SPECIFICATION Spec
CONSTANTS
  root = root
  sub = sub
  Dirs = {root, sub}
  Root = root
  x = x
  y = y
  Names = {x, y}
  DirOf <- MCDirOf
  alice = alice
  team = team
  Lists = {alice, team}
  k1 = k1
  k2 = k2
  k3 = k3
  Keys = {k1, k2, k3}
  Desired <- MCDesired
  Used <- MCUsed
  KeyId <- MCKeyId
  Sizes = {3, 240}
  main = main
  worker = worker
  Procs = {main, worker}
  None = None
  MaxOps = 2
CHECK_DEADLOCK FALSE
SYMMETRY ProcSymmetry
PROPERTY SavesStand
