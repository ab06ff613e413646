SPECIFICATION Spec
CONSTANTS
  root = root
  sub = sub
  deep = deep
  link = link
  x = x
  Dirs = {root, sub, deep, link}
  Root = root
  ParentOf <- MCParentOf
  Linked = {link}
  Entries = {x}
  MaxChanges = 4
CHECK_DEADLOCK FALSE
INVARIANT TypeOK
INVARIANT QuietMeansShown
INVARIANT QuietMeansWatched
PROPERTY SidebarCatchesUp
