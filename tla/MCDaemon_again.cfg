SPECIFICATION FairSpec
CONSTANTS
  w = w
  w2 = w2
  b = b
  b2 = b2
  d = d
  f = f
  g = g
  h = h
  c1 = c1
  c2 = c2
  Roots = {w, w2}
  Backups = {b, b2}
  Nodes <- SmallTree
  Dirs = {d, b}
  Parent <- In
  Root <- Below
  Rel <- Names
  Alike <- AsBuilt
  Contents <- FewBytes
  Shrinks = FALSE
  MaxEdits = 0
  Work0 = w
  Backup0 = b
  Runs = {c1, c2}
  Cmds <- BackupTwice
PROPERTY ChangeTakesEffect
CHECK_DEADLOCK FALSE
