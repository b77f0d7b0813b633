SPECIFICATION FairSpec
CONSTANTS
  p1 = p1  p2 = p2
  Procs = {p1, p2}
  Inodes = {i1, i2, i3, i4}
  None = None
  Symlink = Symlink
  Size = 3
  Machines <- MCMachines
INVARIANTS
  CachedIntact
PROPERTIES
  EveryRunEnds
  EventuallyCached
