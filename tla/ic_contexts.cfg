SPECIFICATION Spec
CONSTANTS
  Interps = {i1, i2, i3}
  i1 = i1
  i2 = i2
  i3 = i3
  t1 = t1
  t2 = t2
  Threads = {t1, t2}
  ThreadOf <- MCThreadOf
  Modules = {m}
  MaxHolders = 1
  Faults = {"init"}
SYMMETRY SharersSymmetry
INVARIANTS
  TlsOutlivesUsers
  DeletedWhenUnused
CHECK_DEADLOCK FALSE
