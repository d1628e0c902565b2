SPECIFICATION FairSpec
CONSTANTS
  Monitors = {m1, m2}
  Handles = {h1, h2}
  Buffers = {b1, b2, b3, b4}
  Names = {x, y}
  x = x
  y = y
  PatternLists <- MCPatterns
  MaxChanges = 2
  Faults = {"create", "event", "wait", "read", "lost", "overflow", "slow"}
INVARIANTS
  MonitorRefsExact
  BufferHasOneOwner
  ToldInOrder
PROPERTIES
  ChangeTold
CHECK_DEADLOCK FALSE
