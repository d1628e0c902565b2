SPECIFICATION FairSpec
CONSTANTS
  Interps = {i1}
  Services = {s1, s2}
  MaxControls = 4
  MaxUpdates = 1
  MaxCheckpoint = 3
  Faults = {"spec", "thread", "handler"}
INVARIANTS
  PendingReported
  ScmKnows
PROPERTIES
  NoStaleAnswer
  PendingEnds
CHECK_DEADLOCK FALSE
