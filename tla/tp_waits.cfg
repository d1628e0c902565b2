SPECIFICATION FairWaitSpec
CONSTANTS
  Callbacks = {c1, c2}
  Devices = {dev}
  Waits = {r1}
  Consoles = {}
  Timeouts = {TRUE}
  Faults = {"event", "exit"}
  Handles = {h1}
  HeapGarbage = {0, 1}
  PoolFaults = {"register"}
INVARIANTS
  CallbackRefsExact
  ContextRefsExact
  PoolHasRegistration
PROPERTIES
  ServesCalls
  QueuedRuns
  EventTold
CHECK_DEADLOCK FALSE
