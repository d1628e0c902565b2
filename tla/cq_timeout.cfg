SPECIFICATION Spec
CONSTANTS
  Callbacks = {c1, c2}
  Devices = {dev}
  Waits = {}
  Consoles = {}
  Timeouts = {TRUE}
  Faults = {}
INVARIANTS
  TimedOutReleased
CHECK_DEADLOCK FALSE
