SPECIFICATION FairSpec
CONSTANTS
  Threads = {t1}
  Roles = {"client", "server"}
  ConnectResults = {"connected", "pending", "error", "unwaited"}
  WriteResults = {"done", "pending"}
  Masks <- ReadMasks
  Modes = {"blocking", "nonblocking"}
  Faults = {"gone", "slow"}
  MaxBytes = 1
  MaxWrites = 1
  BufSz = 2
  MaxCallbacks = 1
PROPERTIES
  CloseEnds
  ReadableTold
  ConnectSeen
  ThreadSleeps
CHECK_DEADLOCK FALSE
