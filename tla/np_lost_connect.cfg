SPECIFICATION FairSpec
CONSTANTS
  Threads = {t1}
  Roles = {"server"}
  ConnectResults = {"pending"}
  WriteResults = {"pending"}
  Masks <- NoMasks
  Modes = {"blocking", "nonblocking"}
  Faults = {}
  MaxBytes = 0
  MaxWrites = 0
  BufSz = 2
  MaxCallbacks = 1
PROPERTIES
  AcceptSeen
CHECK_DEADLOCK FALSE
