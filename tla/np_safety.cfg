SPECIFICATION Spec
CONSTANTS
  Threads = {t1, t2}
  Roles = {"client", "server"}
  ConnectResults = {"connected", "pending", "error", "unwaited"}
  WriteResults = {"done", "pending"}
  Masks <- AllMasks
  Modes = {"blocking", "nonblocking"}
  Faults = {"create", "gone", "register", "slow"}
  MaxBytes = 2
  MaxWrites = 2
  BufSz = 2
  MaxCallbacks = 2
VIEW SafetyView
SYMMETRY ThreadSymmetry
INVARIANTS
  RefCountExact
  CallbackHasChannel
  BytesAccountedFor
  KernelHasOverlapped
PROPERTIES
  ByteStreams
CHECK_DEADLOCK FALSE
