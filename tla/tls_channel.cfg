SPECIFICATION Spec
CONSTANTS
  Makes = {"async", "server", "accept"}
  ReadSize = 1
  HalfClose = TRUE
  Faults = {"step", "verify"}
  MaxData = 2
  MaxParts = 1
  MaxWrites = 2
INVARIANTS
  AcceptOnce
PROPERTIES
  TlsStreams
  NegotiationEnds
  ReadTold
CHECK_DEADLOCK FALSE
