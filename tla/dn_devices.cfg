CONSTANTS
    n1 = n1
    n2 = n2
    Notifiers = {n1, n2}
    DevType <- MCDevType
    Events <- MCEvents
    MaxEvents = 2
    Faults = {"post", "window", "register", "event"}
SPECIFICATION FairSpec
INVARIANTS NotifierRefsExact
PROPERTIES StopReleases SystemAnswered EventReachesScript
CHECK_DEADLOCK FALSE
