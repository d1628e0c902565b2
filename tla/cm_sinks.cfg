CONSTANTS
    s1 = s1
    s2 = s2
    a1 = a1
    Servers = {s1, s2}
    Automation = {a1}
    MaxDepth = 2
    MaxLocks = 1
SPECIFICATION FairSpec
INVARIANTS SinkRefsExact
PROPERTIES ShutdownWhenIdle BindingsEnd
CHECK_DEADLOCK FALSE
