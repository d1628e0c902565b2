---------------------------- MODULE MCDirMonitor ----------------------------
EXTENDS DirMonitor

CONSTANTS x, y

\* +x -x -y +y: the first pattern that matches includes x and excludes y
MCPatterns == { << [include |-> TRUE, names |-> {x}],
                   [include |-> FALSE, names |-> {x, y}],
                   [include |-> TRUE, names |-> {y}] >> }
=============================================================================
