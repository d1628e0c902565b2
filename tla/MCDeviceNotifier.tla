-------------------------- MODULE MCDeviceNotifier --------------------------
(* A device handle and a class of interfaces are watched.                  *)
EXTENDS DeviceNotifier

CONSTANTS n1, n2

MCDevType == [n \in Notifiers |-> IF n = n1 THEN "handle" ELSE "interface"]
MCEvents == {[type |-> "interface", asks |-> TRUE], [type |-> "volume", asks |-> TRUE],
             [type |-> "any", asks |-> FALSE]}
=============================================================================
