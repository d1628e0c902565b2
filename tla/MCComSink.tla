------------------------------ MODULE MCComSink ------------------------------
(* Two structures: sinks of one object, or objects of clients.             *)
EXTENDS ComSink

CONSTANTS s1, s2, a1
=============================================================================
