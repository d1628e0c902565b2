------------------------------ MODULE AsyncCall ------------------------------
(***************************************************************************)
(* What the callback framework promises to the threads that use it: calls  *)
(* begin one at a time in the order in which they were posted, none begins *)
(* twice, and whoever waits for one is answered only when it has finished, *)
(* or gives up.                                                            *)
(***************************************************************************)
EXTENDS Naturals, Sequences

CONSTANT Calls

VARIABLES posted,   \* the calls posted, in order
          begun,    \* those that have begun, in the order they did
          finished, \* those that have run to their end
          reply     \* reply[c]: what a caller has got: "none", "answer", "gaveup"

vars == <<posted, begun, finished, reply>>

Init == /\ posted = <<>> /\ begun = <<>> /\ finished = {}
        /\ reply = [c \in Calls |-> "none"]

Post(c) ==
    /\ \A i \in 1 .. Len(posted) : posted[i] # c
    /\ posted' = Append(posted, c)
    /\ UNCHANGED <<begun, finished, reply>>

Begin ==
    /\ Len(begun) < Len(posted)
    /\ begun' = Append(begun, posted[Len(begun) + 1])
    /\ UNCHANGED <<posted, finished, reply>>

Finish(c) ==
    /\ \E i \in 1 .. Len(begun) : begun[i] = c
    /\ c \notin finished
    /\ finished' = finished \union {c}
    /\ UNCHANGED <<posted, begun, reply>>

Reply(c) ==
    /\ reply[c] = "none"
    /\ \/ c \in finished /\ reply' = [reply EXCEPT ![c] = "answer"]
       \/ reply' = [reply EXCEPT ![c] = "gaveup"]
    /\ UNCHANGED <<posted, begun, finished>>

Next == Begin \/ \E c \in Calls : Post(c) \/ Finish(c) \/ Reply(c)

Spec == Init /\ [][Next]_vars
=============================================================================
