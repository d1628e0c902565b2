----------------------------- MODULE ByteStream -----------------------------
(***************************************************************************)
(* What each direction of a byte-mode pipe promises to the two ends of it: *)
(* the items (bytes or writes, numbered in the order in which they were    *)
(* produced) arrive once each, in order, with none left out in between.    *)
(***************************************************************************)
EXTENDS Integers, Sequences

VARIABLES produced, \* items 1..produced have been handed to the stream
          consumed  \* the items that have come out of it

Numbers(from, to) == [i \in 1 .. (to - from + 1) |-> from + i - 1]

Init == produced = 0 /\ consumed = <<>>

Produce == produced' = produced + 1 /\ UNCHANGED consumed

\* One call delivers a run of consecutive items, from the next one on.  An
\* item may be produced and delivered by the same synchronous call.
Consume ==
    /\ produced' \in {produced, produced + 1}
    /\ \E n \in (Len(consumed) + 1) .. produced' :
          consumed' = consumed \o Numbers(Len(consumed) + 1, n)

Next == Produce \/ Consume

Spec == Init /\ [][Next]_<<produced, consumed>>
=============================================================================
