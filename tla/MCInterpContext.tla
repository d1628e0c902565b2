--------------------------- MODULE MCInterpContext ---------------------------
(* Instances of InterpContext for TLC: two interpreters share a thread, the    *)
(* third has one of its own.                                                  *)
EXTENDS InterpContext, TLC

CONSTANTS i1, i2, i3, t1, t2

MCThreadOf == [i \in Interps |-> IF i = i3 THEN t2 ELSE t1]

SharersSymmetry == Permutations({i1, i2})
=============================================================================
