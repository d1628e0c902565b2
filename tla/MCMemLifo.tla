----------------------------- MODULE MCMemLifo ------------------------------
(* Instances of MemLifo for TLC.  Which chunk the heap hands out makes no     *)
(* difference to the pool.                                                    *)
EXTENDS MemLifo, TLC

ChunkSymmetry == Permutations(Chunks)
=============================================================================
