--------------------------- MODULE MCTameClientImpl ---------------------------
(* Instances of TameClientImpl for TLC.                                    *)
EXTENDS TameClientImpl, TLC

(* Sound: threads are only told apart by =.                                *)
ThreadSymmetry == Permutations(Threads)
=============================================================================
