--------------------------- MODULE MCTameServerImpl ---------------------------
(* An instance of TameServerImpl for TLC.                                    *)
EXTENDS TameServerImpl, TLC

(* Sound for the safety properties: connections are only told apart by =.  *)
ConnSymmetry == Permutations(Conns)
=============================================================================
