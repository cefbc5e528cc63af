------------------------------- MODULE MCTList -------------------------------
(* An instance of TList for TLC.                                           *)
EXTENDS TList, TLC

(* Sound: nodes are only told apart by =.                                  *)
NodeSymmetry == Permutations(Nodes)
=============================================================================
