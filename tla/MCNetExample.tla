----------------------------- MODULE MCNetExample -----------------------------
(* An instance of NetExample for TLC.                                      *)
EXTENDS NetExample

CONSTANTS b1, b2

MCClient2 == <<b1, b2>>
=============================================================================
