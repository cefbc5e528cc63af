-------------------------- MODULE MCTameClientReceive --------------------------
(* An instance of TameClientReceive for TLC.  With three digits and a      *)
(* buffer of 3, a length of 2 (20 in the other order, 6) is refused        *)
(* although it fits, 3 (01) is let through; the payload of a refused       *)
(* packet then is taken for a length: 2 (20) lets 6 units through, which   *)
(* overrun the buffer, and 1 (10) 3 units.  An empty packet is not pushed. *)
EXTENDS TameClientReceive

MCPayloads == {<<>>, <<2, 1>>, <<1, 3, 2>>}
=============================================================================
