--------------------------- MODULE MCProcPktThread ---------------------------
(* Instances of ProcPktThread for TLC: payload sizes in the unit of an id. *)
EXTENDS ProcPktThread

FitPayloads == {"small", "large"}
FitSizes    == [small |-> 1, large |-> 3]

AnyPayloads == {"small", "huge"}    \* huge: more than the queue can hold
AnySizes    == [small |-> 2, huge |-> 6]
=============================================================================
