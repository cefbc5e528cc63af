----------------------------- MODULE BoundedList -----------------------------
(***************************************************************************)
(* What TList promises: a sequence with a limit on its length.             *)
(***************************************************************************)
EXTENDS Integers, Sequences

CONSTANTS Values, NoValue

VARIABLES
  list,         \* the elements
  limit,        \* a push beyond it is refused; -1: none
  returned      \* what the last front() or back() returned

vars == <<list, limit, returned>>

Init == list = <<>> /\ limit = -1 /\ returned = NoValue

Room == limit = -1 \/ Len(list) < limit

Push == /\ Room
        /\ \E v \in Values : list' = Append(list, v) \/ list' = <<v>> \o list
        /\ UNCHANGED <<limit, returned>>

Pop == /\ list # <<>>
       /\ list' = Tail(list) \/ list' = SubSeq(list, 1, Len(list) - 1)
       /\ UNCHANGED <<limit, returned>>

SetLimit == limit' \in Int /\ UNCHANGED <<list, returned>>

(* Asked for an element of an empty list it may return anything.           *)
Read == /\ IF list = <<>> THEN returned' \in Values \cup {NoValue}
           ELSE returned' \in {list[1], list[Len(list)]}
        /\ UNCHANGED <<list, limit>>

Next == Push \/ Pop \/ SetLimit \/ Read

Spec == Init /\ [][Next]_vars
=============================================================================
