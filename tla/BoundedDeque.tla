----------------------------- MODULE BoundedDeque -----------------------------
(* What TCircularQueue promises: a sequence with a capacity.  When it is   *)
(* full, a push grows it or replaces the first element.                    *)
EXTENDS Naturals, Sequences

CONSTANTS Values, NoValue

VARIABLES deque, room, unlimited, returned

vars == <<deque, room, unlimited, returned>>

Init == /\ deque = <<>> /\ room \in Nat \ {0}
        /\ unlimited \in BOOLEAN /\ returned = NoValue

(* The deque after room has been made for one more element.                *)
Full == Len(deque) = room
Kept == IF Full /\ ~unlimited THEN Tail(deque) ELSE deque
Grow == room' = IF Full /\ unlimited THEN 2 * room ELSE room

PushBack(v)  == deque' = Append(Kept, v) /\ Grow
PushFront(v) == deque' = <<v>> \o Kept /\ Grow

PopFront == /\ deque # <<>>
            /\ returned' = Head(deque) /\ deque' = Tail(deque)
PopBack  == /\ deque # <<>>
            /\ returned' = deque[Len(deque)]
            /\ deque' = SubSeq(deque, 1, Len(deque) - 1)

Resize == /\ room' \in Nat \ {0} /\ room' >= Len(deque)
          /\ UNCHANGED deque
Clear  == deque' = <<>> /\ UNCHANGED room
Renew  == deque' = <<>> /\ room' \in Nat \ {0}

Peek == deque # <<>> /\ returned' \in {Head(deque), deque[Len(deque)]}

Next ==
  \/ /\ \E v \in Values : PushBack(v) \/ PushFront(v)
     /\ UNCHANGED <<unlimited, returned>>
  \/ (PopFront \/ PopBack) /\ UNCHANGED <<room, unlimited>>
  \/ (Resize \/ Clear \/ Renew) /\ UNCHANGED <<unlimited, returned>>
  \/ Peek /\ UNCHANGED <<deque, room, unlimited>>
  \/ unlimited' = TRUE /\ UNCHANGED <<deque, room, returned>>

Spec == Init /\ [][Next]_vars
=============================================================================
