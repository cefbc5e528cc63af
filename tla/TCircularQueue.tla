---------------------------- MODULE TCircularQueue ----------------------------
(***************************************************************************)
(* The ring behind TMsgQueue (src/include/CommonUtil/TCircularQueue.h).    *)
(* _front names the cell before the first element, _rear the cell of the   *)
(* last one, and one cell more than the capacity tells full from empty.    *)
(*                                                                         *)
(* The class does not test its callers: pop_front and pop_back of an empty *)
(* ring and a resize below the number of elements corrupt it.  Next calls  *)
(* it as TMsgQueue does, which tests first.                                *)
(***************************************************************************)
EXTENDS Integers, Sequences

CONSTANTS Values,
          NoValue,      \* what a cell holds that nobody wrote
          Sizes,        \* capacities asked for
          MaxCapacity   \* bound: an unlimited ring grows up to here

ASSUME RingAssumption == /\ Sizes \subseteq Nat \ {0} /\ NoValue \notin Values
                         /\ MaxCapacity \in Nat

VARIABLES ring,         \* the fields of the class
          unlimited,    \* _unlimited
          returned      \* what the last pop returned

vars == <<ring, unlimited, returned>>

(* What reserve(size) leaves, called by the constructor or later.          *)
NewRing(size) ==
  [front |-> 0, rear |-> 0, max_size |-> size + 1, cur_size |-> 0,
   queue |-> [i \in 0..size |-> NoValue]]

size(r)     == r.cur_size
capacity(r) == r.max_size - 1
is_empty(r) == r.rear = r.front
is_full(r)  == (r.rear + 1) % r.max_size = r.front

get_at(r, i) == r.queue[(r.front + i + 1) % r.max_size]
get_first(r) == get_at(r, 0)                \* and front()
get_last(r)  == get_at(r, size(r) - 1)      \* and back()

-----------------------------------------------------------------------------
(* Each operation as a function of the ring.                               *)

pop_front(r) ==     \* returns First(r)
  [r EXCEPT !.cur_size = @ - 1, !.front = (@ + 1) % r.max_size]
First(r) == r.queue[(r.front + 1) % r.max_size]

pop_back(r) ==      \* returns Last(r)
  [r EXCEPT !.cur_size = @ - 1,
            !.rear = IF @ = 0 THEN r.max_size - 1 ELSE @ - 1]
Last(r) == r.queue[r.rear]

Mut_Unwrapped(r) == \* the part after the wrap begins one cell late
  LET offset == r.max_size - (r.front + 1)
  IN  [i \in 1..r.cur_size |->
         r.queue[IF r.front < r.rear \/ i <= offset THEN r.front + i
                 ELSE i - offset]]
(* The elements in order, as the two memcpy calls of resize() find them:   *)
(* those up to the end of the array, then those from its beginning.        *)
Unwrapped(r) ==
  LET offset == r.max_size - (r.front + 1)
  IN  [i \in 1..r.cur_size |->
         r.queue[IF r.front < r.rear \/ i <= offset THEN r.front + i
                 ELSE i - 1 - offset]]

resize(r, new_size) ==
  [front |-> 0, rear |-> r.cur_size, max_size |-> new_size + 1,
   cur_size |-> r.cur_size,
   queue |-> [i \in 0..new_size |-> IF i \in 1..r.cur_size
                                    THEN Unwrapped(r)[i] ELSE NoValue]]

MakeRoom(r) == IF ~is_full(r) THEN r
               ELSE IF unlimited THEN resize(r, capacity(r) * 2)
               ELSE pop_front(r)

Mut_push_back(r, v) ==  \* a full ring is not noticed
  LET rear == (r.rear + 1) % r.max_size
  IN  [r EXCEPT !.rear = rear, !.queue[rear] = v, !.cur_size = @ + 1]
push_back(r, v) ==
  LET s == MakeRoom(r)
      rear == (s.rear + 1) % s.max_size
  IN  [s EXCEPT !.rear = rear, !.queue[rear] = v, !.cur_size = @ + 1]

push_front(r, v) ==
  LET s == MakeRoom(r)
  IN  [s EXCEPT !.queue[s.front] = v, !.cur_size = @ + 1,
                !.front = IF @ = 0 THEN s.max_size - 1 ELSE @ - 1]

clear(r) == [r EXCEPT !.front = 0, !.rear = 0, !.cur_size = 0]

-----------------------------------------------------------------------------
Init == /\ \E new_size \in Sizes : ring = NewRing(new_size)
        /\ unlimited \in BOOLEAN
        /\ returned = NoValue

Push ==
  /\ unlimited /\ is_full(ring) => 2 * capacity(ring) <= MaxCapacity
  /\ \E v \in Values : \/ ring' = push_back(ring, v)
                       \/ ring' = push_front(ring, v)
  /\ UNCHANGED <<unlimited, returned>>

Pop ==
  /\ ~is_empty(ring)
  /\ \/ ring' = pop_front(ring) /\ returned' = First(ring)
     \/ ring' = pop_back(ring) /\ returned' = Last(ring)
  /\ UNCHANGED unlimited

(* get_first(), get_last() and their other names.                          *)
Peek == /\ ~is_empty(ring)
        /\ returned' \in {get_first(ring), get_last(ring)}
        /\ UNCHANGED <<ring, unlimited>>

(* reserve() forgets what the ring holds.                                  *)
Reserve == /\ \E new_size \in Sizes : ring' = NewRing(new_size)
           /\ UNCHANGED <<unlimited, returned>>

Resize == /\ \E new_size \in Sizes : /\ new_size >= size(ring)
                                     /\ ring' = resize(ring, new_size)
          /\ UNCHANGED <<unlimited, returned>>

Clear == ring' = clear(ring) /\ UNCHANGED <<unlimited, returned>>

SetUnlimited == unlimited' = TRUE /\ UNCHANGED <<ring, returned>>

Next == Push \/ Pop \/ Peek \/ Reserve \/ Resize \/ Clear \/ SetUnlimited

Spec == Init /\ [][Next]_vars

-----------------------------------------------------------------------------
TypeOK ==
  /\ ring.max_size \in Nat /\ ring.max_size > 1
  /\ ring.front \in 0..ring.max_size - 1 /\ ring.rear \in 0..ring.max_size - 1
  /\ ring.cur_size \in 0..ring.max_size - 1
  /\ ring.queue \in [0..ring.max_size - 1 -> Values \cup {NoValue}]
  /\ unlimited \in BOOLEAN /\ returned \in Values \cup {NoValue}

(* The class answers "empty?" and "full?" from the two indices and "how    *)
(* many?" from a counter, and its callers mix them: they agree after every *)
(* mixture of pushes and pops at both ends, discards and resizes.          *)
TestsAgree == /\ is_empty(ring) <=> size(ring) = 0
              /\ is_full(ring) <=> size(ring) = capacity(ring)

(* The ring is a deque with a capacity: whatever wrapped around, was       *)
(* discarded or was copied by resize(), pops and reads return what a       *)
(* sequence would.                                                         *)
Deque == INSTANCE BoundedDeque WITH
           deque    <- [i \in 1..size(ring) |-> get_at(ring, i - 1)],
           room     <- capacity(ring)
ImplementsBoundedDeque == Deque!Spec
=============================================================================
