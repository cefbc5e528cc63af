-------------------------------- MODULE TList --------------------------------
(***************************************************************************)
(* The doubly linked ring of src/include/CommonUtil/TList.h: a head node   *)
(* that carries no element, the nodes of the elements, and, in a build     *)
(* with UseMemoryManager, a pool of nodes that are not in use.  Pointers   *)
(* are functions on the nodes the memory has.  clear() and ~TList() go     *)
(* through the list one node at a time.                                    *)
(*                                                                         *)
(* An iterator is a node: its operators are functions of the ring.         *)
(***************************************************************************)
EXTENDS Integers, FiniteSets

CONSTANTS
  Nodes,        \* bound: the nodes the memory has
  Null,
  Values,
  NoValue,      \* what an element is that nobody wrote
  MaxUnused,    \* MAX_UNUSEDNODE_SIZE
  Limits,       \* what setMaxSize() is called with
  MaxOffset     \* bound: how far an iterator is moved at once

ASSUME ListAssumption ==
  /\ Null \notin Nodes /\ NoValue \notin Values
  /\ MaxUnused \in Nat \ {0} /\ Limits \subseteq Int /\ MaxOffset \in Nat

VARIABLES
  next, prev, owner, element,   \* SingleNode: next, prev, head and element
  allocated,    \* the nodes that new returned and delete has not been given
  head, list_size, max_size,
  unused,       \* unused_single_node_list, linked by next
  unused_size,  \* unused_single_node_list_size
  pooled,       \* is this a build with UseMemoryManager?
  doing,        \* what clear() or ~TList() is about to do
  returned      \* what the last front() or back() returned

links == <<next, prev, owner, element>>
heap  == <<links, allocated, unused, unused_size>>
vars  == <<heap, head, list_size, max_size, pooled, doing, returned>>

(* The node k steps from n along the pointers f.                           *)
Walk(f, n, k) ==
  LET walk[i \in 0..k] == IF i = 0 THEN n ELSE f[walk[i - 1]] IN walk[k]

Pool == {Walk(next, unused, i) : i \in 0..unused_size - 1}

(* The constructor: the pool is filled and the head taken from it.         *)
Init ==
  /\ pooled \in BOOLEAN
  /\ \E pool \in [1..MaxUnused -> Nodes], h \in Nodes :
       /\ \A i, j \in 1..MaxUnused : i # j => pool[i] # pool[j]
       /\ unused_size = IF pooled THEN MaxUnused - 1 ELSE 0
       /\ unused = IF unused_size = 0 THEN Null ELSE pool[unused_size]
       /\ pooled => h = pool[MaxUnused]
       /\ allocated = {h} \cup {pool[i] : i \in 1..unused_size}
       /\ head = h
       /\ next = [n \in Nodes |->
                   IF n = h THEN h
                   ELSE IF \E i \in 2..unused_size : n = pool[i]
                   THEN pool[(CHOOSE i \in 2..unused_size : n = pool[i]) - 1]
                   ELSE Null]
       /\ prev = [n \in Nodes |-> IF n = h THEN h ELSE Null]
       /\ owner = [n \in Nodes |-> IF n = h THEN h ELSE Null]
  /\ element = [n \in Nodes |-> NoValue]
  /\ list_size = 0 /\ max_size = -1
  /\ doing = "nothing" /\ returned = NoValue

-----------------------------------------------------------------------------
(* getSingleNode(): the first node of the pool, else one from new.         *)
getSingleNode(n) ==
  IF pooled /\ unused # Null
  THEN /\ n = unused /\ unused' = next[n] /\ unused_size' = unused_size - 1
       /\ UNCHANGED allocated
  ELSE /\ n \notin allocated /\ allocated' = allocated \cup {n}
       /\ UNCHANGED <<unused, unused_size>>

createSingleNode(e, n) ==
  /\ getSingleNode(n)
  /\ element' = [element EXCEPT ![n] = e] /\ owner' = [owner EXCEPT ![n] = head]

Mut_insert(where, n) ==     \* where->prev is not turned to the new node
  /\ next' = [next EXCEPT ![n] = where, ![prev[where]] = n]
  /\ prev' = [prev EXCEPT ![n] = prev[where]]
  /\ list_size' = list_size + 1
(* insert(): n becomes the node before where.                              *)
insert(where, n) ==
  /\ next' = [next EXCEPT ![n] = where, ![prev[where]] = n]
  /\ prev' = [prev EXCEPT ![n] = prev[where], ![where] = n]
  /\ list_size' = list_size + 1

Mut_Room == max_size = -1 \/ list_size <= max_size
Room     == max_size = -1 \/ list_size < max_size

(* push_back() inserts before the head, push_front() before the first.     *)
Push(e) ==
  /\ doing = "nothing" /\ Room
  /\ \E n \in Nodes :
       /\ createSingleNode(e, n)
       /\ insert(next[prev[head]], n) \/ insert(next[head], n)
  /\ UNCHANGED <<head, max_size, pooled, doing, returned>>

Mut_putSingleNode(n) ==     \* a node too many for the pool is dropped
  IF pooled /\ unused_size <= MaxUnused
  THEN /\ unused' = n /\ unused_size' = unused_size + 1
       /\ UNCHANGED allocated
  ELSE UNCHANGED <<unused, unused_size, allocated>>
(* putSingleNode(): to the pool, which may hold one node more than it      *)
(* began with, or back to the memory.                                      *)
putSingleNode(n) ==
  IF pooled /\ unused_size <= MaxUnused
  THEN /\ unused' = n /\ unused_size' = unused_size + 1
       /\ UNCHANGED allocated
  ELSE /\ allocated' = allocated \ {n}
       /\ UNCHANGED <<unused, unused_size>>

(* deleteSingleNode() clears the node; nx is what next is without n.       *)
deleteSingleNode(n, nx, pv) ==
  /\ putSingleNode(n)
  /\ next' = [nx EXCEPT ![n] = IF unused' = n THEN unused ELSE Null]
  /\ prev' = [pv EXCEPT ![n] = Null]
  /\ owner' = [owner EXCEPT ![n] = Null]

(* pop_front() and pop_back(); an empty list is left as it is.             *)
erase(n) ==
  /\ list_size > 0 /\ list_size' = list_size - 1
  /\ deleteSingleNode(n, [next EXCEPT ![prev[n]] = next[n]],
                         [prev EXCEPT ![next[n]] = prev[n]])
  /\ UNCHANGED element

Pop == /\ doing = "nothing" /\ (erase(next[head]) \/ erase(prev[head]))
       /\ UNCHANGED <<element, head, max_size, pooled, doing, returned>>

ElementOf(n) == IF n = head THEN Values \cup {NoValue} ELSE {element[n]}

(* front() and back(); of an empty list a variable nobody has set.         *)
Read == /\ doing = "nothing"
        /\ \E n \in {next[head], prev[head]} : returned' \in ElementOf(n)
        /\ UNCHANGED <<heap, head, list_size, max_size, pooled, doing>>

setMaxSize ==
  /\ doing = "nothing" /\ max_size' \in Limits
  /\ UNCHANGED <<heap, head, list_size, pooled, doing, returned>>

-----------------------------------------------------------------------------
(* clear() is the loop of deleteList(), which ~TList() runs first.         *)
Begin == /\ doing = "nothing" /\ doing' \in {"clear", "destroy"}
         /\ UNCHANGED <<heap, head, list_size, max_size, pooled, returned>>

deleteList ==
  /\ doing \in {"clear", "destroy"}
  /\ IF list_size > 0
     THEN erase(next[head]) /\ UNCHANGED doing
     ELSE /\ doing' = IF doing = "clear" THEN "nothing" ELSE "delete head"
          /\ UNCHANGED <<heap, list_size>>
  /\ UNCHANGED <<element, head, max_size, pooled, returned>>

(* ~TList() gives the head back, then the pool to the memory.              *)
deleteHead ==
  /\ doing = "delete head" /\ doing' = "delete pool"
  /\ deleteSingleNode(head, next, prev)
  /\ UNCHANGED <<element, head, list_size, max_size, pooled, returned>>

deleteUnusedNodeList ==
  /\ doing = "delete pool"
  /\ IF unused # Null
     THEN /\ allocated' = allocated \ {unused} /\ unused' = next[unused]
          /\ UNCHANGED <<unused_size, doing>>
     ELSE /\ unused_size' = 0 /\ doing' = "nothing more"
          /\ UNCHANGED <<allocated, unused>>
  /\ UNCHANGED <<links, head, list_size, max_size, pooled, returned>>

Next == \/ \E e \in Values : Push(e)
        \/ Pop \/ Read \/ setMaxSize
        \/ Begin \/ deleteList \/ deleteHead \/ deleteUnusedNodeList

Spec == Init /\ [][Next]_vars
-----------------------------------------------------------------------------
(* The operators of TIterator, which end the process (Null) when they come *)
(* upon the head: `+' and ++it look at every node on the way, and at the   *)
(* last; `+=' and it++ only at those they leave.  `-' and --it look at     *)
(* every node they come to; `-=' and it-- also at the first.               *)
AtHead(n) == n = owner[n]

Sent(f, n, k, seen) ==
  IF \E i \in seen : AtHead(Walk(f, n, i)) THEN Null ELSE Walk(f, n, k)

Mut_Plus(n, k)    == Sent(next, n, k, {0, k})   \* only both ends are looked at
Plus(n, k)        == Sent(next, n, k, 0..k)
PlusAssign(n, k)  == Sent(next, n, k, 0..k - 1)
Minus(n, k)       == Sent(prev, n, k, 1..k \cup {k})
MinusAssign(n, k) == Sent(prev, n, k, IF k = 0 THEN {} ELSE 0..k)

-----------------------------------------------------------------------------
(* Properties.                                                             *)

Alive == doing \notin {"delete pool", "nothing more"}

(* The nodes s have the positions 1 to list_size, the head those around.   *)
At(s, i) == IF i \in 1..list_size THEN s[i] ELSE head

(* The nodes s, in their order, make a ring with the head in both          *)
(* directions.                                                             *)
Represents(s) ==
  /\ \A i \in 0..list_size : /\ next[At(s, i)] = At(s, i + 1)
                             /\ prev[At(s, i + 1)] = At(s, i)
  /\ \A i \in 0..list_size : /\ At(s, i) \in allocated /\ owner[At(s, i)] = head
                             /\ i # 0 => At(s, i) # head
  /\ \A i, j \in 1..list_size : s[i] = s[j] => i = j

(* Whatever is pushed, popped and taken from or given to the pool, the     *)
(* pointers are one ring of as many distinct nodes as list_size counts,    *)
(* the same in both directions.                                            *)
RingIntact == Alive => \E s \in [1..list_size -> Nodes] : Represents(s)

Order == [i \in 1..list_size |-> Walk(next, next[head], i - 1)]

(* A node is in the list or in the pool, never in both, and none that is   *)
(* in neither is kept from the memory: after the destructor there is no    *)
(* node left.                                                              *)
NoNodeLost ==
  LET ring == {head} \cup {Order[i] : i \in 1..list_size}
  IN  /\ Alive => /\ allocated = ring \cup Pool /\ ring \cap Pool = {}
                  /\ Cardinality(Pool) = unused_size
                  /\ Walk(next, unused, unused_size) = Null
      /\ doing = "nothing more" => allocated = {}

(* From every position of a list, the one after its last element too, an   *)
(* iterator gets where arithmetic on the positions says, and the process   *)
(* ends when there is no element there; `-=', unlike `-', cannot leave the *)
(* position after the last element.                                        *)
IteratorsCount ==
  LET size == list_size
      Sends(ok, i) == IF ok THEN At(Order, i) ELSE Null
  IN  Alive => \A i \in 1..size + 1, k \in 0..MaxOffset :
        /\ Plus(At(Order, i), k)        = Sends(i + k <= size, i + k)
        /\ PlusAssign(At(Order, i), k)  = Sends(i + k <= size + 1, i + k)
        /\ Minus(At(Order, i), k)       = Sends(i - k \in 1..size, i - k)
        /\ MinusAssign(At(Order, i), k) =
             Sends(k = 0 \/ (i <= size /\ i - k > 0), i - k)

(* The list is a sequence: the ends that push_back(), push_front(),        *)
(* pop_front(), pop_back(), front() and back() work on are its ends,       *)
(* setMaxSize() limits the pushes, clear() removes from the front.         *)
List == INSTANCE BoundedList WITH
          list  <- [i \in 1..list_size |-> element[Order[i]]],
          limit <- max_size
ImplementsBoundedList == List!Spec
=============================================================================
