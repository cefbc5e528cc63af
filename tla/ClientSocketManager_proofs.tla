---------------------- MODULE ClientSocketManager_proofs ----------------------
(* Theorems about ClientSocketManager, for every size of the table.        *)
EXTENDS ClientSocketManager, FiniteSetTheorems, WellFoundedInduction, TLAPS

USE ManagerAssumption

-----------------------------------------------------------------------------
(* Lemmas about the operators.                                             *)

LEMMA SlotsFinite ==
  /\ IsFiniteSet(Slots)
  /\ \A S \in SUBSET Slots : IsFiniteSet(S) /\ Cardinality(S) \in Nat
<1>1. IsFiniteSet(Slots)
  BY FS_Interval DEF Slots
<1>2. QED
  BY <1>1, FS_Subset, FS_CardinalityType

(* A non-empty set of numbers has a least element.                         *)
LEMMA LeastNumber ==
  ASSUME NEW S \in SUBSET Nat, S # {}
  PROVE  \E i \in S : \A j \in S : i <= j
<1> DEFINE R == OpToRel(<, Nat)
<1>1. PICK i \in S : \A j \in S : <<j, i>> \notin R
  <2> HIDE DEF R
  <2>1. IsWellFoundedOn(R, Nat)
    BY NatLessThanWellFounded DEF R
  <2>2. QED
    BY <2>1, WFMin
<1>2. \A j \in S : ~(j < i)
  BY <1>1 DEF OpToRel
<1>3. QED
  BY <1>2

LEMMA LowestSlot ==
  ASSUME NEW S \in SUBSET Slots, S # {}
  PROVE  Lowest(S) \in S
<1>1. \E i \in S : \A j \in S : i <= j
  BY LeastNumber DEF Slots
<1>2. QED
  BY <1>1 DEF Lowest

LEMMA HighestSlot ==
  ASSUME NEW S \in SUBSET Slots, S # {}
  PROVE  Highest(S) \in S
<1> DEFINE Mirror == {MaxClientCnt - 1 - i : i \in S}
<1>1. Mirror \in SUBSET Nat /\ Mirror # {}
  BY DEF Slots
<1>2. PICK m \in Mirror : \A k \in Mirror : m <= k
  <2> HIDE DEF Mirror
  <2>1. QED
    BY <1>1, LeastNumber
<1>3. PICK i \in S : m = MaxClientCnt - 1 - i
  OBVIOUS
<1>4. \A j \in S : i >= j
  <2> TAKE j \in S
  <2>1. MaxClientCnt - 1 - j \in Mirror
    OBVIOUS
  <2>2. m <= MaxClientCnt - 1 - j
    BY <1>2, <2>1
  <2>3. i \in Nat /\ j \in Nat
    BY DEF Slots
  <2> HIDE DEF Mirror
  <2>4. QED
    BY <1>3, <2>2, <2>3
<1>5. QED
  BY <1>4 DEF Highest

(* What Delete deletes: a slot in use, or nothing.                         *)
LEMMA DeletedSlot ==
  ASSUME NEW fd_set, Delete(fd_set)
  PROVE  \E i \in InUse :
           /\ client_sock_list' = [client_sock_list EXCEPT ![i] = NoSock]
           /\ current_client_cnt' = current_client_cnt - 1
<1> DEFINE matches == {i \in InUse : client_sock_list[i] \in fd_set}
           i       == Highest(matches)
<1>1. matches # {}
  BY DEF Delete, get_client_sock_in, DefaultClientSock
<1>2. i \in InUse
  BY <1>1, HighestSlot DEF InUse
<1>3. i \in Slots /\ client_sock_list[i] # NoSock
  BY <1>2 DEF InUse, Free
<1>4. get_client_sock_in(fd_set) = [sock |-> client_sock_list[i], client_id |-> i]
  BY <1>1, <1>3 DEF get_client_sock_in, ClientSock
<1>5. QED
  BY <1>2, <1>3, <1>4 DEF Delete, delete_client_sock

(* What Add adds.                                                          *)
LEMMA AddTakesFreeSlot ==
  ASSUME NEW sock \in Socks, add_client_sock(sock), Free # {}
  PROVE  \E i \in Free :
           /\ client_sock_list' = [client_sock_list EXCEPT ![i] = sock]
           /\ current_client_cnt' = current_client_cnt + 1
BY LowestSlot DEF add_client_sock, AddedSlot, Free

-----------------------------------------------------------------------------
(* The count is the number of slots in use, so the overflow test of the    *)
(* select loop is exact; the invariant needs the types and nothing else.   *)
Counted == TypeOK /\ CountMatchesTable

LEMMA CountedAdd ==
  ASSUME Counted, NEW sock \in Socks, add_client_sock(sock)
  PROVE  Counted'
<1>1. CASE Free = {}
  BY <1>1 DEF add_client_sock, vars, Counted, TypeOK, CountMatchesTable,
              InUse, Free
<1>2. CASE Free # {}
  <2>1. PICK i \in Free :
          /\ client_sock_list' = [client_sock_list EXCEPT ![i] = sock]
          /\ current_client_cnt' = current_client_cnt + 1
    BY <1>2, AddTakesFreeSlot
  <2>2. i \in Slots /\ i \notin InUse
    BY DEF Free, InUse
  <2>3. InUse' = InUse \cup {i}
    BY <2>1, <2>2 DEF Counted, TypeOK, InUse, Free
  <2>4. IsFiniteSet(InUse)
    BY SlotsFinite DEF InUse
  <2>5. Cardinality(InUse') = Cardinality(InUse) + 1
    BY <2>2, <2>3, <2>4, FS_AddElement
  <2>6. QED
    BY <2>1, <2>2, <2>5 DEF Counted, TypeOK, CountMatchesTable
<1>3. QED
  BY <1>1, <1>2

LEMMA CountedDelete ==
  ASSUME Counted, NEW fd_set, Delete(fd_set)
  PROVE  Counted'
<1>1. PICK i \in InUse :
        /\ client_sock_list' = [client_sock_list EXCEPT ![i] = NoSock]
        /\ current_client_cnt' = current_client_cnt - 1
  BY DeletedSlot
<1>2. i \in Slots
  BY DEF InUse
<1>3. InUse' = InUse \ {i}
  BY <1>1, <1>2 DEF Counted, TypeOK, InUse, Free
<1>4. IsFiniteSet(InUse) /\ Cardinality(InUse) \in Nat
  BY SlotsFinite DEF InUse
<1>5. Cardinality(InUse') = Cardinality(InUse) - 1
  BY <1>1, <1>3, <1>4, FS_RemoveElement
<1>6. Cardinality(InUse) # 0
  BY <1>1, <1>4, FS_EmptySet
<1>7. QED
  BY <1>1, <1>2, <1>4, <1>5, <1>6 DEF Counted, TypeOK, CountMatchesTable

THEOREM CountedAlways == Spec => []Counted
<1>1. Init => Counted
  <2> SUFFICES ASSUME Init PROVE Counted
    OBVIOUS
  <2>1. InUse = {}
    BY DEF Init, InUse, Free
  <2>2. Cardinality(InUse) = 0
    BY <2>1, FS_EmptySet
  <2>3. QED
    BY <2>2 DEF Init, Counted, TypeOK, CountMatchesTable
<1>2. Counted /\ [Next]_vars => Counted'
  <2> SUFFICES ASSUME Counted, [Next]_vars PROVE Counted'
    OBVIOUS
  <2>1. ASSUME NEW sock \in Socks, Add(sock) PROVE Counted'
    BY <2>1, CountedAdd DEF Add
  <2>2. ASSUME NEW fd_set \in SUBSET Socks, Delete(fd_set) PROVE Counted'
    BY <2>2, CountedDelete
  <2>3. CASE UNCHANGED vars
    BY <2>3 DEF vars, Counted, TypeOK, CountMatchesTable, InUse, Free
  <2>4. QED
    BY <2>1, <2>2, <2>3 DEF Next
<1>3. QED
  BY <1>1, <1>2, PTL DEF Spec

(* current_client_cnt is the number of used slots.                         *)
THEOREM CountMatchesTableAlways == Spec => []CountMatchesTable
<1>1. Counted => CountMatchesTable
  BY DEF Counted
<1>2. QED
  BY <1>1, CountedAlways, PTL

(* A socket that passed the overflow test gets a slot of its own.          *)
THEOREM RoomForClientAlways == Spec => []RoomForClient
<1>1. Counted => RoomForClient
  <2> SUFFICES ASSUME Counted, current_client_cnt < MaxClientCnt, Free = {}
               PROVE  FALSE
    BY DEF RoomForClient
  <2>1. InUse = Slots
    BY DEF InUse
  <2>2. Cardinality(Slots) = MaxClientCnt
    BY FS_Interval DEF Slots
  <2>3. QED
    BY <2>1, <2>2 DEF Counted, CountMatchesTable
<1>2. QED
  BY <1>1, CountedAlways, PTL

(* No handle is in two slots.                                              *)
THEOREM SlotsDistinctAlways == Spec => []SlotsDistinct
<1>1. Init => SlotsDistinct
  BY DEF Init, SlotsDistinct, InUse, Free
<1>2. Counted /\ SlotsDistinct /\ [Next]_vars => SlotsDistinct'
  <2> SUFFICES ASSUME Counted, SlotsDistinct, [Next]_vars PROVE SlotsDistinct'
    OBVIOUS
  <2> USE DEF SlotsDistinct, InUse
  <2>1. ASSUME NEW sock \in Socks, Add(sock) PROVE SlotsDistinct'
    <3>1. CASE Free = {}
      BY <2>1, <3>1 DEF Add, add_client_sock, vars, Free
    <3>2. CASE Free # {}
      <4>1. PICK i \in Free :
              client_sock_list' = [client_sock_list EXCEPT ![i] = sock]
        BY <2>1, <3>2, AddTakesFreeSlot DEF Add
      <4>2. QED
        BY <2>1, <4>1 DEF Add, Free, Counted, TypeOK
    <3>3. QED
      BY <3>1, <3>2
  <2>2. ASSUME NEW fd_set \in SUBSET Socks, Delete(fd_set)
        PROVE  SlotsDistinct'
    <3>1. PICK i \in InUse :
            client_sock_list' = [client_sock_list EXCEPT ![i] = NoSock]
      BY <2>2, DeletedSlot
    <3>2. QED
      BY <3>1 DEF Free, Counted, TypeOK
  <2>3. CASE UNCHANGED vars
    BY <2>3 DEF vars, Free
  <2>4. QED
    BY <2>1, <2>2, <2>3 DEF Next
<1>3. QED
  BY <1>1, <1>2, CountedAlways, PTL DEF Spec

(* An id stays with its client until the client is deleted.                *)
THEOREM IdStableAlways == Spec => IdStable
<1>1. Counted /\ [Next]_vars =>
        [\A i \in InUse :
           client_sock_list'[i] \in {client_sock_list[i], NoSock}]_vars
  <2> SUFFICES ASSUME Counted, Next, NEW i \in InUse
               PROVE  client_sock_list'[i] \in {client_sock_list[i], NoSock}
    OBVIOUS
  <2>1. i \in Slots /\ i \notin Free
    BY DEF InUse
  <2>2. ASSUME NEW sock \in Socks, Add(sock)
        PROVE  client_sock_list'[i] = client_sock_list[i]
    <3>1. CASE Free = {}
      BY <2>2, <3>1 DEF Add, add_client_sock, vars
    <3>2. CASE Free # {}
      <4>1. PICK k \in Free :
              client_sock_list' = [client_sock_list EXCEPT ![k] = sock]
        BY <2>2, <3>2, AddTakesFreeSlot DEF Add
      <4>2. QED
        BY <2>1, <4>1 DEF Counted, TypeOK
    <3>3. QED
      BY <3>1, <3>2
  <2>3. ASSUME NEW fd_set \in SUBSET Socks, Delete(fd_set)
        PROVE  client_sock_list'[i] \in {client_sock_list[i], NoSock}
    <3>1. PICK k \in InUse :
            client_sock_list' = [client_sock_list EXCEPT ![k] = NoSock]
      BY <2>3, DeletedSlot
    <3>2. QED
      BY <2>1, <3>1 DEF Counted, TypeOK, InUse
  <2>4. QED
    BY <2>2, <2>3 DEF Next
<1>2. QED
  BY <1>1, CountedAlways, PTL DEF Spec, IdStable
=============================================================================
