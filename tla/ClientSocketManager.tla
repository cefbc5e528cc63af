------------------------- MODULE ClientSocketManager -------------------------
(***************************************************************************)
(* The server's table of client sockets                                    *)
(* (src/tamenut_net/ClientSocketManager.cpp): a fixed number of slots,     *)
(* whose index is the client id the application sees.                      *)
(*                                                                         *)
(* The operations are written for any caller.  Next calls them as the only *)
(* caller does, the select loop of TameServerImpl::run: it adds a socket   *)
(* after comparing the count with the number of slots, and deletes a       *)
(* ClientSock it has just looked up in a set of descriptors.               *)
(***************************************************************************)
EXTENDS Naturals, FiniteSets

CONSTANTS Socks,          \* socket handles the kernel can return
          NoSock,         \* SOCKET_ERROR in the _sock of a free slot
          MaxClientCnt    \* _max_client_cnt, the number of slots

ASSUME ManagerAssumption == MaxClientCnt \in Nat \ {0} /\ NoSock \notin Socks

VARIABLES client_sock_list,     \* the _sock of every slot
          current_client_cnt    \* _current_client_cnt

vars == <<client_sock_list, current_client_cnt>>

Slots == 0..MaxClientCnt - 1

Mut_ClientSock(i) ==    \* _client_id is not set
  [sock |-> client_sock_list[i], client_id |-> 0]
(* A ClientSock without its address.  A slot holds its own index in        *)
(* _client_id while it is used and 0 after init().                         *)
ClientSock(i) ==
  [sock      |-> client_sock_list[i],
   client_id |-> IF client_sock_list[i] = NoSock THEN 0 ELSE i]
DefaultClientSock == [sock |-> NoSock, client_id |-> 0]

Free  == {i \in Slots : client_sock_list[i] = NoSock}
InUse == Slots \ Free

TypeOK == /\ client_sock_list \in [Slots -> Socks \cup {NoSock}]
          /\ current_client_cnt \in Nat

Init == /\ client_sock_list = [i \in Slots |-> NoSock]
        /\ current_client_cnt = 0

-----------------------------------------------------------------------------
Lowest(S) == CHOOSE i \in S : \A j \in S : i <= j
Highest(S) == CHOOSE i \in S : \A j \in S : i >= j

Mut_AddedSlot == Lowest(Slots)      \* used slots are not skipped
(* The slot add_client_sock takes when there is one.                       *)
AddedSlot == Lowest(Free)

(* What add_client_sock returns: 0 is also the answer of a full table.     *)
AddedId == IF Free = {} THEN 0 ELSE AddedSlot

Mut_add_client_sock(sock) ==    \* no break after the first free slot
  /\ client_sock_list' = [i \in Slots |-> IF i \in Free THEN sock
                                          ELSE client_sock_list[i]]
  /\ current_client_cnt' = current_client_cnt + Cardinality(Free)
add_client_sock(sock) ==
  IF Free = {}
  THEN UNCHANGED vars
  ELSE /\ client_sock_list' = [client_sock_list EXCEPT ![AddedSlot] = sock]
       /\ current_client_cnt' = current_client_cnt + 1

get_client_sock(client_id) ==
  IF client_id \in Slots THEN ClientSock(client_id) ELSE DefaultClientSock

(* The overload for an fd_set: the loop has no break, the last match wins. *)
get_client_sock_in(fd_set) ==
  LET matches == {i \in InUse : client_sock_list[i] \in fd_set}
  IN  IF matches = {} THEN DefaultClientSock ELSE ClientSock(Highest(matches))

Mut_delete_client_sock(c_sock) ==   \* the slot is not cleared
  /\ current_client_cnt' = current_client_cnt - 1
  /\ UNCHANGED client_sock_list
(* Whatever the slot named by c_sock holds by now is cleared.  The count   *)
(* is unsigned; CountMatchesTable says that it is not 0 here.  (The        *)
(* closesocket call belongs to the kernel, see TameServerImpl.)            *)
delete_client_sock(c_sock) ==
  IF c_sock.client_id \in Slots
  THEN /\ client_sock_list' =
            [client_sock_list EXCEPT ![c_sock.client_id] = NoSock]
       /\ current_client_cnt' = current_client_cnt - 1
  ELSE UNCHANGED vars

-----------------------------------------------------------------------------
(* accept() has returned a handle that is not in use.                      *)
Add(sock) == /\ current_client_cnt < MaxClientCnt
             /\ \A i \in Slots : client_sock_list[i] # sock
             /\ add_client_sock(sock)

Mut_Delete(fd_set) ==           \* no test that a client was found
  delete_client_sock(get_client_sock_in(fd_set))
(* A read on the socket found in fd_set failed.                            *)
Delete(fd_set) ==
  LET c_sock == get_client_sock_in(fd_set)
  IN  c_sock.sock # NoSock /\ delete_client_sock(c_sock)

Next == \/ \E sock \in Socks : Add(sock)
        \/ \E fd_set \in SUBSET Socks : Delete(fd_set)

Spec == Init /\ [][Next]_vars

-----------------------------------------------------------------------------
(* The count the overflow test of the select loop reads is the number of   *)
(* used slots, whatever was added and deleted before.                      *)
CountMatchesTable == current_client_cnt = Cardinality(InUse)

(* A socket that passed the overflow test finds a free slot, so the 0 that *)
(* add_client_sock returns for a full table is never taken for an id.      *)
RoomForClient == current_client_cnt < MaxClientCnt => Free # {}

(* No handle is in two slots: deleting a client forgets its handle.        *)
SlotsDistinct ==
  \A i, j \in InUse : client_sock_list[i] = client_sock_list[j] => i = j

(* A client keeps its id, and nobody else gets it, until it is deleted.    *)
IdStable ==
  [][\A i \in InUse :
       client_sock_list'[i] \in {client_sock_list[i], NoSock}]_vars
=============================================================================
