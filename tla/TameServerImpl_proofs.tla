------------------------ MODULE TameServerImpl_proofs ------------------------
(* Theorems about the server, for any number of clients, slots, packets    *)
(* and lengths: what the select loop does to the table and to the          *)
(* descriptors it watches, and how ids reach on_message.  What the table   *)
(* and the packet queue do is proved in modules of their own: the loop is  *)
(* shown to use them as they assume, and their theorems are instantiated.  *)
(*                                                                         *)
(* The second part is about the example (NetExample), in which this server *)
(* and a client meet: what is logged is what was sent.                     *)
EXTENDS NetExample, FiniteSetTheorems, SequenceTheorems, TLAPS

USE ServerAssumption DEF ServerAssumption

(* The lemmas about the table.                                             *)
Table == INSTANCE ClientSocketManager_proofs WITH
           Socks <- Conns, MaxClientCnt <- MaxSockNum

(* What ClientSocketManager assumes of its constants is true of these.     *)
LEMMA TableAssumed == Table!ManagerAssumption
BY DEF Table!ManagerAssumption

(* The lemmas about the packet queue.                                      *)
Queue == INSTANCE ProcPktThread_proofs WITH
           ClientIds <- 0..MaxSockNum - 1,
           PayloadSize <- [p \in Payloads |-> p.len],
           pc <- proc_pc

(* What ProcPktThread assumes of its constants is true of these.           *)
LEMMA QueueAssumed == Queue!ProcAssumption
BY DEF Queue!ProcAssumption, Payloads

-----------------------------------------------------------------------------
(* The table: its count is right and no connection is in it twice.         *)
TableOK ==
  /\ client_sock_list \in [Mgr!Slots -> Conns \cup {NoSock}]
  /\ current_client_cnt = Cardinality(Mgr!InUse)
  /\ \A i, j \in Mgr!InUse : client_sock_list[i] = client_sock_list[j] => i = j

(* What the kernel knows of a connection whose socket is open.             *)
Known == {"open", "closed", "reset"}

(* A connection waits in the backlog once, and not when it is registered.  *)
BacklogOK ==
  /\ backlog \in Seq(Conns)
  /\ \A i \in 1..Len(backlog) : /\ backlog[i] \notin Registered
                                /\ peer[backlog[i]] \in Known
  /\ \A i, j \in 1..Len(backlog) : backlog[i] = backlog[j] => i = j

RegisteredOK == /\ peer \in [Conns -> Known \cup {"new", "gone"}]
                /\ \A c \in Registered : peer[c] \in Known

(* accept() has a connection to return; the client that is read is in the  *)
(* table, under the id that client_sock says.                              *)
LoopOK ==
  /\ select_pc = "accept" => backlog # <<>>
  /\ select_pc \in {"recv_len", "recv_body"} =>
       \E i \in Mgr!InUse :
         client_sock = [sock |-> client_sock_list[i], client_id |-> i]

WatchOK == MaxSockNum < FdSetSize => read_socks = {Listener} \cup Registered

-----------------------------------------------------------------------------
(* There are as many slots as the table has, so few are in use.            *)
LEMMA InUseFinite ==
  /\ Mgr!InUse \subseteq Mgr!Slots
  /\ IsFiniteSet(Mgr!InUse) /\ Cardinality(Mgr!InUse) \in Nat
  /\ IsFiniteSet(Mgr!Slots) /\ Cardinality(Mgr!Slots) = MaxSockNum
<1>1. IsFiniteSet(Mgr!Slots) /\ Cardinality(Mgr!Slots) = MaxSockNum
  BY FS_Interval DEF Mgr!Slots
<1>2. Mgr!InUse \subseteq Mgr!Slots
  BY DEF Mgr!InUse
<1>3. QED
  BY <1>1, <1>2, FS_Subset, FS_CardinalityType

(* The select thread never watches more than the listener and a socket for *)
(* each slot in use.                                                       *)
LEMMA RegisteredFew ==
  ASSUME TableOK
  PROVE  /\ IsFiniteSet({Listener} \cup Registered)
         /\ Cardinality({Listener} \cup Registered) <= current_client_cnt + 1
         /\ Cardinality({Listener} \cup Registered) \in Nat
<1> DEFINE f == [i \in Mgr!InUse |-> client_sock_list[i]]
           Img == {f[i] : i \in Mgr!InUse}
<1>1. Img = Registered
  BY DEF Registered
<1>2. f \in [Mgr!InUse -> Registered]
  BY DEF Registered
<1>3. IsFiniteSet(Registered) /\ Cardinality(Registered) <= Cardinality(Mgr!InUse)
      /\ Cardinality(Registered) \in Nat
  <2>1. f \in Surjection(Mgr!InUse, Registered)
    BY <1>1, <1>2 DEF Surjection
  <2> HIDE DEF f
  <2>2. IsFiniteSet(Registered) /\ Cardinality(Registered) <= Cardinality(Mgr!InUse)
    BY <2>1, InUseFinite, FS_Surjection
  <2>3. QED
    BY <2>2, FS_CardinalityType
<1>4. /\ IsFiniteSet({Listener} \cup Registered)
      /\ \/ Cardinality({Listener} \cup Registered) = Cardinality(Registered)
         \/ Cardinality({Listener} \cup Registered) = Cardinality(Registered) + 1
  <2>1. {Listener} \cup Registered = Registered \cup {Listener}
    OBVIOUS
  <2>2. QED
    BY <1>3, <2>1, FS_AddElement
<1>5. QED
  BY <1>3, <1>4, InUseFinite DEF TableOK

(* A free slot is taken while the overflow test passes.                    *)
LEMMA AddedIdFree ==
  ASSUME TableOK, current_client_cnt < MaxSockNum
  PROVE  /\ Mgr!Free # {} /\ Mgr!AddedId = Mgr!AddedSlot
         /\ Mgr!AddedId \in Mgr!Free
<1>1. Mgr!Free # {}
  <2> SUFFICES ASSUME Mgr!Free = {} PROVE FALSE
    OBVIOUS
  <2>1. Mgr!InUse = Mgr!Slots
    BY DEF Mgr!InUse
  <2>2. QED
    BY <2>1, InUseFinite DEF TableOK
<1>2. Mgr!Free \in SUBSET Table!Slots
  BY DEF Mgr!Free, Mgr!Slots, Table!Slots
<1>3. Table!Lowest(Mgr!Free) \in Mgr!Free
  BY <1>1, <1>2, TableAssumed, Table!LowestSlot
<1>4. QED
  BY <1>1, <1>3 DEF Mgr!AddedId, Mgr!AddedSlot, Mgr!Lowest, Table!Lowest

(* A socket that passed the overflow test enters the table as Mgr assumes. *)
LEMMA AddStep ==
  ASSUME TableOK, NEW conn \in Conns, conn \notin Registered,
         current_client_cnt < MaxSockNum, Mgr!add_client_sock(conn)
  PROVE  /\ TableOK' /\ Registered' = Registered \cup {conn} /\ Mgr!Next
<1> DEFINE i == Mgr!AddedId
<1>1. i \in Mgr!Free
  BY AddedIdFree
<1>2. /\ client_sock_list' = [client_sock_list EXCEPT ![i] = conn]
      /\ current_client_cnt' = current_client_cnt + 1
  BY AddedIdFree DEF Mgr!add_client_sock
<1> HIDE DEF i
<1>3. i \in Mgr!Slots /\ i \notin Mgr!InUse /\ client_sock_list[i] = NoSock
  BY <1>1 DEF Mgr!Free, Mgr!InUse
<1>4. Mgr!InUse' = Mgr!InUse \cup {i}
  BY <1>2, <1>3 DEF TableOK, Mgr!InUse, Mgr!Free
<1>5. Cardinality(Mgr!InUse') = Cardinality(Mgr!InUse) + 1
  BY <1>3, <1>4, InUseFinite, FS_AddElement
<1>6. \A j \in Mgr!InUse : client_sock_list'[j] = client_sock_list[j]
                           /\ client_sock_list[j] # conn
  BY <1>2, <1>3 DEF TableOK, Mgr!InUse, Registered
<1>7. client_sock_list'[i] = conn
  BY <1>2, <1>3 DEF TableOK
<1>8. TableOK'
  <2>1. client_sock_list' \in [Mgr!Slots -> Conns \cup {NoSock}]
    BY <1>2 DEF TableOK
  <2>2. current_client_cnt' = Cardinality(Mgr!InUse')
    BY <1>2, <1>5 DEF TableOK
  <2>3. \A j, k \in Mgr!InUse' : client_sock_list'[j] = client_sock_list'[k] => j = k
    BY <1>4, <1>6, <1>7 DEF TableOK
  <2>4. QED
    BY <2>1, <2>2, <2>3 DEF TableOK, Mgr!Slots
<1>9. Registered' = Registered \cup {conn}
  BY <1>4, <1>6, <1>7 DEF Registered
<1>10. \A j \in Mgr!Slots : client_sock_list[j] # conn
  BY DEF Registered, Mgr!InUse, Mgr!Free
<1>11. QED
  BY <1>8, <1>9, <1>10 DEF Mgr!Next, Mgr!Add

(* The client that was looked up leaves the table as Mgr assumes.          *)
LEMMA DropStep ==
  ASSUME TableOK, NEW i \in Mgr!InUse,
         Mgr!delete_client_sock([sock |-> client_sock_list[i], client_id |-> i])
  PROVE  /\ TableOK' /\ Registered' = Registered \ {client_sock_list[i]}
         /\ Mgr!Next
<1> DEFINE c == [sock |-> client_sock_list[i], client_id |-> i]
<1>1. i \in Mgr!Slots /\ client_sock_list[i] \in Conns
      /\ client_sock_list[i] # NoSock
  BY DEF TableOK, Mgr!InUse, Mgr!Free
<1>2. /\ client_sock_list' = [client_sock_list EXCEPT ![i] = NoSock]
      /\ current_client_cnt' = current_client_cnt - 1
  BY <1>1 DEF Mgr!delete_client_sock
<1>3. Mgr!InUse' = Mgr!InUse \ {i}
  BY <1>1, <1>2 DEF TableOK, Mgr!InUse, Mgr!Free
<1>4. Cardinality(Mgr!InUse') = Cardinality(Mgr!InUse) - 1
  BY <1>3, InUseFinite, FS_RemoveElement
<1>5. \A j \in Mgr!InUse' : client_sock_list'[j] = client_sock_list[j]
  BY <1>2, <1>3 DEF TableOK, Mgr!InUse
<1>6. TableOK'
  <2>1. client_sock_list' \in [Mgr!Slots -> Conns \cup {NoSock}]
    BY <1>2 DEF TableOK
  <2>2. current_client_cnt' = Cardinality(Mgr!InUse')
    BY <1>2, <1>4 DEF TableOK
  <2>3. \A j, k \in Mgr!InUse' : client_sock_list'[j] = client_sock_list'[k] => j = k
    BY <1>3, <1>5 DEF TableOK
  <2>4. QED
    BY <2>1, <2>2, <2>3 DEF TableOK, Mgr!Slots
<1>7. Registered' = Registered \ {client_sock_list[i]}
  BY <1>3, <1>5 DEF Registered, TableOK
<1>8. Mgr!Next
  <2> DEFINE fd_set == {client_sock_list[i]}
             matches == {j \in Mgr!InUse : client_sock_list[j] \in fd_set}
  <2>1. matches = {i}
    BY DEF TableOK
  <2>2. Mgr!Highest({i}) = i
    BY <1>1 DEF Mgr!Highest, Mgr!Slots
  <2>3. Mgr!get_client_sock_in(fd_set) = c
    BY <1>1, <2>1, <2>2 DEF Mgr!get_client_sock_in, Mgr!ClientSock
  <2>4. fd_set \in SUBSET Conns
    BY <1>1
  <2> HIDE DEF fd_set
  <2>5. Mgr!Delete(fd_set)
    BY <1>1, <2>3 DEF Mgr!Delete
  <2>6. QED
    BY <2>4, <2>5 DEF Mgr!Next
<1>9. QED
  BY <1>6, <1>7, <1>8

-----------------------------------------------------------------------------
ServerInv == TableOK /\ BacklogOK /\ RegisteredOK /\ LoopOK /\ WatchOK

(* A step of a client, or of the packet thread, and every step of the loop *)
(* that leaves the table alone.                                            *)
LEMMA QuietStep ==
  ASSUME ServerInv, UNCHANGED <<mgr_vars, read_socks>>,
         LoopOK',
         backlog' = backlog \/ (backlog # <<>> /\ backlog' = Tail(backlog)),
         peer' \in [Conns -> Known \cup {"new", "gone"}],
         \A c \in Conns : peer[c] \in Known => peer'[c] \in Known
  PROVE  ServerInv' /\ UNCHANGED Mgr!vars
<1>1. UNCHANGED <<client_sock_list, current_client_cnt>>
  BY DEF mgr_vars
<1>2. TableOK' /\ Registered' = Registered
  <2>1. Mgr!InUse' = Mgr!InUse
    BY <1>1 DEF Mgr!InUse, Mgr!Free, Mgr!Slots
  <2>2. Registered' = Registered
    BY <1>1, <2>1 DEF Registered
  <2>3. TableOK'
    BY <1>1, <2>1 DEF ServerInv, TableOK, Mgr!Slots
  <2>4. QED
    BY <2>2, <2>3
<1>3. Registered \subseteq Conns
  BY DEF ServerInv, TableOK, Registered, Mgr!InUse, Mgr!Free
<1>4. RegisteredOK' /\ WatchOK'
  BY <1>2, <1>3 DEF ServerInv, RegisteredOK, WatchOK
<1>5. BacklogOK'
  <2>1. CASE backlog' = backlog
    <3>1. \A k \in 1..Len(backlog) : backlog[k] \in Conns
      BY DEF ServerInv, BacklogOK
    <3>2. QED
      BY <1>2, <2>1, <3>1 DEF ServerInv, BacklogOK
  <2>2. CASE backlog # <<>> /\ backlog' = Tail(backlog)
    <3>1. /\ backlog' \in Seq(Conns) /\ Len(backlog') = Len(backlog) - 1
          /\ \A k \in 1..Len(backlog') : /\ k + 1 \in 1..Len(backlog)
                                          /\ backlog'[k] = backlog[k + 1]
                                          /\ backlog[k + 1] \in Conns
      BY <2>2 DEF ServerInv, BacklogOK
    <3>2. \A k \in 1..Len(backlog') : /\ backlog'[k] \notin Registered'
                                      /\ peer'[backlog'[k]] \in Known
      BY <1>2, <3>1 DEF ServerInv, BacklogOK
    <3>3. ASSUME NEW j \in 1..Len(backlog'), NEW k \in 1..Len(backlog'),
                 backlog'[j] = backlog'[k]
          PROVE  j = k
      <4>1. backlog[j + 1] = backlog[k + 1] /\ j + 1 \in 1..Len(backlog)
            /\ k + 1 \in 1..Len(backlog)
        BY <3>1, <3>3
      <4>2. j + 1 = k + 1
        BY <4>1 DEF ServerInv, BacklogOK
      <4>3. QED
        BY <4>2
    <3>4. QED
      BY <3>1, <3>2, <3>3 DEF BacklogOK
  <2>3. QED
    BY <2>1, <2>2
<1>6. QED
  BY <1>1, <1>2, <1>4, <1>5 DEF ServerInv, Mgr!vars

(* The first connection of the backlog, and what is left behind it.        *)
LEMMA BacklogHead ==
  ASSUME ServerInv, backlog # <<>>
  PROVE  /\ Head(backlog) \in Conns /\ Head(backlog) \notin Registered
         /\ peer[Head(backlog)] \in Known
         /\ Tail(backlog) \in Seq(Conns)
         /\ \A k \in 1..Len(Tail(backlog)) :
              /\ Tail(backlog)[k] \in Conns /\ Tail(backlog)[k] # Head(backlog)
              /\ Tail(backlog)[k] \notin Registered
              /\ peer[Tail(backlog)[k]] \in Known
         /\ \A j, k \in 1..Len(Tail(backlog)) :
              Tail(backlog)[j] = Tail(backlog)[k] => j = k
<1>1. backlog \in Seq(Conns) /\ Len(backlog) \in Nat \ {0}
  BY DEF ServerInv, BacklogOK
<1>2. Head(backlog) = backlog[1] /\ 1 \in 1..Len(backlog) /\ backlog[1] \in Conns
  BY <1>1
<1>3. /\ Tail(backlog) \in Seq(Conns) /\ Len(Tail(backlog)) = Len(backlog) - 1
      /\ \A k \in 1..Len(Tail(backlog)) : /\ k + 1 \in 1..Len(backlog)
                                           /\ Tail(backlog)[k] = backlog[k + 1]
                                           /\ backlog[k + 1] \in Conns
  BY <1>1
<1>4. \A j, k \in 1..Len(backlog) : backlog[j] = backlog[k] => j = k
  BY DEF ServerInv, BacklogOK
<1>5. \A k \in 1..Len(Tail(backlog)) : Tail(backlog)[k] # Head(backlog)
  BY <1>2, <1>3, <1>4
<1>6. ASSUME NEW j \in 1..Len(Tail(backlog)), NEW k \in 1..Len(Tail(backlog)),
             Tail(backlog)[j] = Tail(backlog)[k]
      PROVE  j = k
  <2>1. j + 1 = k + 1
    BY <1>3, <1>4, <1>6
  <2>2. QED
    BY <2>1
<1>7. QED
  BY <1>2, <1>3, <1>5, <1>6 DEF ServerInv, BacklogOK

(* A connection is accepted: it leaves the backlog and enters the table    *)
(* and, unless that is the smaller one, the set of descriptors.            *)
LEMMA AcceptStep ==
  ASSUME ServerInv, Accept
  PROVE  ServerInv' /\ Mgr!Next
<1> DEFINE conn == Head(backlog)
<1>1. /\ backlog # <<>> /\ backlog' = Tail(backlog) /\ select_pc' = "pick"
      /\ current_client_cnt < MaxSockNum /\ Mgr!add_client_sock(conn)
      /\ read_socks' = FD_SET(conn, read_socks) /\ peer' = peer
  BY DEF Accept, At, ServerInv, LoopOK, client_vars
<1>2. /\ conn \in Conns /\ conn \notin Registered /\ peer[conn] \in Known
  BY <1>1, BacklogHead
<1>3. TableOK' /\ Registered' = Registered \cup {conn} /\ Mgr!Next
  <2> HIDE DEF conn
  <2>1. QED
    BY <1>1, <1>2, AddStep DEF ServerInv
<1>4. BacklogOK'
  BY <1>1, <1>3, BacklogHead DEF BacklogOK
<1>5. RegisteredOK'
  BY <1>1, <1>2, <1>3 DEF ServerInv, RegisteredOK
<1>6. WatchOK'
  <2> SUFFICES ASSUME MaxSockNum < FdSetSize
               PROVE  read_socks' = {Listener} \cup Registered'
    BY DEF WatchOK
  <2>1. read_socks = {Listener} \cup Registered
    BY DEF ServerInv, WatchOK
  <2>2. Cardinality(read_socks) < FdSetSize
    <3>1. current_client_cnt \in Nat
      BY InUseFinite DEF ServerInv, TableOK
    <3>2. QED
      BY <1>1, <2>1, <3>1, RegisteredFew DEF ServerInv
  <2>3. QED
    BY <1>1, <1>3, <2>1, <2>2 DEF FD_SET
<1>7. LoopOK'
  BY <1>1 DEF LoopOK
<1>8. QED
  BY <1>3, <1>4, <1>5, <1>6, <1>7 DEF ServerInv

(* A client is dropped: table, descriptors and kernel forget it together.  *)
LEMMA DropKeepsInv ==
  ASSUME ServerInv, select_pc \in {"recv_len", "recv_body"}, Drop
  PROVE  ServerInv' /\ Mgr!Next
<1>1. PICK i \in Mgr!InUse :
        client_sock = [sock |-> client_sock_list[i], client_id |-> i]
  BY DEF ServerInv, LoopOK
<1> DEFINE conn == client_sock_list[i]
<1>2. /\ backlog' = backlog /\ select_pc' = "select"
      /\ read_socks' = read_socks \ {conn}
      /\ peer' = [peer EXCEPT ![conn] = "gone"]
      /\ Mgr!delete_client_sock([sock |-> conn, client_id |-> i])
  BY <1>1 DEF Drop, FD_CLR, CloseSocket, EndOfRound
<1>3. conn \in Registered /\ conn \in Conns
  BY DEF Registered, ServerInv, TableOK, Mgr!InUse, Mgr!Free
<1>4. TableOK' /\ Registered' = Registered \ {conn} /\ Mgr!Next
  BY <1>2, DropStep DEF ServerInv
<1> HIDE DEF conn
<1>5. WatchOK'
  BY <1>2, <1>3, <1>4 DEF ServerInv, WatchOK
<1>6. RegisteredOK'
  BY <1>2, <1>3, <1>4 DEF ServerInv, RegisteredOK
<1>7. BacklogOK'
  <2>1. \A k \in 1..Len(backlog) : backlog[k] # conn /\ backlog[k] \in Conns
    BY <1>3 DEF ServerInv, BacklogOK
  <2>2. \A k \in 1..Len(backlog) : peer'[backlog[k]] = peer[backlog[k]]
    BY <1>2, <2>1 DEF ServerInv, RegisteredOK
  <2>3. QED
    BY <1>2, <1>4, <2>2 DEF ServerInv, BacklogOK
<1>8. LoopOK'
  BY <1>2 DEF LoopOK
<1>9. QED
  BY <1>4, <1>5, <1>6, <1>7, <1>8 DEF ServerInv

(* The client found in all_socks is one of the table.                      *)
LEMMA PickFinds ==
  ASSUME ServerInv, Mgr!get_client_sock_in(all_socks).sock # NoSock
  PROVE  \E i \in Mgr!InUse : Mgr!get_client_sock_in(all_socks)
                                = [sock |-> client_sock_list[i], client_id |-> i]
<1> DEFINE matches == {i \in Mgr!InUse : client_sock_list[i] \in all_socks}
           i == Mgr!Highest(matches)
<1>1. matches # {}
  BY DEF Mgr!get_client_sock_in, Mgr!DefaultClientSock
<1>2. i \in matches
  <2>1. matches \in SUBSET Table!Slots
    BY DEF Mgr!InUse, Mgr!Slots, Table!Slots
  <2> HIDE DEF matches
  <2>2. Table!Highest(matches) \in matches
    BY <1>1, <2>1, TableAssumed, Table!HighestSlot
  <2>3. QED
    BY <2>2 DEF Mgr!Highest, Table!Highest
<1>3. i \in Mgr!InUse /\ client_sock_list[i] # NoSock
  BY <1>2 DEF Mgr!InUse, Mgr!Free
<1>4. Mgr!get_client_sock_in(all_socks) = Mgr!ClientSock(i)
  BY <1>1 DEF Mgr!get_client_sock_in
<1> HIDE DEF i
<1>5. QED
  BY <1>3, <1>4 DEF Mgr!ClientSock

(* Every step of the system keeps the invariant and is for the table what  *)
(* ClientSocketManager expects: an Add, a Delete or nothing.               *)
LEMMA ServerStep ==
  ASSUME ServerInv, [Next]_vars
  PROVE  ServerInv' /\ [Mgr!Next]_(Mgr!vars)
<1> USE DEF At
<1>0. /\ LoopOK /\ RegisteredOK /\ backlog \in Seq(Conns)
  BY DEF ServerInv, BacklogOK
<1>1. ASSUME UNCHANGED <<backlog, peer, select_pc, client_sock, read_socks, mgr_vars>>
      PROVE  ServerInv' /\ UNCHANGED Mgr!vars
  <2>1. LoopOK'
    BY <1>0, <1>1 DEF LoopOK, mgr_vars, Mgr!InUse, Mgr!Free, Mgr!Slots
  <2>2. QED
    BY <1>0, <1>1, <2>1, QuietStep DEF RegisteredOK
<1>2. ASSUME NEW c \in Conns, Connect(c)
      PROVE  ServerInv' /\ UNCHANGED Mgr!vars
  <2>1. /\ peer[c] = "new" /\ peer' = [peer EXCEPT ![c] = "open"]
        /\ backlog' = Append(backlog, c)
        /\ UNCHANGED <<client_sock_list, current_client_cnt, read_socks,
                       select_pc, client_sock>>
    BY <1>2 DEF Connect, loop_vars, mgr_vars
  <2>2. c \notin Registered /\ Registered \subseteq Conns
    <3>1. Registered \subseteq Conns
      BY DEF ServerInv, TableOK, Registered, Mgr!InUse, Mgr!Free
    <3>2. c \notin Registered
      BY <1>0, <2>1 DEF RegisteredOK, Known
    <3>3. QED
      BY <3>1, <3>2
  <2>3. TableOK' /\ Registered' = Registered
    BY <2>1 DEF ServerInv, TableOK, Registered, Mgr!InUse, Mgr!Free, Mgr!Slots
  <2>4. /\ Len(backlog') = Len(backlog) + 1 /\ Len(backlog) \in Nat
        /\ \A k \in 1..Len(backlog) : backlog'[k] = backlog[k]
        /\ backlog'[Len(backlog) + 1] = c /\ backlog' \in Seq(Conns)
        /\ backlog' # <<>>
    BY <1>0, <2>1
  <2>5. \A k \in 1..Len(backlog) : backlog[k] # c /\ backlog[k] \in Conns
    BY <1>0, <2>1 DEF ServerInv, BacklogOK, Known
  <2>6. peer' \in [Conns -> Known \cup {"new", "gone"}] /\ peer'[c] \in Known
        /\ \A d \in Conns : peer[d] \in Known => peer'[d] \in Known
    BY <1>0, <2>1 DEF RegisteredOK, Known
  <2>7. BacklogOK'
    <3>1. \A k \in 1..Len(backlog') : backlog'[k] \notin Registered'
                                      /\ peer'[backlog'[k]] \in Known
      BY <2>2, <2>3, <2>4, <2>5, <2>6 DEF ServerInv, BacklogOK
    <3>2. \A j, k \in 1..Len(backlog') : backlog'[j] = backlog'[k] => j = k
      BY <2>4, <2>5 DEF ServerInv, BacklogOK
    <3>3. QED
      BY <2>4, <3>1, <3>2 DEF BacklogOK
  <2>8. RegisteredOK' /\ WatchOK' /\ LoopOK'
    BY <1>0, <2>1, <2>2, <2>3, <2>4, <2>6 DEF RegisteredOK, WatchOK, LoopOK, ServerInv,
       Mgr!InUse, Mgr!Free, Mgr!Slots
  <2>9. QED
    BY <2>1, <2>3, <2>7, <2>8 DEF ServerInv, Mgr!vars
<1>3. ASSUME NEW c \in Conns, Close(c) \/ Reset(c)
      PROVE  ServerInv' /\ UNCHANGED Mgr!vars
  <2>1. /\ \E state \in Known : peer' = [peer EXCEPT ![c] = state]
        /\ UNCHANGED <<backlog, read_socks, select_pc, client_sock, mgr_vars>>
    BY <1>3 DEF Close, Reset, Known, loop_vars
  <2>2. /\ peer' \in [Conns -> Known \cup {"new", "gone"}]
        /\ \A d \in Conns : peer[d] \in Known => peer'[d] \in Known
    BY <1>0, <2>1 DEF RegisteredOK
  <2>3. LoopOK'
    BY <1>0, <2>1 DEF LoopOK, mgr_vars, Mgr!InUse, Mgr!Free, Mgr!Slots
  <2>4. QED
    BY <2>1, <2>2, <2>3, QuietStep
<1>4. ASSUME Client PROVE ServerInv' /\ UNCHANGED Mgr!vars
  <2>1. ASSUME NEW c \in Conns, NEW n \in Lens, SendLength(c, n)
        PROVE  ServerInv' /\ UNCHANGED Mgr!vars
    BY <1>1, <2>1 DEF SendLength, loop_vars
  <2>2. ASSUME NEW c \in Conns, SendUnit(c)
        PROVE  ServerInv' /\ UNCHANGED Mgr!vars
    BY <1>1, <2>2 DEF SendUnit, loop_vars
  <2>3. QED
    BY <1>2, <1>3, <1>4, <2>1, <2>2 DEF Client
<1>5. ASSUME UNCHANGED <<peer, read_socks, mgr_vars>>, select_pc' \notin {"accept", "recv_len", "recv_body"},
             backlog' = backlog \/ (backlog # <<>> /\ backlog' = Tail(backlog))
      PROVE  ServerInv' /\ UNCHANGED Mgr!vars
  <2>1. LoopOK'
    BY <1>5 DEF LoopOK
  <2>2. QED
    BY <1>0, <1>5, <2>1, QuietStep DEF RegisteredOK
<1>6. CASE Select
  <2>1. LoopOK'
    BY <1>6 DEF Select, LoopOK, Ready
  <2>2. QED
    BY <1>0, <1>6, <2>1, QuietStep DEF Select, client_vars, RegisteredOK
<1>7. CASE SelectFails
  BY <1>5, <1>7 DEF SelectFails, client_vars
<1>8. CASE AcceptFails
  BY <1>0, <1>5, <1>8 DEF AcceptFails, client_vars, LoopOK
<1>9. CASE AcceptOverflow
  <2>1. /\ backlog # <<>> /\ backlog' = Tail(backlog) /\ select_pc' = "pick"
        /\ peer' = [peer EXCEPT ![Head(backlog)] = "gone"]
        /\ UNCHANGED <<read_socks, client_sock_list, current_client_cnt>>
    BY <1>0, <1>9 DEF AcceptOverflow, CloseSocket, LoopOK, mgr_vars
  <2>2. TableOK' /\ Registered' = Registered /\ Registered \subseteq Conns
    BY <2>1 DEF ServerInv, TableOK, Registered, Mgr!InUse, Mgr!Free, Mgr!Slots
  <2>3. \A d \in Conns : d # Head(backlog) => peer'[d] = peer[d]
    BY <1>0, <2>1 DEF RegisteredOK
  <2>4. BacklogOK'
    BY <2>1, <2>2, <2>3, BacklogHead DEF BacklogOK
  <2>5. RegisteredOK'
    <3>1. Head(backlog) \notin Registered
      BY <2>1, BacklogHead
    <3>2. peer' \in [Conns -> Known \cup {"new", "gone"}]
      BY <1>0, <2>1 DEF RegisteredOK
    <3>3. QED
      BY <1>0, <2>2, <2>3, <3>1, <3>2 DEF RegisteredOK
  <2>6. WatchOK' /\ LoopOK'
    BY <2>1, <2>2 DEF ServerInv, WatchOK, LoopOK
  <2>7. QED
    BY <2>1, <2>2, <2>4, <2>5, <2>6 DEF ServerInv, Mgr!vars
<1>10. CASE Accept
  BY <1>10, AcceptStep
<1>11. CASE Pick
  <2>1. LoopOK'
    BY <1>11, PickFinds DEF Pick, LoopOK, mgr_vars, Mgr!InUse, Mgr!Free, Mgr!Slots
  <2>2. QED
    BY <1>0, <1>11, <2>1, QuietStep DEF Pick, client_vars, RegisteredOK
<1>12. CASE PickNone
  BY <1>5, <1>12 DEF PickNone, EndOfRound, client_vars
<1>13. CASE RecvLengthFails \/ RecvBodyFails
  BY <1>13, DropKeepsInv DEF RecvLengthFails, RecvBodyFails
<1>14. CASE RecvLength
  <2>1. LoopOK'
    BY <1>0, <1>14 DEF RecvLength, LoopOK, mgr_vars, Mgr!InUse, Mgr!Free, Mgr!Slots
  <2>2. QED
    BY <1>0, <1>14, <2>1, QuietStep DEF RecvLength, client_vars, RegisteredOK
<1>15. CASE RecvBody
  BY <1>5, <1>15 DEF RecvBody, EndOfRound
<1>16. CASE PushPktQueue \/ PacketThread
  BY <1>1, <1>16 DEF PushPktQueue, PacketThread, client_vars, loop_vars
<1>17. CASE Post \/ UNCHANGED vars
  BY <1>1, <1>17 DEF Post, vars, client_vars, loop_vars
<1>18. QED
  BY <1>4, <1>6, <1>7, <1>8, <1>9, <1>10, <1>11, <1>12, <1>13, <1>14, <1>15,
     <1>16, <1>17 DEF Next, SelectThread

(* It holds when the threads start.                                        *)
LEMMA ServerInit ==
  Init => ServerInv /\ Mgr!Init
<1> SUFFICES ASSUME Init PROVE ServerInv /\ Mgr!Init
  OBVIOUS
<1>1. Mgr!Init
  BY DEF Init
<1>2. Mgr!InUse = {} /\ Registered = {}
  BY <1>1 DEF Mgr!Init, Mgr!InUse, Mgr!Free, Registered
<1>3. TableOK
  BY <1>1, <1>2, FS_EmptySet DEF Mgr!Init, TableOK
<1>4. BacklogOK /\ RegisteredOK /\ LoopOK /\ WatchOK
  BY <1>2 DEF Init, BacklogOK, RegisteredOK, LoopOK, WatchOK, Known
<1>5. QED
  BY <1>1, <1>3, <1>4 DEF ServerInv

(* The select loop is a caller as ClientSocketManager assumes it: every    *)
(* theorem about the table holds in the running server.                    *)
THEOREM KeepsManagerProtocolAlways == Spec => KeepsManagerProtocol
<1>1. Init /\ [][Next]_vars => []ServerInv
  BY ServerInit, ServerStep, PTL
<1>2. ServerInv /\ [Next]_vars => [Mgr!Next]_(Mgr!vars)
  BY ServerStep
<1>3. Init => Mgr!Init
  BY ServerInit
<1>4. QED
  BY <1>1, <1>2, <1>3, PTL DEF Spec, KeepsManagerProtocol, Mgr!Spec

(* The descriptors that select() watches are the listener and the open     *)
(* sockets of the table, whatever clients do, as long as an fd_set can     *)
(* hold them.                                                              *)
THEOREM DescriptorsMatchTableAlways == Spec => []DescriptorsMatchTable
<1>1. Init /\ [][Next]_vars => []ServerInv
  BY ServerInit, ServerStep, PTL
<1>2. ServerInv => DescriptorsMatchTable
  BY DEF ServerInv, DescriptorsMatchTable, WatchOK, RegisteredOK, Known
<1>3. QED
  BY <1>1, <1>2, PTL DEF Spec

-----------------------------------------------------------------------------
(* A packet on the wire has units of its body only if the server could     *)
(* take all of it.                                                         *)
WireFrames == {f \in Frames : f.here <= f.len /\ (f.here > 0 => f.len <= PayloadLen)}

(* What was read of a connection and what waits was announced by it.       *)
WireOK ==
  /\ unread \in [Conns -> Seq(WireFrames)] /\ frames \in [Conns -> Seq(Lens)]
  /\ reads \in [Conns -> Nat]
  /\ \A c \in Conns : /\ reads[c] + Len(unread[c]) <= Len(frames[c])
                      /\ Len(frames[c]) <= MaxFrames

(* The lengths that wait to be read are among those the client announced.  *)
Announces(c, n) == \E k \in 1..Len(frames[c]) : frames[c][k] = n
LengthsOK == \A c \in Conns : \A j \in 1..Len(unread[c]) :
               Announces(c, unread[c][j].len)

(* Every client of the table was announced under its slot, and a client    *)
(* that was announced is not announced again.                              *)
AnnouncedOK ==
  /\ announced \subseteq Conns \X Mgr!Slots
  /\ \A i \in Mgr!InUse : <<client_sock_list[i], i>> \in announced
  /\ \A a \in announced :
       /\ peer[a[1]] # "new" /\ \A k \in 1..Len(backlog) : backlog[k] # a[1]
       /\ a[1] \in Registered => client_sock_list[a[2]] = a[1]

(* A packet is queued with an id under which its client was announced.     *)
ReceivedOK ==
  /\ received \in Seq([client_id : Mgr!Slots, payload : Payloads])
  /\ \A i \in 1..Len(received) :
       <<received[i].payload.conn, received[i].client_id>> \in announced

WireInv == WireOK /\ LengthsOK /\ AnnouncedOK /\ ReceivedOK

-----------------------------------------------------------------------------
(* The packet that is read is one the queue can be given.                  *)
LEMMA PacketRead ==
  ASSUME ServerInv, WireInv, RecvBody
  PROVE  LET s == client_sock.sock
             p == [conn |-> s, frame |-> reads[s] + 1, len |-> BodyUnits]
         IN  /\ s \in Conns /\ client_sock.client_id \in Mgr!Slots
             /\ <<s, client_sock.client_id>> \in announced
             /\ p \in Payloads /\ unread[s] # <<>>
<1> DEFINE s == client_sock.sock
<1>1. PICK i \in Mgr!InUse :
        client_sock = [sock |-> client_sock_list[i], client_id |-> i]
  BY DEF ServerInv, LoopOK, RecvBody, At
<1>2. s \in Conns /\ client_sock.client_id \in Mgr!Slots
      /\ <<s, client_sock.client_id>> \in announced
  BY <1>1 DEF WireInv, AnnouncedOK, ServerInv, TableOK, Mgr!InUse, Mgr!Free
<1>3. unread[s] \in Seq(WireFrames) /\ unread[s] # <<>> /\ BodyUnits > 0
  BY <1>2 DEF RecvBody, BodyComes, WireInv, WireOK
<1>4. Head(unread[s]) \in WireFrames /\ Len(unread[s]) \in Nat \ {0}
  BY <1>3
<1>5. BodyUnits \in 1..PayloadLen
  <2> DEFINE f == Head(unread[s])
  <2>1. f \in WireFrames /\ f.here > 0 /\ BodyUnits = f.here
    BY <1>3, <1>4 DEF BodyUnits
  <2> HIDE DEF f
  <2>2. f.len \in Nat /\ f.here \in Nat /\ f.here <= f.len /\ f.len <= PayloadLen
    BY <2>1 DEF WireFrames, Frames
  <2>3. QED
    BY <2>1, <2>2
<1>6. reads[s] + 1 \in 1..MaxFrames
  BY <1>2, <1>4 DEF WireInv, WireOK
<1>7. QED
  BY <1>2, <1>3, <1>5, <1>6 DEF Payloads

-----------------------------------------------------------------------------
(* The server uses the queue as ProcPktThread assumes: every step is one   *)
(* of that module or leaves the queue alone.                               *)

(* There is room in the one queue if there is in the other.                *)
LEMMA QueueFits == ASSUME NEW e PROVE Pkt!Fits(e) = Queue!Fits(e)
<1>1. Pkt!Bytes(user_data_queue) = Queue!Bytes(user_data_queue)
  BY DEF Pkt!Bytes, Queue!Bytes, Pkt!EntryLen, Queue!EntryLen
<1>2. QED
  BY <1>1 DEF Pkt!Fits, Queue!Fits, Pkt!EntryLen, Queue!EntryLen

(* Every step is one of the queue and its two threads, or none of theirs.  *)
LEMMA QueueStep ==
  ASSUME ServerInv, WireInv, [Next]_vars
  PROVE  [Queue!Next]_(Queue!vars)
<1> USE DEF Pkt!thread_vars, Queue!thread_vars, Pkt!push_vars, Queue!push_vars
<1>1. ASSUME UNCHANGED queue_vars PROVE UNCHANGED Queue!vars
  BY <1>1 DEF queue_vars, Queue!vars
<1>2. CASE PushPktQueue
  <2>1. Queue!push_pkt_queue
    BY <1>2, QueueFits DEF PushPktQueue, Pkt!push_pkt_queue,
       Queue!push_pkt_queue, Pkt!PushFits, Queue!PushFits,
       Pkt!PushDropped, Queue!PushDropped, Pkt!PushRefused,
       Queue!PushRefused, Pkt!Pushed, Queue!Pushed, Pkt!Signal, Queue!Signal,
       Pkt!PushReturned, Queue!PushReturned
  <2>2. QED
    BY <2>1 DEF Queue!Next
<1>3. CASE PacketThread
  <2>1. Queue!run \/ Queue!SpuriousWakeup
    BY <1>3 DEF PacketThread, Pkt!run, Queue!run, Pkt!Wait, Queue!Wait,
       Pkt!PopId, Queue!PopId, Pkt!PopPayload, Queue!PopPayload,
       Pkt!OnMessage, Queue!OnMessage, Pkt!Popping, Queue!Popping,
       Pkt!CanPop, Queue!CanPop, Pkt!PopString, Queue!PopString, Pkt!Popped,
       Queue!Popped, Pkt!Overruns, Queue!Overruns, Pkt!EntryLen,
       Queue!EntryLen, Pkt!SpuriousWakeup, Queue!SpuriousWakeup
  <2>2. QED
    BY <2>1 DEF Queue!Next
<1>4. CASE RecvBody
  <2> DEFINE c == client_sock.client_id
             s == client_sock.sock
             p == [conn |-> s, frame |-> reads[s] + 1, len |-> BodyUnits]
  <2>1. c \in 0..MaxSockNum - 1 /\ p \in Payloads
    BY <1>4, PacketRead DEF Mgr!Slots
  <2>2. Pkt!ReadPkt(c, p)
    BY <1>4 DEF RecvBody
  <2> HIDE DEF c, p
  <2>3. Queue!ReadPkt(c, p)
    BY <2>2 DEF Pkt!ReadPkt, Queue!ReadPkt
  <2>4. QED
    BY <2>1, <2>3 DEF Queue!Next
<1>5. CASE Client
  BY <1>1, <1>5 DEF Client, Connect, SendLength, SendUnit, Close, Reset
<1>6. CASE Select \/ SelectFails \/ AcceptFails \/ AcceptOverflow \/ Accept
           \/ Pick \/ PickNone \/ RecvLengthFails \/ RecvLength
           \/ RecvBodyFails
  BY <1>1, <1>6 DEF Select, SelectFails, AcceptFails, AcceptOverflow, Accept,
     Pick, PickNone, RecvLengthFails, RecvLength, RecvBodyFails, Drop
<1>7. CASE Post \/ UNCHANGED vars
  BY <1>1, <1>7 DEF Post, vars
<1>8. QED
  BY <1>2, <1>3, <1>4, <1>5, <1>6, <1>7 DEF Next, SelectThread

-----------------------------------------------------------------------------
(* One more unit of a packet has come.                                     *)
LEMMA UnitAdded ==
  ASSUME NEW f \in Frames
  PROVE  LET g == [f EXCEPT !.here = @ + 1]
         IN  g \in Frames /\ g.len = f.len /\ g.here = f.here + 1
BY DEF Frames

(* What is on the wire of a connection only changes at its two ends.       *)
LEMMA WireStep ==
  ASSUME ServerInv, WireInv, [Next]_vars
  PROVE  WireOK'
<1> USE DEF WireInv, WireOK
<1>1. ASSUME UNCHANGED <<unread, frames, reads>> PROVE WireOK'
  BY <1>1
<1>2. ASSUME NEW c \in Conns, UNCHANGED <<frames, reads>>,
             unread' = [unread EXCEPT ![c] = <<>>]
      PROVE  WireOK'
  <2>1. unread'[c] = <<>> /\ \A d \in Conns : d # c => unread'[d] = unread[d]
    BY <1>2
  <2>2. unread' \in [Conns -> Seq(WireFrames)]
    BY <1>2
  <2>3. \A d \in Conns : Len(unread'[d]) <= Len(unread[d])
    BY <2>1
  <2>4. QED
    BY <1>2, <2>2, <2>3
<1>3. ASSUME NEW c \in Conns, NEW n \in Lens, SendLength(c, n)
      PROVE  WireOK'
  <2> DEFINE f == [len |-> n, here |-> 0]
  <2>1. /\ unread' = [unread EXCEPT ![c] = Append(@, f)]
        /\ frames' = [frames EXCEPT ![c] = Append(@, n)]
        /\ Len(frames[c]) < MaxFrames /\ reads' = reads
    BY <1>3 DEF SendLength, loop_vars
  <2>2. f \in WireFrames
    BY DEF WireFrames, Frames
  <2> HIDE DEF f
  <2>3. QED
    BY <2>1, <2>2
<1>4. ASSUME NEW c \in Conns, SendUnit(c)
      PROVE  WireOK'
  <2> DEFINE last == Len(unread[c])
             f    == unread[c][last]
             g    == [f EXCEPT !.here = @ + 1]
  <2>1. /\ unread[c] # <<>> /\ ~Complete(f) /\ f.len <= PayloadLen
        /\ unread' = [unread EXCEPT ![c] = [@ EXCEPT ![last] = g]]
        /\ frames' = frames /\ reads' = reads
    BY <1>4 DEF SendUnit, loop_vars
  <2>2. last \in 1..Len(unread[c]) /\ f \in WireFrames
    <3>1. PICK b : b = unread[c] /\ b \in Seq(WireFrames) /\ b # <<>>
      BY <2>1
    <3>2. Len(b) \in 1..Len(b)
      BY <3>1
    <3>3. b[Len(b)] \in WireFrames
      BY <3>1, <3>2
    <3>4. QED
      BY <3>1, <3>2, <3>3
  <2>3. g \in WireFrames
    <3> HIDE DEF f
    <3>1. f \in Frames
      BY <2>2 DEF WireFrames
    <3>2. f.here < f.len /\ f.len \in Nat /\ f.here \in Nat
      BY <2>1, <2>2 DEF WireFrames, Frames, Complete
    <3>3. g \in Frames /\ g.len = f.len /\ g.here = f.here + 1
      BY <3>1, UnitAdded
    <3> HIDE DEF g
    <3>4. QED
      BY <2>1, <3>2, <3>3 DEF WireFrames
  <2> HIDE DEF g
  <2> DEFINE body == [unread[c] EXCEPT ![last] = g]
  <2>4. body \in Seq(WireFrames) /\ Len(body) = Len(unread[c])
    BY <2>2, <2>3, ExceptSeq
  <2> HIDE DEF body
  <2>5. unread' = [unread EXCEPT ![c] = body]
    BY <2>1 DEF body
  <2>6. QED
    BY <2>1, <2>4, <2>5
<1>5. CASE Client
  <2>1. ASSUME NEW c \in Conns, Connect(c) \/ Close(c)
        PROVE  WireOK'
    BY <1>1, <2>1 DEF Connect, Close, loop_vars
  <2>2. ASSUME NEW c \in Conns, Reset(c)
        PROVE  WireOK'
    BY <1>2, <2>2 DEF Reset, loop_vars
  <2>3. QED
    BY <1>3, <1>4, <1>5, <2>1, <2>2 DEF Client
<1>6. CASE AcceptOverflow
  <2>1. Head(backlog) \in Conns
    BY <1>6, BacklogHead DEF AcceptOverflow, At, ServerInv, LoopOK
  <2>2. QED
    BY <1>2, <1>6, <2>1 DEF AcceptOverflow, CloseSocket
<1>7. ASSUME select_pc \in {"recv_len", "recv_body"}, Drop
      PROVE  WireOK'
  <2>1. client_sock.sock \in Conns
    BY <1>7 DEF ServerInv, LoopOK, TableOK, Mgr!InUse, Mgr!Free
  <2>2. QED
    BY <1>2, <1>7, <2>1 DEF Drop, CloseSocket
<1>8. CASE RecvBody
  <2> DEFINE s == client_sock.sock
  <2>1. s \in Conns /\ unread[s] # <<>>
    BY <1>8, PacketRead
  <2> HIDE DEF s
  <2>2. /\ reads' = [reads EXCEPT ![s] = @ + 1]
        /\ unread' = [unread EXCEPT ![s] = Tail(@)] /\ frames' = frames
    BY <1>8 DEF RecvBody, s
  <2>3. Tail(unread[s]) \in Seq(WireFrames)
        /\ Len(Tail(unread[s])) = Len(unread[s]) - 1
    BY <2>1
  <2>4. QED
    BY <2>1, <2>2, <2>3
<1>9. CASE RecvLengthFails \/ RecvBodyFails
  BY <1>7, <1>9 DEF RecvLengthFails, RecvBodyFails, At
<1>10. CASE Select \/ SelectFails \/ AcceptFails \/ Accept \/ Pick
            \/ PickNone \/ RecvLength \/ PushPktQueue \/ PacketThread
            \/ Post \/ UNCHANGED vars
  BY <1>1, <1>10 DEF Select, SelectFails, AcceptFails, Accept, Pick,
     PickNone, RecvLength, PushPktQueue, PacketThread, Post, vars,
     client_vars, loop_vars
<1>11. QED
  BY <1>5, <1>6, <1>8, <1>9, <1>10 DEF Next, SelectThread

(* No step changes a length on its way.                                    *)
LEMMA LengthsStep ==
  ASSUME ServerInv, WireInv, [Next]_vars
  PROVE  LengthsOK'
<1> USE DEF LengthsOK, Announces
<1>0. /\ LengthsOK /\ unread \in [Conns -> Seq(WireFrames)]
      /\ frames \in [Conns -> Seq(Lens)]
  BY DEF WireInv, WireOK
<1>1. ASSUME UNCHANGED <<unread, frames>> PROVE LengthsOK'
  BY <1>0, <1>1
<1>2. ASSUME NEW c \in Conns, UNCHANGED frames,
             unread' = [unread EXCEPT ![c] = <<>>]
      PROVE  LengthsOK'
  BY <1>0, <1>2
<1>3. ASSUME NEW c \in Conns, NEW n \in Lens, SendLength(c, n)
      PROVE  LengthsOK'
  <2> DEFINE f == [len |-> n, here |-> 0]
  <2>1. /\ unread' = [unread EXCEPT ![c] = Append(@, f)]
        /\ frames' = [frames EXCEPT ![c] = Append(@, n)]
    BY <1>3 DEF SendLength
  <2>2. f \in WireFrames /\ f.len = n
    BY DEF WireFrames, Frames
  <2> HIDE DEF f
  <2>3. /\ unread'[c] = Append(unread[c], f) /\ frames'[c] = Append(frames[c], n)
        /\ \A d \in Conns : d # c => unread'[d] = unread[d] /\ frames'[d] = frames[d]
    BY <1>0, <2>1
  <2>4. \A k \in 1..Len(frames[c]) : k \in 1..Len(frames'[c])
                                     /\ frames'[c][k] = frames[c][k]
    BY <1>0, <2>3
  <2>5. Len(frames'[c]) \in 1..Len(frames'[c]) /\ frames'[c][Len(frames'[c])] = n
    BY <1>0, <2>3
  <2>6. \A j \in 1..Len(unread'[c]) : \/ unread'[c][j] = f
                                      \/ /\ j \in 1..Len(unread[c])
                                         /\ unread'[c][j] = unread[c][j]
    BY <1>0, <2>2, <2>3
  <2>7. ASSUME NEW j \in 1..Len(unread'[c])
        PROVE  Announces(c, unread[c][j].len)'
    <3>1. CASE unread'[c][j] = f
      BY <2>2, <2>5, <3>1
    <3>2. CASE j \in 1..Len(unread[c]) /\ unread'[c][j] = unread[c][j]
      <4>1. PICK k \in 1..Len(frames[c]) : frames[c][k] = unread[c][j].len
        BY <1>0, <3>2
      <4>2. QED
        BY <2>4, <3>2, <4>1
    <3>3. QED
      BY <2>6, <3>1, <3>2
  <2>8. ASSUME NEW d \in Conns, d # c, NEW j \in 1..Len(unread'[d])
        PROVE  Announces(d, unread[d][j].len)'
    <3>1. unread'[d] = unread[d] /\ frames'[d] = frames[d]
      BY <2>3, <2>8
    <3>2. Announces(d, unread[d][j].len)
      BY <1>0, <2>8, <3>1
    <3>3. QED
      BY <3>1, <3>2
  <2>9. QED
    BY <2>7, <2>8
<1>4. ASSUME NEW c \in Conns, SendUnit(c)
      PROVE  LengthsOK'
  <2> DEFINE last == Len(unread[c])
             f    == unread[c][last]
             g    == [f EXCEPT !.here = @ + 1]
  <2>1. /\ unread[c] # <<>> /\ frames' = frames
        /\ unread' = [unread EXCEPT ![c] = [@ EXCEPT ![last] = g]]
    BY <1>4 DEF SendUnit
  <2>2. last \in 1..Len(unread[c]) /\ f \in WireFrames
    BY <1>0, <2>1
  <2>3. g.len = f.len
    <3> HIDE DEF f
    <3>1. f \in Frames
      BY <2>2 DEF WireFrames
    <3>2. QED
      BY <3>1, UnitAdded
  <2> HIDE DEF g
  <2>4. /\ unread'[c] = [unread[c] EXCEPT ![last] = g]
        /\ \A d \in Conns : d # c => unread'[d] = unread[d]
    BY <1>0, <2>1
  <2>5. \A j \in 1..Len(unread'[c]) : /\ j \in 1..Len(unread[c])
                                      /\ unread'[c][j].len = unread[c][j].len
    BY <1>0, <2>2, <2>3, <2>4
  <2>6. ASSUME NEW d \in Conns, NEW j \in 1..Len(unread'[d])
        PROVE  Announces(d, unread[d][j].len)'
    <3>1. j \in 1..Len(unread[d]) /\ unread'[d][j].len = unread[d][j].len
      BY <2>4, <2>5, <2>6
    <3>2. QED
      BY <1>0, <2>1, <3>1
  <2>7. QED
    BY <2>6
<1>5. CASE Client
  <2>1. ASSUME NEW c \in Conns, Connect(c) \/ Close(c)
        PROVE  LengthsOK'
    BY <1>1, <2>1 DEF Connect, Close
  <2>2. ASSUME NEW c \in Conns, Reset(c)
        PROVE  LengthsOK'
    BY <1>2, <2>2 DEF Reset
  <2>3. QED
    BY <1>3, <1>4, <1>5, <2>1, <2>2 DEF Client
<1>6. CASE AcceptOverflow
  <2>1. Head(backlog) \in Conns
    BY <1>6, BacklogHead DEF AcceptOverflow, At, ServerInv, LoopOK
  <2>2. QED
    BY <1>2, <1>6, <2>1 DEF AcceptOverflow, CloseSocket
<1>7. ASSUME select_pc \in {"recv_len", "recv_body"}, Drop
      PROVE  LengthsOK'
  <2>1. client_sock.sock \in Conns
    BY <1>7 DEF ServerInv, LoopOK, TableOK, Mgr!InUse, Mgr!Free
  <2>2. QED
    BY <1>2, <1>7, <2>1 DEF Drop, CloseSocket
<1>8. CASE RecvBody
  <2> DEFINE s == client_sock.sock
  <2>1. s \in Conns /\ unread[s] # <<>>
    BY <1>8, PacketRead
  <2> HIDE DEF s
  <2>2. unread' = [unread EXCEPT ![s] = Tail(@)] /\ frames' = frames
    BY <1>8 DEF RecvBody, s
  <2>3. \A j \in 1..Len(Tail(unread[s])) :
          j + 1 \in 1..Len(unread[s]) /\ Tail(unread[s])[j] = unread[s][j + 1]
    BY <1>0, <2>1
  <2>4. /\ unread'[s] = Tail(unread[s])
        /\ \A d \in Conns : d # s => unread'[d] = unread[d]
    BY <1>0, <2>1, <2>2
  <2>5. ASSUME NEW d \in Conns, NEW j \in 1..Len(unread'[d])
        PROVE  Announces(d, unread[d][j].len)'
    <3>1. \E i \in 1..Len(unread[d]) : unread'[d][j] = unread[d][i]
      BY <2>3, <2>4, <2>5
    <3>2. Announces(d, unread'[d][j].len)
      BY <1>0, <3>1
    <3>3. QED
      BY <2>2, <3>2
  <2>6. QED
    BY <2>5
<1>9. CASE RecvLengthFails \/ RecvBodyFails
  BY <1>7, <1>9 DEF RecvLengthFails, RecvBodyFails, At
<1>10. CASE Select \/ SelectFails \/ AcceptFails \/ Accept \/ Pick
            \/ PickNone \/ RecvLength \/ PushPktQueue \/ PacketThread
            \/ Post \/ UNCHANGED vars
  BY <1>1, <1>10 DEF Select, SelectFails, AcceptFails, Accept, Pick,
     PickNone, RecvLength, PushPktQueue, PacketThread, Post, vars,
     client_vars
<1>11. QED
  BY <1>5, <1>6, <1>8, <1>9, <1>10 DEF Next, SelectThread

(* The id that on_connect gets is the slot add_client_sock has taken.      *)
LEMMA AnnouncedStep ==
  ASSUME ServerInv, AnnouncedOK, [Next]_vars
  PROVE  AnnouncedOK' /\ announced \subseteq announced'
<1> USE DEF AnnouncedOK
<1> DEFINE Gone(a) == /\ peer'[a[1]] # "new"
                      /\ \A k \in 1..Len(backlog') : backlog'[k] # a[1]
<1>0. /\ backlog \in Seq(Conns)
      /\ peer \in [Conns -> Known \cup {"new", "gone"}]
      /\ \A a \in announced : a[1] \in Conns /\ a[2] \in Mgr!Slots
  BY DEF ServerInv, BacklogOK, RegisteredOK
<1>1. ASSUME UNCHANGED <<announced, mgr_vars>>, \A a \in announced : Gone(a)
      PROVE  AnnouncedOK' /\ announced \subseteq announced'
  <2>1. Mgr!InUse' = Mgr!InUse /\ Registered' = Registered
    BY <1>1 DEF mgr_vars, Registered, Mgr!InUse, Mgr!Free, Mgr!Slots
  <2>2. QED
    BY <1>1, <2>1 DEF mgr_vars, Mgr!Slots
<1>2. ASSUME UNCHANGED <<announced, mgr_vars, peer, backlog>>
      PROVE  AnnouncedOK' /\ announced \subseteq announced'
  BY <1>1, <1>2
<1>3. CASE Client
  <2>1. ASSUME NEW c \in Conns, Connect(c)
        PROVE  AnnouncedOK' /\ announced \subseteq announced'
    <3>1. /\ peer[c] = "new" /\ peer' = [peer EXCEPT ![c] = "open"]
          /\ backlog' = Append(backlog, c) /\ UNCHANGED <<announced, mgr_vars>>
      BY <2>1 DEF Connect, loop_vars
    <3>2. \A a \in announced : Gone(a)
      <4> SUFFICES ASSUME NEW a \in announced PROVE Gone(a)
        OBVIOUS
      <4>1. a[1] # c /\ peer'[a[1]] # "new"
        BY <1>0, <3>1
      <4>2. \A k \in 1..Len(backlog') : backlog'[k] # a[1]
        BY <1>0, <3>1, <4>1
      <4>3. QED
        BY <4>1, <4>2
    <3>3. QED
      BY <1>1, <3>1, <3>2
  <2>2. ASSUME NEW c \in Conns, Close(c) \/ Reset(c)
        PROVE  AnnouncedOK' /\ announced \subseteq announced'
    <3>1. /\ peer' = [peer EXCEPT ![c] = "closed"]
             \/ peer' = [peer EXCEPT ![c] = "reset"]
          /\ UNCHANGED <<backlog, announced, mgr_vars>>
      BY <2>2 DEF Close, Reset, loop_vars
    <3>2. \A a \in announced : Gone(a)
      BY <1>0, <3>1
    <3>3. QED
      BY <1>1, <3>1, <3>2
  <2>3. ASSUME NEW c \in Conns, NEW n \in Lens, SendLength(c, n)
        PROVE  AnnouncedOK' /\ announced \subseteq announced'
    BY <1>2, <2>3 DEF SendLength, loop_vars
  <2>4. ASSUME NEW c \in Conns, SendUnit(c)
        PROVE  AnnouncedOK' /\ announced \subseteq announced'
    BY <1>2, <2>4 DEF SendUnit, loop_vars
  <2>5. QED
    BY <1>3, <2>1, <2>2, <2>3, <2>4 DEF Client
<1>4. CASE AcceptFails \/ AcceptOverflow
  <2>1. /\ backlog # <<>> /\ backlog' = Tail(backlog)
        /\ peer' = peer \/ peer' = [peer EXCEPT ![Head(backlog)] = "gone"]
        /\ UNCHANGED <<announced, mgr_vars>>
    BY <1>4 DEF AcceptFails, AcceptOverflow, CloseSocket, At, ServerInv,
       LoopOK, client_vars
  <2>2. \A k \in 1..Len(backlog') : \E j \in 1..Len(backlog) : backlog'[k] = backlog[j]
    BY <1>0, <2>1
  <2>3. \A a \in announced : Gone(a)
    BY <1>0, <2>1, <2>2
  <2>4. QED
    BY <1>1, <2>1, <2>3
<1>5. CASE Accept
  <2> DEFINE conn == Head(backlog)
             id   == Mgr!AddedId
  <2>1. /\ backlog # <<>> /\ backlog' = Tail(backlog) /\ peer' = peer
        /\ current_client_cnt < MaxSockNum /\ Mgr!add_client_sock(conn)
        /\ announced' = announced \cup {<<conn, id>>}
    BY <1>5 DEF Accept, At, ServerInv, LoopOK, client_vars
  <2>2. /\ conn \in Conns /\ conn \notin Registered /\ peer[conn] \in Known
        /\ \A k \in 1..Len(backlog') : \E j \in 1..Len(backlog) :
              backlog'[k] = backlog[j] /\ backlog'[k] # conn
        /\ \A a \in announced : a[1] # conn
    <3>1. /\ conn = backlog[1] /\ 1 \in 1..Len(backlog)
          /\ \A k \in 1..Len(backlog') : /\ k + 1 \in 1..Len(backlog)
                                            /\ backlog'[k] = backlog[k + 1]
      BY <1>0, <2>1
    <3>2. QED
      BY <2>1, <3>1, BacklogHead
  <2>3. /\ id \in Mgr!Free /\ id \in Mgr!Slots
        /\ client_sock_list' = [client_sock_list EXCEPT ![id] = conn]
    <3> HIDE DEF conn
    <3>1. QED
      BY <2>1, AddedIdFree DEF ServerInv, Mgr!add_client_sock, Mgr!Free
  <2>4. client_sock_list'[id] = conn
    BY <2>3 DEF ServerInv, TableOK
  <2> HIDE DEF conn, id
  <2>5. \A i \in Mgr!Slots : i # id => client_sock_list'[i] = client_sock_list[i]
    BY <2>3 DEF ServerInv, TableOK
  <2>6. Mgr!InUse' = Mgr!InUse \cup {id}
    BY <2>2, <2>3, <2>4, <2>5 DEF Mgr!InUse, Mgr!Free, Mgr!Slots
  <2>7. Registered' = Registered \cup {conn}
    BY <2>3, <2>4, <2>5, <2>6 DEF Registered, Mgr!InUse, Mgr!Free
  <2>8. ASSUME NEW a \in announced
        PROVE  Gone(a) /\ (a[1] \in Registered' => client_sock_list'[a[2]] = a[1])
    <3>1. Gone(a)
      BY <2>1, <2>2
    <3>2. ASSUME a[1] \in Registered'
          PROVE  client_sock_list'[a[2]] = a[1]
      <4>1. a[1] \in Registered /\ client_sock_list[a[2]] = a[1]
        BY <2>2, <2>7, <3>2
      <4>2. a[2] # id
        BY <1>0, <2>3, <4>1 DEF Mgr!Free
      <4>3. QED
        BY <1>0, <2>5, <4>1, <4>2
    <3>3. QED
      BY <3>1, <3>2
  <2>9. Gone(<<conn, id>>)
    BY <2>1, <2>2 DEF Known
  <2>10. announced' \subseteq Conns \X Mgr!Slots
    BY <2>1, <2>2, <2>3 DEF conn, id
  <2>11. \A i \in Mgr!InUse' : <<client_sock_list'[i], i>> \in announced'
    BY <2>1, <2>4, <2>5, <2>6 DEF conn, id, Mgr!InUse
  <2>12. announced' = announced \cup {<<conn, id>>}
    BY <2>1 DEF conn, id
  <2>13. QED
    BY <2>4, <2>8, <2>9, <2>10, <2>11, <2>12 DEF Mgr!Slots
<1>6. CASE RecvLengthFails \/ RecvBodyFails
  <2>1. PICK i \in Mgr!InUse :
          client_sock = [sock |-> client_sock_list[i], client_id |-> i]
    BY <1>6 DEF ServerInv, LoopOK, RecvLengthFails, RecvBodyFails, At
  <2> DEFINE conn == client_sock_list[i]
  <2>2. /\ UNCHANGED <<backlog, announced>> /\ peer' = [peer EXCEPT ![conn] = "gone"]
        /\ Mgr!delete_client_sock([sock |-> conn, client_id |-> i])
    BY <1>6, <2>1 DEF RecvLengthFails, RecvBodyFails, Drop, CloseSocket, EndOfRound
  <2>3. client_sock_list' = [client_sock_list EXCEPT ![i] = NoSock]
    BY <2>2 DEF Mgr!delete_client_sock, Mgr!InUse
  <2>4. /\ Registered' = Registered \ {conn}
    BY <2>2, DropStep DEF ServerInv
  <2>5. Mgr!InUse' = Mgr!InUse \ {i}
    BY <2>3 DEF Mgr!InUse, Mgr!Free, Mgr!Slots, ServerInv, TableOK
  <2>6. \A j \in Mgr!Slots : j # i => client_sock_list'[j] = client_sock_list[j]
    BY <2>3 DEF ServerInv, TableOK
  <2>7. \A a \in announced : Gone(a)
    BY <1>0, <2>2
  <2>8. ASSUME NEW a \in announced, a[1] \in Registered'
        PROVE  client_sock_list'[a[2]] = a[1]
    <3>1. a[1] # conn /\ client_sock_list[a[2]] = a[1]
      BY <2>4, <2>8
    <3>2. QED
      BY <1>0, <2>6, <3>1
  <2>9. \A j \in Mgr!InUse' : <<client_sock_list'[j], j>> \in announced'
    BY <2>2, <2>5, <2>6 DEF Mgr!InUse
  <2>10. QED
    BY <2>2, <2>7, <2>8, <2>9 DEF Mgr!Slots
<1>7. CASE Select \/ SelectFails \/ Pick \/ PickNone \/ RecvLength
           \/ RecvBody \/ PushPktQueue \/ PacketThread \/ Post
           \/ UNCHANGED vars
  BY <1>2, <1>7 DEF Select, SelectFails, Pick, PickNone, RecvLength, RecvBody,
     PushPktQueue, PacketThread, Post, vars, client_vars, loop_vars
<1>8. QED
  BY <1>3, <1>4, <1>5, <1>6, <1>7 DEF Next, SelectThread

(* A packet is queued under the id its client has in the table.            *)
LEMMA ReceivedStep ==
  ASSUME ServerInv, WireInv, [Next]_vars, announced \subseteq announced'
  PROVE  ReceivedOK'
<1> USE DEF WireInv, ReceivedOK
<1>1. ASSUME UNCHANGED received PROVE ReceivedOK'
  BY <1>1 DEF Mgr!Slots
<1>2. CASE RecvBody
  <2> DEFINE s == client_sock.sock
             c == client_sock.client_id
             p == [conn |-> s, frame |-> reads[s] + 1, len |-> BodyUnits]
             pkt == [client_id |-> c, payload |-> p]
  <2>1. received' = Append(received, pkt)
    BY <1>2 DEF RecvBody, Pkt!ReadPkt
  <2>2. pkt \in [client_id : Mgr!Slots, payload : Payloads]
        /\ <<pkt.payload.conn, pkt.client_id>> \in announced
    BY <1>2, PacketRead
  <2> HIDE DEF pkt
  <2>3. /\ received' \in Seq([client_id : Mgr!Slots, payload : Payloads])
        /\ \A i \in 1..Len(received') :
             <<received'[i].payload.conn, received'[i].client_id>> \in announced
    BY <2>1, <2>2
  <2>4. QED
    BY <2>3 DEF Mgr!Slots
<1>3. CASE PushPktQueue \/ PacketThread
  BY <1>1, <1>3 DEF PushPktQueue, PacketThread, Pkt!push_pkt_queue,
     Pkt!PushFits, Pkt!PushDropped, Pkt!PushRefused, Pkt!run, Pkt!Wait,
     Pkt!PopId, Pkt!PopPayload, Pkt!OnMessage, Pkt!SpuriousWakeup,
     Pkt!push_vars
<1>4. CASE Client
  BY <1>1, <1>4 DEF Client, Connect, SendLength, SendUnit, Close, Reset,
     queue_vars
<1>5. CASE Select \/ SelectFails \/ AcceptFails \/ AcceptOverflow \/ Accept
           \/ Pick \/ PickNone \/ RecvLengthFails \/ RecvLength
           \/ RecvBodyFails \/ Post \/ UNCHANGED vars
  BY <1>1, <1>5 DEF Select, SelectFails, AcceptFails, AcceptOverflow, Accept,
     Pick, PickNone, RecvLengthFails, RecvLength, RecvBodyFails, Drop, Post,
     vars, queue_vars
<1>6. QED
  BY <1>2, <1>3, <1>4, <1>5 DEF Next, SelectThread

-----------------------------------------------------------------------------
(* Both invariants hold when the threads start, and the queue is empty.    *)
LEMMA FullInit ==
  Init => ServerInv /\ WireInv /\ Queue!Init
<1> SUFFICES ASSUME Init PROVE ServerInv /\ WireInv /\ Queue!Init
  OBVIOUS
<1>1. Mgr!InUse = {}
  BY DEF Init, Mgr!Init, Mgr!InUse, Mgr!Free
<1>2. WireOK
  BY DEF Init, WireOK
<1>3. LengthsOK
  BY DEF Init, LengthsOK
<1>4. AnnouncedOK
  BY <1>1 DEF Init, AnnouncedOK
<1>5. ReceivedOK
  BY DEF Init, Pkt!Init, ReceivedOK
<1>6. Queue!Init
  BY DEF Init, Pkt!Init, Queue!Init, Pkt!NoEntry, Queue!NoEntry
<1>7. QED
  BY <1>2, <1>3, <1>4, <1>5, <1>6, ServerInit DEF WireInv

(* Every step keeps both invariants, and is one of the queue's for it.     *)
LEMMA FullStep ==
  ServerInv /\ WireInv /\ [Next]_vars =>
    ServerInv' /\ WireInv' /\ [Queue!Next]_(Queue!vars)
BY ServerStep, QueueStep, WireStep, LengthsStep, AnnouncedStep, ReceivedStep DEF WireInv

(* The steps of the server, with nothing said of their fairness.           *)
SafeSpec == Init /\ [][Next]_vars

(* What is known of the running server, and of the queue in it.            *)
LEMMA ServerKnown ==
  SafeSpec => []ServerInv /\ []WireInv /\ Queue!SafeSpec /\ []Queue!Paired
<1>1. SafeSpec => []ServerInv /\ []WireInv
  BY FullInit, FullStep, PTL DEF SafeSpec
<1>2. SafeSpec => Queue!SafeSpec
  <2>1. Init => Queue!Init
    BY FullInit
  <2>2. ServerInv /\ WireInv /\ [Next]_vars => [Queue!Next]_(Queue!vars)
    BY FullStep
  <2>3. QED
    BY <1>1, <2>1, <2>2, PTL DEF SafeSpec, Queue!SafeSpec
<1>3. Queue!SafeSpec => []Queue!Paired
  BY QueueAssumed, Queue!PairedSafely
<1>4. QED
  BY <1>1, <1>2, <1>3, PTL

(* A message carries what was handed to the queue for it.                  *)
LEMMA MessageKnown ==
  ASSUME WireInv, Queue!Paired, Lossless, NEW i \in 1..Len(messages)
  PROVE  LET m == Pkt!Delivered[i]
         IN  <<m.payload.conn, m.client_id>> \in announced
<1>1. i <= Len(received) /\ Queue!Delivered[i] = received[i]
  BY DEF Queue!Paired, Lossless
<1>2. Pkt!Delivered = Queue!Delivered
  BY DEF Pkt!Delivered, Queue!Delivered, Pkt!ClientIdIn, Queue!ClientIdIn,
     Pkt!PayloadIn, Queue!PayloadIn
<1>3. i \in 1..Len(received)
  BY <1>1 DEF WireInv, ReceivedOK
<1>4. QED
  BY <1>1, <1>2, <1>3 DEF WireInv, ReceivedOK

(* on_connect has been called for the client of every message, with the id *)
(* of the message, as long as the queue drops nothing and never comes back *)
(* empty-handed.                                                           *)
LEMMA MessageAfterConnectSafely == SafeSpec => []MessageAfterConnect
<1>1. WireInv /\ Queue!Paired => MessageAfterConnect
  BY MessageKnown DEF MessageAfterConnect
<1>2. QED
  BY <1>1, ServerKnown, PTL

(* The same, of the fair specification.                                    *)
THEOREM MessageAfterConnectAlways == Spec => []MessageAfterConnect
BY MessageAfterConnectSafely, PTL DEF Spec, SafeSpec

(* The id of a message is the slot of its client for as long as the client *)
(* is connected.                                                           *)
LEMMA IdNamesSenderSafely == SafeSpec => []IdNamesSender
<1>1. WireInv /\ Queue!Paired => IdNamesSender
  <2> SUFFICES ASSUME WireInv, Queue!Paired, Lossless, NEW i \in 1..Len(messages)
               PROVE  LET m == Pkt!Delivered[i]
                      IN  m.payload.conn \in Registered =>
                            client_sock_list[m.client_id] = m.payload.conn
    BY DEF IdNamesSender
  <2> DEFINE m == Pkt!Delivered[i]
             a == <<m.payload.conn, m.client_id>>
  <2>1. a \in announced
    BY MessageKnown
  <2> HIDE DEF m
  <2>2. a[1] \in Registered => client_sock_list[a[2]] = a[1]
    BY <2>1 DEF WireInv, AnnouncedOK
  <2>3. QED
    BY <2>2 DEF m
<1>2. QED
  BY <1>1, ServerKnown, PTL

(* The same, of the fair specification.                                    *)
THEOREM IdNamesSenderAlways == Spec => []IdNamesSender
BY IdNamesSenderSafely, PTL DEF Spec, SafeSpec

(* A client leaves the table only when it was found closed or aborted, or  *)
(* when a length was read that it had announced and that is not good.      *)
LEMMA DropForCause ==
  ASSUME ServerInv, WireInv, [Next]_vars, NEW c \in Registered,
         c \notin Registered'
  PROVE  Faulty(c)
<1>1. ASSUME UNCHANGED mgr_vars PROVE FALSE
  BY <1>1 DEF mgr_vars, Registered, Mgr!InUse, Mgr!Free, Mgr!Slots
<1>2. ASSUME select_pc \in {"recv_len", "recv_body"}, Drop
      PROVE  c = client_sock.sock /\ c \in Conns
  <2>1. PICK i \in Mgr!InUse :
          client_sock = [sock |-> client_sock_list[i], client_id |-> i]
    BY <1>2 DEF ServerInv, LoopOK
  <2>2. Mgr!delete_client_sock([sock |-> client_sock_list[i], client_id |-> i])
    BY <1>2, <2>1 DEF Drop
  <2>3. Registered' = Registered \ {client_sock_list[i]}
    BY <2>2, DropStep DEF ServerInv
  <2>4. client_sock_list[i] \in Conns
    BY DEF ServerInv, TableOK, Mgr!InUse, Mgr!Free
  <2>5. QED
    BY <2>1, <2>3, <2>4
<1>3. CASE RecvLengthFails
  <2>1. c = client_sock.sock /\ c \in Conns /\ LengthRefused
    BY <1>2, <1>3 DEF RecvLengthFails, At
  <2>2. CASE unread[c] = <<>>
    BY <2>1, <2>2 DEF LengthRefused, Faulty
  <2>3. CASE unread[c] # <<>>
    <3>1. unread[c] \in Seq(WireFrames)
          /\ \A j \in 1..Len(unread[c]) : Announces(c, unread[c][j].len)
      BY <2>1 DEF WireInv, WireOK, LengthsOK
    <3>2. Announces(c, Head(unread[c]).len)
      BY <2>3, <3>1
    <3>3. Head(unread[c]).len \notin 1..PayloadLen
      BY <2>1, <2>3 DEF LengthRefused
    <3>4. QED
      BY <3>2, <3>3 DEF Announces, Faulty
  <2>4. QED
    BY <2>2, <2>3
<1>4. CASE RecvBodyFails
  BY <1>2, <1>4 DEF RecvBodyFails, At, Faulty
<1>5. CASE Accept
  <2>1. Mgr!add_client_sock(Head(backlog)) /\ current_client_cnt < MaxSockNum
        /\ backlog # <<>>
    BY <1>5 DEF Accept, At, ServerInv, LoopOK
  <2>2. Registered' = Registered \cup {Head(backlog)}
    BY <2>1, AddStep, BacklogHead DEF ServerInv
  <2>3. QED
    BY <2>2
<1>6. CASE Client
  BY <1>1, <1>6 DEF Client, Connect, SendLength, SendUnit, Close, Reset
<1>7. CASE Select \/ SelectFails \/ AcceptFails \/ AcceptOverflow \/ Pick
           \/ PickNone \/ RecvLength \/ RecvBody \/ PushPktQueue
           \/ PacketThread \/ Post \/ UNCHANGED vars
  BY <1>1, <1>7 DEF Select, SelectFails, AcceptFails, AcceptOverflow, Pick,
     PickNone, RecvLength, RecvBody, PushPktQueue, PacketThread, Post, vars
<1>8. QED
  BY <1>3, <1>4, <1>5, <1>6, <1>7 DEF Next, SelectThread

(* What others do never costs a client its connection.                     *)
THEOREM DroppedForCauseAlways == Spec => DroppedForCause
<1>1. ServerInv /\ WireInv /\ [Next]_vars =>
        [\A c \in Registered : c \in Registered' \/ Faulty(c)]_vars
  BY DropForCause
<1>2. QED
  BY <1>1, ServerKnown, PTL DEF Spec, SafeSpec, DroppedForCause

-----------------------------------------------------------------------------
(* FramesInOrder speaks of the calls of on_message.  It holds because the  *)
(* stream of each connection is read from its start without a gap: what    *)
(* waits to be read is what the client announced after the packets that    *)
(* were read, and all of it but the last packet is there.                  *)
Cut == {"reset", "gone"}

Link(c) ==
  IF peer[c] \in Cut THEN unread[c] = <<>>
  ELSE /\ reads[c] + Len(unread[c]) = Len(frames[c])
       /\ \A k \in 1..Len(unread[c]) :
            /\ unread[c][k].len = frames[c][reads[c] + k]
            /\ k < Len(unread[c]) => Complete(unread[c][k])
LinkOK == \A c \in Conns : Link(c)

(* The length that was read is that of the packet whose body comes next,   *)
(* unless the client has aborted since.                                    *)
LengthHeld == LET s == client_sock.sock
              IN  \/ peer[s] = "reset"
                  \/ unread[s] # <<>> /\ Head(unread[s]).len = total_pkt_len
HeldOK == select_pc = "recv_body" => LengthHeld

(* The packets of a connection among the first n that were queued.         *)
FramesUpTo(c, n) ==
  {received[j].payload.frame : j \in {k \in 1..n : received[k].payload.conn = c}}

(* They are queued one by one, and each is whole or the last of all.       *)
OrderOK ==
  /\ \A i \in 1..Len(received) :
       LET p == received[i].payload
       IN  FramesUpTo(p.conn, i - 1) = 1..p.frame - 1
  /\ \A c \in Conns : FramesUpTo(c, Len(received)) = 1..reads[c]

Ended == {"closed", "reset", "gone"}
Whole(p) ==
  \/ p.frame \in 1..Len(frames[p.conn]) /\ p.len = frames[p.conn][p.frame]
  \/ p.frame = Len(frames[p.conn]) /\ peer[p.conn] \in Ended
WholeOK == \A i \in 1..Len(received) : Whole(received[i].payload)

OrderInv == LinkOK /\ HeldOK /\ OrderOK /\ WholeOK
-----------------------------------------------------------------------------
(* A connection keeps its link if nothing happens to it, or if what waits  *)
(* is thrown away as it is lost.                                           *)
LEMMA LinkKept ==
  ASSUME NEW c \in Conns, Link(c),
         UNCHANGED <<unread[c], frames[c], reads[c]>>,
         peer[c] \in Cut <=> peer'[c] \in Cut
  PROVE  Link(c)'
BY DEF Link, Complete, Cut

(* A length is appended to what was announced and to what waits.           *)
LEMMA LengthLinked ==
  ASSUME WireInv, LinkOK, NEW c \in Conns, NEW n \in Lens, SendLength(c, n)
  PROVE  Link(c)'
<1> DEFINE f == [len |-> n, here |-> 0]
<1>1. /\ unread \in [Conns -> Seq(WireFrames)] /\ frames \in [Conns -> Seq(Lens)]
      /\ reads \in [Conns -> Nat] /\ Link(c)
  BY DEF WireInv, WireOK, LinkOK
<1>2. /\ unread'[c] = Append(unread[c], f) /\ frames'[c] = Append(frames[c], n)
      /\ peer' = peer /\ peer[c] = "open" /\ reads' = reads
      /\ unread[c] # <<>> => Complete(unread[c][Len(unread[c])])
  BY <1>1 DEF SendLength, loop_vars
<1>3. f \in WireFrames /\ f.len = n
  BY DEF WireFrames, Frames
<1> HIDE DEF f
<1>4. /\ reads[c] + Len(unread[c]) = Len(frames[c])
      /\ \A k \in 1..Len(unread[c]) :
           /\ unread[c][k].len = frames[c][reads[c] + k]
           /\ k < Len(unread[c]) => Complete(unread[c][k])
  BY <1>1, <1>2 DEF Link, Cut
<1>5. /\ Len(unread'[c]) = Len(unread[c]) + 1 /\ unread'[c][Len(unread[c]) + 1] = f
      /\ Len(frames'[c]) = Len(frames[c]) + 1 /\ frames'[c][Len(frames[c]) + 1] = n
      /\ \A k \in 1..Len(unread[c]) : unread'[c][k] = unread[c][k]
      /\ \A k \in 1..Len(frames[c]) : frames'[c][k] = frames[c][k]
      /\ Len(unread[c]) \in Nat /\ Len(frames[c]) \in Nat /\ reads[c] \in Nat
      /\ reads'[c] = reads[c]
  BY <1>1, <1>2, <1>3
<1>6. /\ reads'[c] + Len(unread'[c]) = Len(frames'[c])
      /\ reads'[c] + (Len(unread[c]) + 1) = Len(frames[c]) + 1
      /\ \A k \in 1..Len(unread[c]) : reads[c] + k \in 1..Len(frames[c])
  <2>1. PICK r, u, g \in Nat :
          r = reads[c] /\ u = Len(unread[c]) /\ g = Len(frames[c])
    BY <1>5
  <2>2. r + u = g
    BY <1>4, <2>1
  <2>3. r + (u + 1) = g + 1 /\ \A k \in 1..u : r + k \in 1..g
    BY <2>2
  <2>4. QED
    BY <1>5, <2>1, <2>3
<1>7. ASSUME NEW k \in 1..Len(unread'[c])
      PROVE  /\ unread'[c][k].len = frames'[c][reads'[c] + k]
             /\ k < Len(unread'[c]) => Complete(unread'[c][k])
  <2>1. CASE k = Len(unread[c]) + 1
    <3>1. unread'[c][k].len = n
      BY <1>3, <1>5, <2>1
    <3>2. reads'[c] + k = Len(frames[c]) + 1
      BY <1>6, <2>1
    <3>3. QED
      BY <1>5, <2>1, <3>1, <3>2
  <2>2. CASE k \in 1..Len(unread[c])
    <3>1. reads[c] + k \in 1..Len(frames[c])
      BY <1>6, <2>2
    <3>2. unread'[c][k].len = frames'[c][reads'[c] + k]
      BY <1>2, <1>4, <1>5, <2>2, <3>1
    <3>3. Complete(unread[c][k])
      BY <1>2, <1>4, <1>5, <2>2
    <3>4. QED
      BY <1>5, <2>2, <3>2, <3>3
  <2>3. QED
    BY <1>5, <2>1, <2>2
<1>8. QED
  <2>1. peer'[c] \notin Cut
    BY <1>2 DEF Cut
  <2>2. QED
    BY <1>6, <1>7, <2>1 DEF Link, Complete

(* A unit is added to the last packet that waits.                          *)
LEMMA UnitLinked ==
  ASSUME WireInv, LinkOK, NEW c \in Conns, SendUnit(c)
  PROVE  Link(c)'
<1> DEFINE last == Len(unread[c])
           f    == unread[c][last]
           g    == [f EXCEPT !.here = @ + 1]
<1>1. /\ unread \in [Conns -> Seq(WireFrames)] /\ Link(c)
  BY DEF WireInv, WireOK, LinkOK
<1>2. /\ unread'[c] = [unread[c] EXCEPT ![last] = g] /\ unread[c] # <<>>
      /\ UNCHANGED <<peer, frames, reads>> /\ peer[c] = "open"
  BY <1>1 DEF SendUnit, loop_vars
<1>3. last \in 1..Len(unread[c]) /\ f \in WireFrames
  BY <1>1, <1>2
<1>4. g.len = f.len
  <2> HIDE DEF f
  <2>1. f \in Frames
    BY <1>3 DEF WireFrames
  <2>2. QED
    BY <2>1, UnitAdded
<1> HIDE DEF g
<1>5. /\ Len(unread'[c]) = Len(unread[c])
      /\ \A k \in 1..Len(unread[c]) : /\ unread'[c][k].len = unread[c][k].len
                                      /\ k < last => unread'[c][k] = unread[c][k]
  BY <1>1, <1>2, <1>3, <1>4
<1>6. QED
  BY <1>1, <1>2, <1>5 DEF Link, Cut, Complete

(* The first packet that waits has been read.                              *)
LEMMA ReadLinked ==
  ASSUME WireInv, LinkOK, NEW s \in Conns, unread[s] # <<>>,
         reads' = [reads EXCEPT ![s] = @ + 1],
         unread' = [unread EXCEPT ![s] = Tail(@)],
         UNCHANGED <<peer, frames>>
  PROVE  Link(s)'
<1>1. /\ unread \in [Conns -> Seq(WireFrames)] /\ frames \in [Conns -> Seq(Lens)]
      /\ reads \in [Conns -> Nat] /\ Link(s)
  BY DEF WireInv, WireOK, LinkOK
<1>2. /\ reads'[s] = reads[s] + 1 /\ Len(unread'[s]) = Len(unread[s]) - 1
      /\ \A k \in 1..Len(unread'[s]) : /\ k + 1 \in 1..Len(unread[s])
                                        /\ unread'[s][k] = unread[s][k + 1]
      /\ reads[s] \in Nat /\ Len(unread[s]) \in Nat /\ Len(unread'[s]) \in Nat
  BY <1>1
<1>3. peer[s] \notin Cut
  BY <1>1 DEF Link
<1>4. ASSUME NEW k \in 1..Len(unread'[s])
      PROVE  /\ unread'[s][k].len = frames'[s][reads'[s] + k]
             /\ k < Len(unread'[s]) => Complete(unread'[s][k])
  <2>1. reads'[s] + k = reads[s] + (k + 1)
    BY <1>2
  <2>2. QED
    BY <1>1, <1>2, <1>3, <2>1 DEF Link
<1>5. reads'[s] + Len(unread'[s]) = Len(frames'[s])
  BY <1>1, <1>2, <1>3 DEF Link
<1>6. QED
  BY <1>3, <1>4, <1>5 DEF Link, Complete

(* Every connection keeps its link.                                        *)
LEMMA LinkStep ==
  ASSUME ServerInv, WireInv, LinkOK, [Next]_vars
  PROVE  LinkOK'
<1>0. /\ peer \in [Conns -> Known \cup {"new", "gone"}]
      /\ unread \in [Conns -> Seq(WireFrames)] /\ frames \in [Conns -> Seq(Lens)]
      /\ reads \in [Conns -> Nat] /\ \A c \in Conns : Link(c)
  BY DEF ServerInv, RegisteredOK, WireInv, WireOK, LinkOK
<1>1. ASSUME UNCHANGED <<unread, frames, reads, peer>> PROVE LinkOK'
  BY <1>0, <1>1, LinkKept DEF LinkOK
<1>2. ASSUME NEW c \in Conns, UNCHANGED <<frames, reads>>,
             unread' = [unread EXCEPT ![c] = <<>>],
             \E state \in Cut : peer' = [peer EXCEPT ![c] = state]
      PROVE  LinkOK'
  <2>1. Link(c)'
    BY <1>0, <1>2 DEF Link
  <2>2. ASSUME NEW d \in Conns, d # c PROVE Link(d)'
    BY <1>0, <1>2, <2>2, LinkKept
  <2>3. QED
    BY <2>1, <2>2 DEF LinkOK
<1>3. ASSUME NEW c \in Conns, NEW n \in Lens, SendLength(c, n)
      PROVE  LinkOK'
  <2>1. ASSUME NEW d \in Conns, d # c PROVE Link(d)'
    BY <1>0, <1>3, <2>1, LinkKept DEF SendLength, loop_vars
  <2>2. QED
    BY <1>3, <2>1, LengthLinked DEF LinkOK
<1>4. ASSUME NEW c \in Conns, SendUnit(c)
      PROVE  LinkOK'
  <2>1. ASSUME NEW d \in Conns, d # c PROVE Link(d)'
    BY <1>0, <1>4, <2>1, LinkKept DEF SendUnit, loop_vars
  <2>2. QED
    BY <1>4, <2>1, UnitLinked DEF LinkOK
<1>5. CASE Client
  <2>1. ASSUME NEW c \in Conns, Connect(c) \/ Close(c)
        PROVE  LinkOK'
    <3>1. /\ UNCHANGED <<unread, frames, reads>> /\ peer[c] \notin Cut
          /\ peer'[c] \notin Cut /\ \A d \in Conns : d # c => peer'[d] = peer[d]
      BY <1>0, <2>1 DEF Connect, Close, loop_vars, Cut
    <3>2. QED
      BY <1>0, <3>1, LinkKept DEF LinkOK
  <2>2. ASSUME NEW c \in Conns, Reset(c)
        PROVE  LinkOK'
    BY <1>2, <2>2 DEF Reset, loop_vars, Cut
  <2>3. QED
    BY <1>3, <1>4, <1>5, <2>1, <2>2 DEF Client
<1>6. CASE AcceptOverflow
  <2>1. Head(backlog) \in Conns
    BY <1>6, BacklogHead DEF AcceptOverflow, At, ServerInv, LoopOK
  <2>2. QED
    BY <1>2, <1>6, <2>1 DEF AcceptOverflow, CloseSocket, Cut
<1>7. ASSUME select_pc \in {"recv_len", "recv_body"}, Drop
      PROVE  LinkOK'
  <2>1. client_sock.sock \in Conns
    BY <1>7 DEF ServerInv, LoopOK, TableOK, Mgr!InUse, Mgr!Free
  <2>2. QED
    BY <1>2, <1>7, <2>1 DEF Drop, CloseSocket, Cut
<1>8. CASE RecvBody
  <2> DEFINE s == client_sock.sock
  <2>1. s \in Conns /\ unread[s] # <<>>
    BY <1>8, PacketRead
  <2> HIDE DEF s
  <2>2. /\ reads' = [reads EXCEPT ![s] = @ + 1]
        /\ unread' = [unread EXCEPT ![s] = Tail(@)]
        /\ UNCHANGED <<peer, frames>>
    BY <1>8 DEF RecvBody, s
  <2>3. ASSUME NEW d \in Conns, d # s PROVE Link(d)'
    BY <1>0, <2>2, <2>3, LinkKept
  <2>4. QED
    BY <2>1, <2>2, <2>3, ReadLinked DEF LinkOK
<1>9. CASE RecvLengthFails \/ RecvBodyFails
  BY <1>7, <1>9 DEF RecvLengthFails, RecvBodyFails, At
<1>10. CASE Select \/ SelectFails \/ AcceptFails \/ Accept \/ Pick
            \/ PickNone \/ RecvLength \/ PushPktQueue \/ PacketThread
            \/ Post \/ UNCHANGED vars
  BY <1>1, <1>10 DEF Select, SelectFails, AcceptFails, Accept, Pick,
     PickNone, RecvLength, PushPktQueue, PacketThread, Post, vars,
     client_vars, loop_vars
<1>11. QED
  BY <1>5, <1>6, <1>8, <1>9, <1>10 DEF Next, SelectThread

(* While the loop waits for a body, its client can only send more of it,   *)
(* announce what comes after it, or go away.                               *)
LEMMA HeldStep ==
  ASSUME ServerInv, WireInv, HeldOK, [Next]_vars
  PROVE  HeldOK'
<1>0. /\ peer \in [Conns -> Known \cup {"new", "gone"}]
      /\ unread \in [Conns -> Seq(WireFrames)] /\ HeldOK
  BY DEF ServerInv, RegisteredOK, WireInv, WireOK
<1>1. ASSUME UNCHANGED <<peer, unread, select_pc, client_sock, total_pkt_len>>
      PROVE  HeldOK'
  BY <1>0, <1>1 DEF HeldOK, LengthHeld
<1>2. ASSUME select_pc' # "recv_body" PROVE HeldOK'
  BY <1>2 DEF HeldOK
<1>3. CASE Client
  <2>1. SUFFICES ASSUME select_pc = "recv_body" PROVE HeldOK'
    BY <1>2, <1>3 DEF Client, Connect, SendLength, SendUnit, Close, Reset, loop_vars
  <2>2. UNCHANGED <<select_pc, client_sock, total_pkt_len>>
    BY <1>3 DEF Client, Connect, SendLength, SendUnit, Close, Reset, loop_vars
  <2>3. PICK s \in Conns : s = client_sock.sock
    BY <2>1 DEF ServerInv, LoopOK, TableOK, Mgr!InUse, Mgr!Free
  <2>4. \/ peer[s] = "reset"
        \/ unread[s] # <<>> /\ Head(unread[s]).len = total_pkt_len
    BY <1>0, <2>1, <2>3 DEF HeldOK, LengthHeld
  <2>5. SUFFICES \/ peer'[s] = "reset"
                 \/ unread'[s] # <<>> /\ Head(unread'[s]).len = total_pkt_len
    BY <2>2, <2>3 DEF HeldOK, LengthHeld
  <2>6. ASSUME NEW c \in Conns, Connect(c) \/ Close(c)
        PROVE  \/ peer'[s] = "reset"
               \/ unread'[s] # <<>> /\ Head(unread'[s]).len = total_pkt_len
    BY <1>0, <2>4, <2>6 DEF Connect, Close
  <2>7. ASSUME NEW c \in Conns, Reset(c)
        PROVE  \/ peer'[s] = "reset"
               \/ unread'[s] # <<>> /\ Head(unread'[s]).len = total_pkt_len
    BY <1>0, <2>4, <2>7 DEF Reset
  <2>8. ASSUME NEW c \in Conns, NEW n \in Lens, SendLength(c, n)
        PROVE  \/ peer'[s] = "reset"
               \/ unread'[s] # <<>> /\ Head(unread'[s]).len = total_pkt_len
    <3> DEFINE f == [len |-> n, here |-> 0]
    <3>1. unread' = [unread EXCEPT ![c] = Append(@, f)] /\ peer' = peer
      BY <2>8 DEF SendLength
    <3>2. f \in WireFrames
      BY DEF WireFrames, Frames
    <3> HIDE DEF f
    <3>3. unread[s] # <<>> => unread'[s] # <<>> /\ Head(unread'[s]) = Head(unread[s])
      BY <1>0, <3>1, <3>2
    <3>4. QED
      BY <2>4, <3>1, <3>3
  <2>9. ASSUME NEW c \in Conns, SendUnit(c)
        PROVE  \/ peer'[s] = "reset"
               \/ unread'[s] # <<>> /\ Head(unread'[s]).len = total_pkt_len
    <3> DEFINE last == Len(unread[c])
               f    == unread[c][last]
               g    == [f EXCEPT !.here = @ + 1]
    <3>1. /\ unread' = [unread EXCEPT ![c] = [@ EXCEPT ![last] = g]]
          /\ unread[c] # <<>> /\ peer' = peer
      BY <2>9 DEF SendUnit
    <3>2. last \in 1..Len(unread[c]) /\ f \in WireFrames
      BY <1>0, <3>1
    <3>3. g.len = f.len
      <4> HIDE DEF f
      <4>1. f \in Frames
        BY <3>2 DEF WireFrames
      <4>2. QED
        BY <4>1, UnitAdded
    <3> HIDE DEF g
    <3>4. CASE s = c
      <4>1. /\ unread'[s] = [unread[s] EXCEPT ![last] = g]
            /\ Len(unread'[s]) = Len(unread[s]) /\ unread'[s] # <<>>
        BY <1>0, <3>1, <3>2, <3>4
      <4>2. unread'[s][1].len = unread[s][1].len /\ Head(unread[s]) = unread[s][1]
            /\ Head(unread'[s]) = unread'[s][1]
        BY <1>0, <3>1, <3>2, <3>3, <3>4, <4>1
      <4>3. QED
        BY <2>4, <3>1, <4>1, <4>2
    <3>5. CASE s # c
      BY <1>0, <2>4, <3>1, <3>5
    <3>6. QED
      BY <3>4, <3>5
  <2>10. QED
    BY <1>3, <2>6, <2>7, <2>8, <2>9 DEF Client
<1>4. CASE RecvLength
  BY <1>4 DEF RecvLength, HeldOK, LengthHeld, client_vars
<1>5. CASE Select \/ SelectFails \/ AcceptFails \/ AcceptOverflow \/ Accept
           \/ Pick \/ PickNone \/ RecvLengthFails \/ RecvBodyFails \/ RecvBody
  BY <1>2, <1>5 DEF Select, SelectFails, AcceptFails, AcceptOverflow, Accept,
     Pick, PickNone, RecvLengthFails, RecvBodyFails, Drop, RecvBody, EndOfRound
<1>6. CASE PushPktQueue \/ PacketThread \/ Post \/ UNCHANGED vars
  BY <1>1, <1>6 DEF PushPktQueue, PacketThread, Post, vars, client_vars, loop_vars
<1>7. QED
  BY <1>3, <1>4, <1>5, <1>6 DEF Next, SelectThread

-----------------------------------------------------------------------------
(* Only RecvBody queues a packet.                                          *)
LEMMA OnlyReads ==
  ASSUME [Next]_vars
  PROVE  RecvBody \/ UNCHANGED <<received, reads>>
<1>1. CASE PushPktQueue \/ PacketThread
  BY <1>1 DEF PushPktQueue, PacketThread, Pkt!push_pkt_queue,
     Pkt!PushFits, Pkt!PushDropped, Pkt!PushRefused, Pkt!run, Pkt!Wait,
     Pkt!PopId, Pkt!PopPayload, Pkt!OnMessage, Pkt!SpuriousWakeup,
     Pkt!push_vars, loop_vars
<1>2. CASE Client
  BY <1>2 DEF Client, Connect, SendLength, SendUnit, Close, Reset,
     queue_vars, loop_vars
<1>3. CASE Select \/ SelectFails \/ AcceptFails \/ AcceptOverflow \/ Accept
           \/ Pick \/ PickNone \/ RecvLengthFails \/ RecvLength
           \/ RecvBodyFails \/ Post \/ UNCHANGED vars
  BY <1>3 DEF Select, SelectFails, AcceptFails, AcceptOverflow, Accept,
     Pick, PickNone, RecvLengthFails, RecvLength, RecvBodyFails, Drop, Post,
     vars, queue_vars, loop_vars
<1>4. QED
  BY <1>1, <1>2, <1>3 DEF Next, SelectThread

(* A client that has gone away does not come back, and only one that has   *)
(* not announces another packet.                                           *)
LEMMA EndStays ==
  ASSUME ServerInv, WireInv, [Next]_vars, NEW c \in Conns
  PROVE  /\ peer[c] \in Ended => peer'[c] \in Ended
         /\ \/ frames'[c] = frames[c]
            \/ peer[c] \notin Ended /\ \E n \in Lens : frames'[c] = Append(frames[c], n)
<1>0. /\ peer \in [Conns -> Known \cup {"new", "gone"}]
      /\ frames \in [Conns -> Seq(Lens)]
  BY DEF ServerInv, RegisteredOK, WireInv, WireOK
<1>1. CASE Client
  <2>1. ASSUME NEW d \in Conns, NEW n \in Lens, SendLength(d, n)
        PROVE  /\ peer' = peer
               /\ \/ frames'[c] = frames[c]
                  \/ peer[c] \notin Ended /\ frames'[c] = Append(frames[c], n)
    BY <1>0, <2>1 DEF SendLength, Ended
  <2>2. ASSUME NEW d \in Conns, Connect(d) \/ SendUnit(d) \/ Close(d) \/ Reset(d)
        PROVE  frames' = frames /\ (peer[c] \in Ended => peer'[c] \in Ended)
    BY <1>0, <2>2 DEF Connect, SendUnit, Close, Reset, Ended
  <2>3. QED
    BY <1>1, <2>1, <2>2 DEF Client
<1>2. CASE AcceptOverflow \/ RecvLengthFails \/ RecvBodyFails
  <2>1. frames' = frames /\ \E d : peer' = [peer EXCEPT ![d] = "gone"]
    BY <1>2 DEF AcceptOverflow, RecvLengthFails, RecvBodyFails, Drop, CloseSocket
  <2>2. QED
    BY <1>0, <2>1 DEF Ended
<1>3. CASE Select \/ SelectFails \/ AcceptFails \/ Accept \/ Pick
            \/ PickNone \/ RecvLength \/ RecvBody \/ PushPktQueue
            \/ PacketThread \/ Post \/ UNCHANGED vars
  BY <1>3 DEF Select, SelectFails, AcceptFails, Accept, Pick, PickNone,
     RecvLength, RecvBody, PushPktQueue, PacketThread, Post, vars, client_vars
<1>4. QED
  BY <1>1, <1>2, <1>3 DEF Next, SelectThread

(* The packet that is read is the next of its connection; it is whole, or  *)
(* its client has closed and sent no other.                                *)
LEMMA NextRead ==
  ASSUME ServerInv, WireInv, OrderInv, RecvBody
  PROVE  LET s == client_sock.sock
             p == [conn |-> s, frame |-> reads[s] + 1, len |-> BodyUnits]
         IN  /\ s \in Conns /\ received' = Append(received, [client_id |-> client_sock.client_id, payload |-> p])
             /\ reads' = [reads EXCEPT ![s] = @ + 1]
             /\ UNCHANGED <<frames, peer>> /\ Whole(p)
<1>1. PICK s \in Conns : s = client_sock.sock /\ unread[s] # <<>>
  BY PacketRead
<1>2. /\ unread[s] \in Seq(WireFrames) /\ frames[s] \in Seq(Lens)
      /\ reads[s] \in Nat /\ Link(s)
  BY DEF WireInv, WireOK, OrderInv, LinkOK
<1>3. Head(unread[s]) = unread[s][1] /\ Len(unread[s]) \in Nat \ {0}
  BY <1>1, <1>2
<1>4. /\ reads[s] + Len(unread[s]) = Len(frames[s])
      /\ unread[s][1].len = frames[s][reads[s] + 1]
      /\ 1 < Len(unread[s]) => Complete(unread[s][1])
  BY <1>1, <1>2, <1>3 DEF Link
<1>5. BodyUnits = unread[s][1].here /\ unread[s][1].len = total_pkt_len
      /\ (BodyUnits = total_pkt_len \/ peer[s] = "closed")
  <2>1. peer[s] # "reset"
    BY <1>1, <1>2 DEF Link, Cut
  <2>2. QED
    BY <1>1, <1>3, <2>1 DEF RecvBody, BodyComes, At, BodyUnits, OrderInv, HeldOK, LengthHeld
<1> DEFINE p == [conn |-> s, frame |-> reads[s] + 1, len |-> BodyUnits]
<1>6. Whole(p)
  <2>1. CASE BodyUnits = total_pkt_len \/ 1 < Len(unread[s])
    <3>1. BodyUnits = frames[s][reads[s] + 1]
      BY <1>4, <1>5, <2>1 DEF Complete
    <3>2. reads[s] + 1 \in 1..Len(frames[s])
      BY <1>2, <1>3, <1>4
    <3>3. QED
      BY <3>1, <3>2 DEF Whole
  <2>2. CASE peer[s] = "closed" /\ ~(1 < Len(unread[s]))
    <3>1. reads[s] + 1 = Len(frames[s])
      BY <1>2, <1>3, <1>4, <2>2
    <3>2. QED
      BY <2>2, <3>1 DEF Whole, Ended
  <2>3. QED
    BY <1>5, <2>1, <2>2
<1>7. QED
  BY <1>1, <1>6 DEF RecvBody, Pkt!ReadPkt

(* What is queued carries a packet of a client.                            *)
LEMMA PacketQueued ==
  ASSUME WireInv
  PROVE  \A i \in 1..Len(received) : received[i].payload \in Payloads
<1> DEFINE Queued == [client_id : Mgr!Slots, payload : Payloads]
<1>1. \A e \in Queued : e.payload \in Payloads
  OBVIOUS
<1>2. received \in Seq(Queued)
  BY DEF WireInv, ReceivedOK
<1> HIDE DEF Queued
<1>3. QED
  BY <1>1, <1>2

(* The packets that were queued are whole, or the last of their client.    *)
LEMMA WholeStep ==
  ASSUME ServerInv, WireInv, OrderInv, [Next]_vars
  PROVE  WholeOK'
<1>0. /\ received \in Seq([client_id : Mgr!Slots, payload : Payloads])
      /\ frames \in [Conns -> Seq(Lens)]
      /\ \A i \in 1..Len(received) : Whole(received[i].payload)
  BY DEF WireInv, WireOK, ReceivedOK, OrderInv, WholeOK
<1>1. ASSUME NEW p \in Payloads, Whole(p) PROVE Whole(p)'
  <2>1. p.conn \in Conns /\ p.frame \in Nat
    BY DEF Payloads
  <2>2. CASE frames'[p.conn] = frames[p.conn]
    BY <1>1, <2>1, <2>2, EndStays DEF Whole
  <2>3. CASE peer[p.conn] \notin Ended
             /\ \E n \in Lens : frames'[p.conn] = Append(frames[p.conn], n)
    <3>1. p.frame \in 1..Len(frames[p.conn]) /\ p.len = frames[p.conn][p.frame]
      BY <1>1, <2>3 DEF Whole
    <3>2. frames[p.conn] \in Seq(Lens)
      BY <1>0, <2>1
    <3>3. PICK n \in Lens : frames'[p.conn] = Append(frames[p.conn], n)
      BY <2>3
    <3>4. p.frame \in 1..Len(frames'[p.conn])
          /\ frames'[p.conn][p.frame] = frames[p.conn][p.frame]
      BY <3>1, <3>2, <3>3
    <3>5. QED
      BY <3>1, <3>4 DEF Whole
  <2>4. QED
    BY <2>1, <2>2, <2>3, EndStays
<1>2. CASE UNCHANGED received
  <2>1. ASSUME NEW i \in 1..Len(received) PROVE Whole(received[i].payload)'
    <3>1. PICK q \in Payloads : q = received[i].payload
      BY PacketQueued
    <3>2. Whole(q)
      BY <1>0, <3>1 DEF Whole
    <3>3. Whole(q)'
      BY <1>1, <3>2
    <3>4. QED
      BY <1>2, <3>1, <3>3 DEF Whole
  <2>2. QED
    BY <1>2, <2>1 DEF WholeOK
<1>3. CASE RecvBody
  <2>1. PICK p : /\ p = [conn |-> client_sock.sock, frame |-> reads[client_sock.sock] + 1,
                         len |-> BodyUnits]
    OBVIOUS
  <2>2. p \in Payloads /\ Whole(p)
        /\ received' = Append(received, [client_id |-> client_sock.client_id, payload |-> p])
    BY <1>3, <2>1, PacketRead, NextRead
  <2>3. Whole(p)'
    BY <1>1, <2>2
  <2>4. \A i \in 1..Len(received') :
          received'[i].payload = p \/ (i \in 1..Len(received) /\ received'[i] = received[i])
    BY <1>0, <2>2
  <2>5. ASSUME NEW i \in 1..Len(received') PROVE Whole(received[i].payload)'
    <3>1. CASE received'[i].payload = p
      BY <2>3, <3>1 DEF Whole
    <3>2. CASE i \in 1..Len(received) /\ received'[i] = received[i]
      <4>1. PICK q \in Payloads : q = received[i].payload
        BY <3>2, PacketQueued
      <4>2. Whole(q)
        BY <1>0, <3>2, <4>1 DEF Whole
      <4>3. Whole(q)'
        BY <1>1, <4>2
      <4>4. QED
        BY <3>2, <4>1, <4>3 DEF Whole
    <3>3. QED
      BY <2>4, <3>1, <3>2
  <2>6. QED
    BY <2>5 DEF WholeOK
<1>4. QED
  BY <1>2, <1>3, OnlyReads

(* The packets of each connection are queued one after the other.          *)
LEMMA OrderStep ==
  ASSUME ServerInv, WireInv, OrderInv, [Next]_vars
  PROVE  OrderOK'
<1>0. /\ received \in Seq([client_id : Mgr!Slots, payload : Payloads])
      /\ reads \in [Conns -> Nat] /\ OrderOK
  BY DEF WireInv, WireOK, ReceivedOK, OrderInv
<1>1. CASE UNCHANGED <<received, reads>>
  <2>1. OrderOK
    BY <1>0
  <2>2. QED
    BY <1>1, <2>1 DEF OrderOK, FramesUpTo
<1>2. CASE RecvBody
  <2>1. PICK s \in Conns : s = client_sock.sock
    BY <1>2, PacketRead
  <2>2. PICK e \in [client_id : Mgr!Slots, payload : Payloads] :
          /\ received' = Append(received, e)
          /\ e.payload.conn = s /\ e.payload.frame = reads[s] + 1
          /\ reads' = [reads EXCEPT ![s] = @ + 1]
    BY <1>2, <2>1, PacketRead, NextRead
  <2>3. PICK n \in Nat : n = Len(received)
    BY <1>0
  <2>4. /\ Len(received') = n + 1 /\ received'[n + 1] = e
        /\ \A k \in 1..n : received'[k] = received[k]
    BY <1>0, <2>2, <2>3
  <2>5. ASSUME NEW c \in Conns, NEW m \in 0..n
        PROVE  FramesUpTo(c, m)' = FramesUpTo(c, m)
    <3>1. \A k \in 1..m : received'[k] = received[k]
      BY <2>3, <2>4
    <3>2. {k \in 1..m : received'[k].payload.conn = c}
            = {k \in 1..m : received[k].payload.conn = c}
      BY <3>1
    <3>3. QED
      BY <3>1, <3>2 DEF FramesUpTo
  <2>6. ASSUME NEW c \in Conns
        PROVE  FramesUpTo(c, n + 1)' = 1..reads'[c]
    <3>1. FramesUpTo(c, n) = 1..reads[c] /\ reads[c] \in Nat
      BY <1>0, <2>3 DEF OrderOK
    <3>2. FramesUpTo(c, n + 1)'
            = FramesUpTo(c, n)' \cup (IF c = s THEN {reads[s] + 1} ELSE {})
      <4>1. {k \in 1..n + 1 : received'[k].payload.conn = c}
              = {k \in 1..n : received'[k].payload.conn = c}
                  \cup (IF c = s THEN {n + 1} ELSE {})
        BY <2>2, <2>4
      <4>2. received'[n + 1].payload.frame = reads[s] + 1
        BY <2>2, <2>4
      <4>3. QED
        BY <4>1, <4>2 DEF FramesUpTo
    <3>3. FramesUpTo(c, n)' = 1..reads[c]
      BY <2>5, <3>1
    <3>4. CASE c = s
      <4>1. reads'[c] = reads[c] + 1
        BY <1>0, <2>2, <3>4
      <4>2. 1..reads[c] + 1 = (1..reads[c]) \cup {reads[c] + 1}
        BY <3>1
      <4>3. QED
        BY <3>2, <3>3, <3>4, <4>1, <4>2
    <3>5. CASE c # s
      <4>1. reads'[c] = reads[c]
        BY <1>0, <2>2, <3>5
      <4>2. QED
        BY <3>2, <3>3, <3>5, <4>1
    <3>6. QED
      BY <3>4, <3>5
  <2>7. ASSUME NEW i \in 1..n + 1
        PROVE  LET p == received[i].payload
               IN  (FramesUpTo(p.conn, i - 1) = 1..p.frame - 1)'
    <3>1. PICK p \in Payloads : p = received'[i].payload
      <4>1. CASE i = n + 1
        BY <2>4, <4>1
      <4>2. CASE i \in 1..n
        BY <2>3, <2>4, <4>2, PacketQueued
      <4>3. QED
        BY <4>1, <4>2
    <3>2. p.conn \in Conns /\ p.frame \in Nat
      BY DEF Payloads
    <3>3. FramesUpTo(p.conn, i - 1)' = FramesUpTo(p.conn, i - 1)
      BY <2>5, <3>2
    <3>4. FramesUpTo(p.conn, i - 1) = 1..p.frame - 1
      <4>1. CASE i = n + 1
        <5>1. p.conn = s /\ p.frame = reads[s] + 1 /\ reads[s] \in Nat
          BY <1>0, <2>2, <2>4, <3>1, <4>1
        <5>2. FramesUpTo(s, n) = 1..reads[s] /\ i - 1 = n /\ p.frame - 1 = reads[s]
          BY <1>0, <2>3, <4>1, <5>1 DEF OrderOK
        <5>3. QED
          BY <5>1, <5>2
      <4>2. CASE i \in 1..n
        <5>1. p = received[i].payload
          BY <2>4, <3>1, <4>2
        <5>2. QED
          BY <1>0, <2>3, <4>2, <5>1 DEF OrderOK
      <4>3. QED
        BY <4>1, <4>2
    <3>5. QED
      BY <3>1, <3>3, <3>4 DEF FramesUpTo
  <2>8. QED
    BY <2>4, <2>6, <2>7 DEF OrderOK
<1>3. QED
  BY <1>1, <1>2, OnlyReads

(* Nothing has been announced or read at first.                            *)
LEMMA OrderInit ==
  Init => OrderInv
<1> SUFFICES ASSUME Init PROVE OrderInv
  OBVIOUS
<1>1. LinkOK
  BY DEF Init, LinkOK, Link, Cut
<1>2. HeldOK
  BY DEF Init, HeldOK
<1>3. received = <<>> /\ reads = [c \in Conns |-> 0]
  BY DEF Init, Pkt!Init
<1>4. OrderOK /\ WholeOK
  <2>1. Len(received) = 0 /\ 1..0 = {}
    BY <1>3
  <2>2. \A c \in Conns : FramesUpTo(c, 0) = {}
    BY <2>1 DEF FramesUpTo
  <2>3. QED
    BY <1>3, <2>1, <2>2 DEF OrderOK, WholeOK
<1>5. QED
  BY <1>1, <1>2, <1>4 DEF OrderInv

(* Every step keeps it.                                                    *)
LEMMA OrderInvStep ==
  ServerInv /\ WireInv /\ OrderInv /\ [Next]_vars => OrderInv'
BY LinkStep, HeldStep, OrderStep, WholeStep DEF OrderInv

(* So it is known of the running server.                                   *)
LEMMA OrderKnown == SafeSpec => []OrderInv
BY OrderInit, OrderInvStep, ServerKnown, PTL DEF SafeSpec

(* The application gets the packets of each client in the order in which   *)
(* they were sent, each once and whole but for the last one of a client    *)
(* that has gone away, as long as the queue drops nothing and never comes  *)
(* back empty-handed.                                                      *)
LEMMA FramesInOrderSafely == SafeSpec => []FramesInOrder
<1>1. WireInv /\ OrderInv /\ Queue!Paired => FramesInOrder
  <2> SUFFICES ASSUME WireInv, OrderInv, Queue!Paired, Lossless,
                      NEW i \in 1..Len(messages)
               PROVE  LET p == Pkt!Delivered[i].payload
                          before == {j \in 1..i - 1 :
                                       Pkt!Delivered[j].payload.conn = p.conn}
                      IN  /\ {Pkt!Delivered[j].payload.frame : j \in before} = 1..p.frame - 1
                          /\ \/ p.len = frames[p.conn][p.frame]
                             \/ p.frame = Len(frames[p.conn]) /\ peer[p.conn] # "open"
    BY DEF FramesInOrder
  <2>1. Pkt!Delivered = Queue!Delivered
    BY DEF Pkt!Delivered, Queue!Delivered, Pkt!ClientIdIn, Queue!ClientIdIn,
       Pkt!PayloadIn, Queue!PayloadIn
  <2>2. \A j \in 1..Len(messages) :
          j <= Len(received) /\ Pkt!Delivered[j] = received[j]
    BY <2>1 DEF Queue!Paired, Lossless
  <2>3. i \in 1..Len(received) /\ Pkt!Delivered[i] = received[i]
    BY <2>2 DEF WireInv, ReceivedOK
  <2>4. i \in Nat /\ i <= Len(messages)
    BY DEF Queue!Paired
  <2>5. \A j \in 1..i - 1 : Pkt!Delivered[j] = received[j]
    BY <2>2, <2>4
  <2>6. PICK p : p = received[i].payload
    OBVIOUS
  <2>7. FramesUpTo(p.conn, i - 1) = 1..p.frame - 1 /\ Whole(p)
    BY <2>3, <2>6 DEF OrderInv, OrderOK, WholeOK
  <2>8. {j \in 1..i - 1 : Pkt!Delivered[j].payload.conn = p.conn}
          = {k \in 1..i - 1 : received[k].payload.conn = p.conn}
    BY <2>5
  <2>9. {Pkt!Delivered[j].payload.frame :
            j \in {j \in 1..i - 1 : Pkt!Delivered[j].payload.conn = p.conn}}
          = FramesUpTo(p.conn, i - 1)
    BY <2>5, <2>8 DEF FramesUpTo
  <2>10. QED
    BY <2>3, <2>6, <2>7, <2>9 DEF Whole, Ended
<1>2. QED
  BY <1>1, ServerKnown, OrderKnown, PTL

(* The same, of the fair specification.                                    *)
THEOREM FramesInOrderAlways == Spec => []FramesInOrder
BY FramesInOrderSafely, PTL DEF Spec, SafeSpec

-----------------------------------------------------------------------------
(* The select thread's locals.                                             *)
LocalsOK ==
  /\ select_pc \in {"select", "accept", "pick", "recv_len", "recv_body",
                    "exited"}
  /\ read_socks \subseteq Conns \cup {Listener} /\ all_socks \subseteq read_socks
  /\ client_sock \in [sock : Conns \cup {NoSock}, client_id : Mgr!Slots]
  /\ total_pkt_len \in 0..PayloadLen

(* They keep to their types.                                               *)
LEMMA LocalsStep ==
  ASSUME ServerInv, WireInv, LocalsOK, [Next]_vars
  PROVE  LocalsOK'
<1> USE DEF At
<1>1. ASSUME UNCHANGED <<read_socks, all_socks, client_sock, total_pkt_len>>,
             select_pc' \in {"select", "accept", "pick", "recv_len",
                             "recv_body", "exited"}
      PROVE  LocalsOK'
  BY <1>1 DEF LocalsOK, Mgr!Slots
<1>2. ASSUME EndOfRound, read_socks' \subseteq read_socks
      PROVE  LocalsOK'
  <2>1. Mgr!DefaultClientSock \in [sock : Conns \cup {NoSock}, client_id : Mgr!Slots]
    BY DEF Mgr!DefaultClientSock, Mgr!Slots
  <2>2. Mgr!DefaultClientSock' = Mgr!DefaultClientSock
    BY DEF Mgr!DefaultClientSock
  <2>3. QED
    BY <1>2, <2>1, <2>2 DEF EndOfRound, LocalsOK, Mgr!Slots
<1>3. CASE Select
  BY <1>3 DEF Select, LocalsOK, Mgr!Slots
<1>4. CASE Accept
  <2>1. Head(backlog) \in Conns
    BY <1>4, BacklogHead DEF Accept, ServerInv, LoopOK
  <2>2. QED
    BY <1>4, <2>1 DEF Accept, FD_SET, LocalsOK, Mgr!Slots
<1>5. CASE Pick
  <2>1. PICK i \in Mgr!InUse :
          client_sock' = [sock |-> client_sock_list[i], client_id |-> i]
    BY <1>5, PickFinds DEF Pick
  <2>2. i \in Mgr!Slots /\ client_sock_list[i] \in Conns
    BY DEF ServerInv, TableOK, Mgr!InUse, Mgr!Free
  <2>3. client_sock' \in [sock : Conns \cup {NoSock}, client_id : Mgr!Slots]
    BY <2>1, <2>2
  <2>4. QED
    BY <1>5, <2>3 DEF Pick, LocalsOK, Mgr!Slots
<1>6. CASE PickNone
  BY <1>2, <1>6 DEF PickNone
<1>7. CASE RecvLengthFails \/ RecvBodyFails
  BY <1>2, <1>7 DEF RecvLengthFails, RecvBodyFails, Drop, FD_CLR
<1>8. CASE RecvLength
  <2>1. client_sock.sock \in Conns
    BY <1>8 DEF RecvLength, ServerInv, LoopOK, TableOK, Mgr!InUse, Mgr!Free
  <2>2. Head(unread[client_sock.sock]) \in WireFrames
    BY <1>8, <2>1 DEF RecvLength, WireInv, WireOK
  <2>3. Head(unread[client_sock.sock]).len \in 0..PayloadLen
    <3> DEFINE f == Head(unread[client_sock.sock])
    <3>1. ~(f.len > PayloadLen)
      BY <1>8 DEF RecvLength, LengthRefused
    <3>2. f \in WireFrames
      BY <2>2
    <3> HIDE DEF f
    <3>3. f.len \in Nat
      BY <3>2 DEF WireFrames, Frames
    <3>4. f.len \in 0..PayloadLen
      BY <3>1, <3>3
    <3>5. QED
      BY <3>4 DEF f
  <2>4. QED
    BY <1>8, <2>3 DEF RecvLength, LocalsOK, Mgr!Slots
<1>9. CASE RecvBody
  BY <1>2, <1>9 DEF RecvBody
<1>10. CASE SelectFails \/ AcceptFails \/ AcceptOverflow
  BY <1>1, <1>10 DEF SelectFails, AcceptFails, AcceptOverflow
<1>11. CASE Client
  BY <1>1, <1>11 DEF Client, Connect, SendLength, SendUnit, Close, Reset,
     loop_vars, LocalsOK
<1>12. CASE PushPktQueue \/ PacketThread \/ Post \/ UNCHANGED vars
  BY <1>1, <1>12 DEF PushPktQueue, PacketThread, Post, vars, loop_vars, LocalsOK
<1>13. QED
  BY <1>3, <1>4, <1>5, <1>6, <1>7, <1>8, <1>9, <1>10, <1>11, <1>12
     DEF Next, SelectThread

(* Every variable of the server, of its table and of its queue keeps to    *)
(* its type.                                                               *)
THEOREM TypeCorrect == Spec => []TypeOK
<1>1. Init => LocalsOK
  BY DEF Init, LocalsOK, Mgr!DefaultClientSock, Mgr!Slots
<1>2. ServerInv /\ WireInv /\ LocalsOK /\ [Next]_vars => LocalsOK'
  BY LocalsStep
<1>3. ServerInv /\ WireInv /\ LocalsOK /\ Queue!TypeOK => TypeOK
  <2> SUFFICES ASSUME ServerInv, WireInv, LocalsOK, Queue!TypeOK
               PROVE  TypeOK
    OBVIOUS
  <2>1. unread \in [Conns -> Seq(Frames)]
    <3>1. WireFrames \subseteq Frames
      BY DEF WireFrames
    <3>2. ASSUME NEW c \in Conns PROVE unread[c] \in Seq(Frames)
      <4>1. unread[c] \in Seq(WireFrames)
        BY DEF WireInv, WireOK
      <4>2. QED
        BY <3>1, <4>1
    <3>3. QED
      BY <3>2 DEF WireInv, WireOK
  <2>2. reads \in [Conns -> 0..MaxFrames]
    <3>1. ASSUME NEW c \in Conns PROVE reads[c] \in 0..MaxFrames
      BY <3>1 DEF WireInv, WireOK
    <3>2. QED
      BY <3>1 DEF WireInv, WireOK
  <2>3. Mgr!TypeOK
    BY InUseFinite DEF ServerInv, TableOK, Mgr!TypeOK
  <2>4. Pkt!TypeOK
    BY DEF Queue!TypeOK, Pkt!TypeOK, Queue!Entries, Pkt!Entries,
       Queue!NoEntry, Pkt!NoEntry, Queue!Packets, Pkt!Packets,
       Queue!Messages, Pkt!Messages
  <2>5. QED
    BY <2>1, <2>2, <2>3, <2>4 DEF TypeOK, ServerInv, BacklogOK, RegisteredOK,
       Known, LocalsOK, WireInv, WireOK, AnnouncedOK
<1>4. SafeSpec => []Queue!TypeOK
  BY ServerKnown, QueueAssumed, Queue!TypesKept, PTL
<1>5. QED
  BY <1>1, <1>2, <1>3, <1>4, ServerKnown, PTL DEF Spec, SafeSpec

-----------------------------------------------------------------------------
(* The example.  What one length more, or one unit of a payload more, does *)
(* to the lines a wire carries.                                            *)
WireUnits == [post : Nat, unit : Nat]

(* There are finitely many lengths on a wire.                              *)
LEMMA LengthsFinite ==
  ASSUME NEW w \in Seq(WireUnits)
  PROVE  /\ IsFiniteSet(Lengths(w)) /\ Cardinality(Lengths(w)) \in Nat
         /\ \A k : /\ IsFiniteSet({l \in Lengths(w) : l <= k})
                   /\ Cardinality({l \in Lengths(w) : l <= k}) \in Nat
                   /\ Cardinality({l \in Lengths(w) : l <= k}) <= Cardinality(Lengths(w))
<1>1. IsFiniteSet(1..Len(w)) /\ Lengths(w) \in SUBSET (1..Len(w))
  <2>1. IsFiniteSet(1..Len(w))
    BY FS_Interval, Len(w) \in Int, 1 \in Int
  <2>2. QED
    BY <2>1 DEF Lengths
<1>2. IsFiniteSet(Lengths(w)) /\ Cardinality(Lengths(w)) \in Nat
  BY <1>1, FS_Subset, FS_CardinalityType
<1>3. ASSUME NEW k
      PROVE  /\ IsFiniteSet({l \in Lengths(w) : l <= k})
             /\ Cardinality({l \in Lengths(w) : l <= k}) \in Nat
             /\ Cardinality({l \in Lengths(w) : l <= k}) <= Cardinality(Lengths(w))
  <2>1. {l \in Lengths(w) : l <= k} \in SUBSET Lengths(w)
    OBVIOUS
  <2>2. QED
    BY <1>2, <2>1, FS_Subset, FS_CardinalityType
<1>4. QED
  BY <1>2, <1>3

(* The n-th line exists only for as many n as there are lengths.           *)
LEMMA NthBound ==
  ASSUME NEW w \in Seq(WireUnits), NEW n, NEW p, NthLine(w, n, p)
  PROVE  /\ n \in 1..Cardinality(Lengths(w))
         /\ \E k \in 1..Len(w) : w[k].post = p
<1>1. PICK k \in Lengths(w) :
        w[k].post = p /\ Cardinality({l \in Lengths(w) : l <= k}) = n
  BY DEF NthLine
<1>2. k \in {l \in Lengths(w) : l <= k} /\ k \in 1..Len(w)
  BY DEF Lengths
<1>3. n # 0
  BY <1>1, <1>2, LengthsFinite, FS_EmptySet
<1>4. n \in Nat /\ n <= Cardinality(Lengths(w)) /\ Cardinality(Lengths(w)) \in Nat
  BY <1>1, LengthsFinite
<1>5. QED
  BY <1>1, <1>2, <1>3, <1>4

(* A later line was written further on.                                    *)
LEMMA NthOrder ==
  ASSUME NEW w \in Seq(WireUnits), NEW m \in Nat, NEW n \in Nat, m < n,
         NEW p, NEW q, NthLine(w, m, p), NthLine(w, n, q)
  PROVE  \E k, l \in Lengths(w) : k < l /\ w[k].post = p /\ w[l].post = q
<1>1. PICK k \in Lengths(w) :
        w[k].post = p /\ Cardinality({h \in Lengths(w) : h <= k}) = m
  BY DEF NthLine
<1>2. PICK l \in Lengths(w) :
        w[l].post = q /\ Cardinality({h \in Lengths(w) : h <= l}) = n
  BY DEF NthLine
<1>3. k \in Nat /\ l \in Nat
  BY DEF Lengths
<1>4. CASE l <= k
  <2>1. {h \in Lengths(w) : h <= l} \in SUBSET {h \in Lengths(w) : h <= k}
    BY <1>3, <1>4 DEF Lengths
  <2>2. n <= m
    BY <1>1, <1>2, <2>1, LengthsFinite, FS_Subset
  <2>3. QED
    BY <2>2
<1>5. QED
  BY <1>1, <1>2, <1>3, <1>4

(* A length begins the next line and disturbs no other.                    *)
LEMMA LengthAdded ==
  ASSUME NEW w \in Seq(WireUnits), NEW u \in WireUnits, u.unit = 0
  PROVE  LET v == Append(w, u)
             m == Cardinality(Lengths(w))
         IN  /\ v \in Seq(WireUnits) /\ Lengths(v) = Lengths(w) \cup {Len(w) + 1}
             /\ Cardinality(Lengths(v)) = m + 1
             /\ \A n, p : NthLine(v, n, p) <=> \/ NthLine(w, n, p)
                                               \/ n = m + 1 /\ p = u.post
<1> DEFINE v == Append(w, u)
           m == Cardinality(Lengths(w))
           z == Len(w) + 1
<1>1. /\ v \in Seq(WireUnits) /\ Len(w) \in Nat /\ Len(v) = z /\ v[z] = u
      /\ \A k \in 1..Len(w) : v[k] = w[k]
  OBVIOUS
<1> HIDE DEF v
<1>2. Lengths(v) = Lengths(w) \cup {z}
  BY <1>1 DEF Lengths
<1>3. z \notin Lengths(w) /\ \A k \in Lengths(w) : k \in 1..Len(w) /\ k < z
  BY <1>1 DEF Lengths
<1>4. Cardinality(Lengths(v)) = m + 1
  <2>1. IsFiniteSet(Lengths(w))
    BY LengthsFinite
  <2>2. Cardinality(Lengths(w) \cup {z}) = Cardinality(Lengths(w)) + 1
    BY <1>3, <2>1, FS_AddElement
  <2>3. QED
    BY <1>2, <2>2
<1>5. \A k \in Lengths(w) : {l \in Lengths(v) : l <= k} = {l \in Lengths(w) : l <= k}
  BY <1>1, <1>2, <1>3
<1>6. {l \in Lengths(v) : l <= z} = Lengths(v)
  BY <1>1, <1>2, <1>3
<1>7. ASSUME NEW n, NEW p, NthLine(v, n, p)
      PROVE  NthLine(w, n, p) \/ (n = m + 1 /\ p = u.post)
  <2>1. PICK k \in Lengths(v) :
          v[k].post = p /\ Cardinality({l \in Lengths(v) : l <= k}) = n
    BY <1>7 DEF NthLine
  <2>2. CASE k = z
    BY <1>1, <1>4, <1>6, <2>1, <2>2
  <2>3. CASE k \in Lengths(w)
    <3>1. w[k].post = p /\ Cardinality({l \in Lengths(w) : l <= k}) = n
      BY <1>1, <1>3, <1>5, <2>1, <2>3
    <3>2. QED
      BY <2>3, <3>1 DEF NthLine
  <2>4. QED
    BY <1>2, <2>1, <2>2, <2>3
<1>8. ASSUME NEW n, NEW p, NthLine(w, n, p)
      PROVE  NthLine(v, n, p)
  <2>1. PICK k \in Lengths(w) :
          w[k].post = p /\ Cardinality({l \in Lengths(w) : l <= k}) = n
    BY <1>8 DEF NthLine
  <2>2. k \in Lengths(v) /\ v[k].post = p /\ Cardinality({l \in Lengths(v) : l <= k}) = n
    BY <1>1, <1>2, <1>3, <1>5, <2>1
  <2>3. QED
    BY <2>2 DEF NthLine
<1>9. NthLine(v, m + 1, u.post)
  <2>1. z \in Lengths(v) /\ v[z].post = u.post
        /\ Cardinality({l \in Lengths(v) : l <= z}) = m + 1
    BY <1>1, <1>2, <1>4, <1>6
  <2>2. QED
    BY <2>1 DEF NthLine
<1>10. QED
  BY <1>1, <1>2, <1>4, <1>7, <1>8, <1>9 DEF v

(* A unit of a payload changes no line.                                    *)
LEMMA UnitAppended ==
  ASSUME NEW w \in Seq(WireUnits), NEW u \in WireUnits, u.unit # 0
  PROVE  LET v == Append(w, u)
         IN  /\ v \in Seq(WireUnits) /\ Lengths(v) = Lengths(w)
             /\ \A n, p : NthLine(v, n, p) <=> NthLine(w, n, p)
<1> DEFINE v == Append(w, u)
<1>1. /\ v \in Seq(WireUnits) /\ Len(w) \in Nat /\ Len(v) = Len(w) + 1
      /\ v[Len(w) + 1] = u /\ \A k \in 1..Len(w) : v[k] = w[k]
  OBVIOUS
<1> HIDE DEF v
<1>2. Lengths(v) = Lengths(w) /\ \A k \in Lengths(w) : v[k] = w[k]
  BY <1>1 DEF Lengths
<1>3. \A n, p : NthLine(v, n, p) <=> NthLine(w, n, p)
  BY <1>2 DEF NthLine
<1>4. QED
  BY <1>1, <1>2, <1>3 DEF v

-----------------------------------------------------------------------------
(* The call of post() in which main() is, or was last.                     *)
InCall == main_pc[Main] # "idle"
Line   == posting[Main]

(* The lines are numbered as they are typed; all are equally long.         *)
CallOK ==
  /\ main_pc \in [{Main} -> {"idle", "connect", "connected", "refused", "return",
                             "post_len", "post_body", "aborted"}]
  /\ posting \in [{Main} -> Nat] /\ left \in [{Main} -> Nat]
  /\ posts \in Seq({MsgLen}) /\ Line = Len(posts) /\ Len(posts) <= MaxLines
  /\ InCall => Line # 0
  /\ main_pc[Main] = "post_body" => left[Main] \in 1..MsgLen
  /\ result \in [1..MaxLines -> {"none", "sent", "failed", "broken"}]
  /\ sock \in {"fresh", "connected", "broken"}
  /\ sock = "connected" => wires # <<>>
  /\ main_at \in {"server", "client2"} => wires = <<>> /\ ~InCall

(* The length of the line that is posted is still to be sent.              *)
Before == main_pc[Main] \in {"connect", "connected", "refused", "return", "post_len"}

(* A wire carries lines that were posted, each after earlier ones, and the *)
(* one that is posted not before its length is sent.                       *)
Written(w, line, before) ==
  /\ \A k \in 1..Len(w) : w[k].post \in 1..line /\ (before => w[k].post # line)
  /\ \A k, l \in Lengths(w) : k < l => w[k].post < w[l].post
  /\ \A n \in 1..Cardinality(Lengths(w)) : \E p \in 1..line : NthLine(w, n, p)

Wire == 1..Len(wires)
WiresOK ==
  /\ wires \in Seq(Seq(WireUnits)) /\ Len(wires) <= Len(Client2)
  /\ \A i \in Wire : Written(wires[i], Line, Before)

-----------------------------------------------------------------------------
(* What the steps of post() do to the wires.                               *)
LEMMA LengthSent ==
  ASSUME CallOK, WiresOK, Cl!SendLen(Main)
  PROVE  /\ main_pc[Main] = "post_len" /\ main_pc'[Main] = "post_body"
         /\ Len(wires) \in Wire /\ left'[Main] = MsgLen
         /\ main_pc' = [main_pc EXCEPT ![Main] = "post_body"]
         /\ left' = [left EXCEPT ![Main] = MsgLen]
         /\ wires' = [wires EXCEPT ![Len(wires)] = Append(@, [post |-> Line, unit |-> 0])]
         /\ sock = "connected" /\ UNCHANGED <<sock, posting, posts, result>>
<1>1. posts[Line] = MsgLen /\ MsgLen # 0
  <2>1. main_pc[Main] = "post_len"
    BY DEF Cl!SendLen
  <2>2. posts \in Seq({MsgLen}) /\ Line = Len(posts) /\ Line # 0
    BY <2>1 DEF CallOK, InCall
  <2>3. QED
    BY <2>2, ExampleAssumption DEF ExampleAssumption
<1>2. sock = "connected" /\ wires \in Seq(Seq(WireUnits)) /\ wires # <<>>
  BY DEF Cl!SendLen, Cl!Send, CallOK, WiresOK
<1>3. Len(wires) \in Wire /\ wires[Len(wires)] \in Seq(WireUnits)
  BY <1>2 DEF Wire
<1>4. wires[Len(wires)] \o <<[post |-> Line, unit |-> 0]>>
        = Append(wires[Len(wires)], [post |-> Line, unit |-> 0])
  BY <1>3
<1>5. wires' = [wires EXCEPT ![Len(wires)] = Append(@, [post |-> Line, unit |-> 0])]
  BY <1>4 DEF Cl!SendLen, Cl!Send, Line
<1>6. main_pc' = [main_pc EXCEPT ![Main] = "post_body"]
      /\ left' = [left EXCEPT ![Main] = MsgLen] /\ UNCHANGED result
  BY <1>1 DEF Cl!SendLen, Cl!BeginBody, Cl!payload_len, Cl!Goto, Line
<1>7. QED
  BY <1>2, <1>3, <1>5, <1>6 DEF Cl!SendLen, CallOK

(* SendBody appends a unit; the last one makes post() return.              *)
LEMMA UnitSent ==
  ASSUME CallOK, WiresOK, Cl!SendBody(Main), left'[Main] = left[Main] - 1
  PROVE  /\ main_pc[Main] = "post_body" /\ left[Main] \in 1..MsgLen
         /\ Len(wires) \in Wire
         /\ left' = [left EXCEPT ![Main] = @ - 1]
         /\ IF left[Main] = 1
            THEN /\ main_pc' = [main_pc EXCEPT ![Main] = "idle"]
                 /\ result' = [result EXCEPT ![Line] = "sent"]
            ELSE UNCHANGED <<main_pc, result>>
         /\ \E u \in 1..MsgLen :
              wires' = [wires EXCEPT ![Len(wires)] = Append(@, [post |-> Line, unit |-> u])]
         /\ sock = "connected" /\ UNCHANGED <<sock, posting, posts>>
<1>1. main_pc[Main] = "post_body"
  BY DEF Cl!SendBody
<1>2. /\ left[Main] \in 1..MsgLen /\ posts \in Seq({MsgLen}) /\ Line = Len(posts)
      /\ Line # 0 /\ left \in [{Main} -> Nat]
  BY <1>1 DEF CallOK, InCall
<1>3. posts[Line] = MsgLen /\ MsgLen \in Nat
  BY <1>2, ExampleAssumption DEF ExampleAssumption
<1>4. PICK k \in 1..left[Main] : Cl!Send(Cl!NextUnits(Main, k)) /\ Cl!SentSome(Main, k)
  BY DEF Cl!SendBody
<1>5. left' = [left EXCEPT ![Main] = @ - k]
  BY <1>4 DEF Cl!SentSome
<1>6. k = 1
  BY <1>2, <1>5
<1>7. sock = "connected" /\ wires \in Seq(Seq(WireUnits)) /\ wires # <<>>
  BY <1>4 DEF Cl!Send, CallOK, WiresOK
<1>8. Len(wires) \in Wire /\ wires[Len(wires)] \in Seq(WireUnits)
  BY <1>7 DEF Wire
<1> DEFINE u == MsgLen - left[Main] + 1
<1>9. u \in 1..MsgLen
  BY <1>2, <1>3
<1>10. Cl!NextUnits(Main, 1) = <<[post |-> Line, unit |-> u]>>
  <2>1. Cl!NextUnits(Main, 1) = [i \in 1..1 |-> [post |-> Line, unit |-> MsgLen - left[Main] + i]]
    BY <1>3 DEF Cl!NextUnits, Cl!payload_len, Line
  <2>2. 1..1 = {1}
    OBVIOUS
  <2>3. QED
    BY <2>1, <2>2
<1>11. wires' = [wires EXCEPT ![Len(wires)] = Append(@, [post |-> Line, unit |-> u])]
  <2>1. wires[Len(wires)] \o <<[post |-> Line, unit |-> u]>>
          = Append(wires[Len(wires)], [post |-> Line, unit |-> u])
    BY <1>8
  <2>2. wires' = [wires EXCEPT ![Len(wires)] = @ \o <<[post |-> Line, unit |-> u]>>]
    BY <1>4, <1>6, <1>10 DEF Cl!Send
  <2>3. QED
    BY <2>1, <2>2
<1>12. IF left[Main] = 1
       THEN /\ main_pc' = [main_pc EXCEPT ![Main] = "idle"]
            /\ result' = [result EXCEPT ![Line] = "sent"]
       ELSE UNCHANGED <<main_pc, result>>
  BY <1>4, <1>6 DEF Cl!SentSome, Cl!Returns, Cl!Goto, Line
<1> HIDE DEF u
<1>13. QED
  BY <1>1, <1>2, <1>5, <1>6, <1>7, <1>8, <1>9, <1>11, <1>12 DEF Cl!SendBody

(* A step that writes nothing and begins no line settles at most what      *)
(* becomes of the line that is being posted.                               *)
CallMoves ==
  /\ UNCHANGED <<posting, posts>>
  /\ (Before' => Before) /\ (InCall' => InCall)
  /\ \A p \in 1..Line : p # Line \/ ~InCall => result'[p] = result[p]
  /\ main_pc'[Main] = "post_body" /\ sock' = "connected" =>
       main_pc[Main] = "post_body" /\ sock = "connected" /\ left' = left

(* What may happen in a step of the example.                               *)
Types   == Cl!Post(Main, MsgLen) /\ UNCHANGED server_vars
Writes  == /\ Cl!SendLen(Main)
           /\ Carried(SendLength(Client2[Len(wires)], MsgLen))
WritesOn == /\ Cl!SendBody(Main) /\ left'[Main] = left[Main] - 1
            /\ Carried(SendUnit(Client2[Len(wires)]))
Connects == /\ CallMoves /\ Reaches /\ main_pc'[Main] # "post_body"
            /\ wires' = Append(wires, <<>>)
Waits == /\ CallMoves /\ wires' = wires
         /\ \/ UNCHANGED server_vars
            \/ SelectThread \/ PacketThread \/ Noticed \/ Other

(* Every step is of one of these kinds.                                    *)
LEMMA ExampleSteps ==
  ASSUME CallOK, WiresOK, [ExampleNext]_example_vars
  PROVE  Types \/ Writes \/ WritesOn \/ Connects \/ Waits
<1>0. /\ main_pc \in [{Main} -> {"idle", "connect", "connected", "refused", "return",
                                 "post_len", "post_body", "aborted"}]
      /\ posting \in [{Main} -> Nat] /\ left \in [{Main} -> Nat]
      /\ result \in [1..MaxLines -> {"none", "sent", "failed", "broken"}]
      /\ main_at \in {"server", "client2"} => wires = <<>> /\ ~InCall
      /\ wires \in Seq(Seq(WireUnits))
      /\ MaxLines \in Nat /\ Line \in 0..MaxLines
  BY ExampleAssumption DEF ExampleAssumption, CallOK, WiresOK, Line
<1>1. UNCHANGED client2_vars => CallMoves /\ wires' = wires
  BY DEF client2_vars, CallMoves, Before, InCall, Line
<1>2. CASE UNCHANGED example_vars
  BY <1>1, <1>2 DEF example_vars, Waits
<1>3. CASE UserServer
  BY <1>1, <1>3 DEF UserServer, Waits
<1>4. CASE UserClient
  <2>1. CASE UNCHANGED <<client2_vars, server_vars>>
    BY <1>1, <2>1 DEF Waits
  <2>2. CASE ~UNCHANGED <<client2_vars, server_vars>>
    <3>1. /\ main_at = "client2" /\ Reaches /\ wires' = << <<>> >>
          /\ UNCHANGED <<main_pc, posting, left, posts, result>>
      BY <1>4, <2>2 DEF UserClient
    <3>2. wires = <<>> /\ ~InCall
      BY <1>0, <3>1
    <3>3. wires' = Append(wires, <<>>)
      BY <3>1, <3>2
    <3>4. CallMoves /\ main_pc'[Main] # "post_body"
      BY <3>1, <3>2 DEF CallMoves, Before, InCall, Line
    <3>5. QED
      BY <3>1, <3>3, <3>4 DEF Connects
  <2>3. QED
    BY <2>1, <2>2
<1>5. CASE send
  BY <1>5 DEF send, Types
<1>6. CASE PostStep
  <2>1. CASE Cl!ConnectSucceeds(Main) /\ Reaches
    BY <1>0, <2>1 DEF Cl!ConnectSucceeds, Cl!Goto, Connects, CallMoves, Before,
                      InCall, Line
  <2>2. CASE Cl!SendLen(Main) /\ Carried(SendLength(Client2[Len(wires)], MsgLen))
    BY <2>2 DEF Writes
  <2>3. CASE /\ Cl!SendBody(Main) /\ left'[Main] = left[Main] - 1
             /\ Carried(SendUnit(Client2[Len(wires)]))
    BY <2>3 DEF WritesOn
  <2>4. CASE (Cl!ConnectFails(Main) \/ Cl!SetFlag(Main)) /\ UNCHANGED server_vars
    BY <1>0, <2>4 DEF Cl!ConnectFails, Cl!SetFlag, Cl!Goto, Waits, CallMoves, Before,
                      InCall, Line
  <2>5. CASE Cl!ReturnFlag(Main) /\ UNCHANGED server_vars
    <3>1. /\ main_pc[Main] = "return" /\ UNCHANGED <<wires, posting, posts, sock>>
          /\ \/ Cl!Goto(Main, "post_len") /\ UNCHANGED result
             \/ Cl!Goto(Main, "idle") /\ result' = [result EXCEPT ![Line] = "failed"]
      BY <2>5 DEF Cl!ReturnFlag, Cl!Returns, Line
    <3>2. \A p \in 1..Line : p # Line => result'[p] = result[p]
      BY <1>0, <3>1
    <3>3. CallMoves
      BY <1>0, <3>1, <3>2 DEF CallMoves, Before, InCall, Line, Cl!Goto
    <3>4. QED
      BY <2>5, <3>1, <3>3 DEF Waits
  <2>6. CASE /\ sock # "connected" /\ UNCHANGED server_vars
             /\ Cl!SendLenFails(Main) \/ Cl!SendBodyFails(Main)
    <3>1. /\ main_pc[Main] \in {"post_len", "post_body"}
          /\ UNCHANGED <<wires, posting, posts, sock>>
          /\ \E l \in {"idle", "post_body", "aborted"} : Cl!Goto(Main, l)
          /\ \/ UNCHANGED result
             \/ \E v : result' = [result EXCEPT ![Line] = v]
      BY <2>6 DEF Cl!SendLenFails, Cl!SendBodyFails, Cl!BeginBody, Cl!Returns, Line
    <3>2. \A p \in 1..Line : p # Line => result'[p] = result[p]
      BY <1>0, <3>1
    <3>3. PICK l \in {"idle", "post_body", "aborted"} : main_pc' = [main_pc EXCEPT ![Main] = l]
      BY <3>1 DEF Cl!Goto
    <3>4. ~Before'
      BY <1>0, <3>3 DEF Before
    <3>5. CallMoves
      BY <2>6, <3>1, <3>2, <3>4 DEF CallMoves, InCall, Line
    <3>6. QED
      BY <2>6, <3>1, <3>5 DEF Waits
  <2>7. CASE Cl!ClearFlag(Main) /\ UNCHANGED server_vars
    BY <1>0, <2>7 DEF Cl!ClearFlag, Cl!Returns, Cl!Goto, Waits, CallMoves, Before,
                      InCall, Line
  <2>8. QED
    BY <1>6, <2>1, <2>2, <2>3, <2>4, <2>5, <2>6, <2>7 DEF PostStep
<1>7. CASE Break
  <2>1. CallMoves /\ wires' = wires /\ UNCHANGED server_vars
    BY <1>7 DEF Break, Cl!Break, Cl!local_vars, CallMoves, Before, InCall, Line
  <2>2. QED
    BY <2>1 DEF Waits
<1>8. CASE Noticed \/ Other \/ ServerSelects \/ ServerPops
  <2>1. CallMoves /\ wires' = wires
    BY <1>1, <1>8 DEF Noticed, Other, ServerSelects, ServerPops, client2_vars
  <2>2. Noticed \/ Other \/ SelectThread \/ PacketThread
    BY <1>8 DEF ServerSelects, ServerPops
  <2>3. QED
    BY <2>1, <2>2 DEF Waits
<1>9. QED
  BY <1>2, <1>3, <1>4, <1>5, <1>6, <1>7, <1>8 DEF ExampleNext, main

(* main() keeps to its types and numbers.                                  *)
LEMMA CallStep ==
  ASSUME CallOK, WiresOK, [ExampleNext]_example_vars
  PROVE  CallOK'
<1> USE DEF CallOK, InCall, Line
<1>0. MaxLines \in Nat /\ wires \in Seq(Seq(WireUnits))
  BY ExampleAssumption DEF ExampleAssumption, WiresOK
<1>1. CASE UNCHANGED example_vars
  BY <1>1 DEF example_vars, client2_vars
<1>2. CASE UserServer \/ UserClient
  <2>1. /\ UNCHANGED <<main_pc, posting, left, posts, result>>
        /\ ~InCall
    BY <1>2 DEF UserServer, UserClient, client2_vars
  <2>2. \/ main_at' = "client2" /\ UNCHANGED <<sock, wires>> /\ wires = <<>>
        \/ main_at' = "line" /\ UNCHANGED <<sock, wires>>
        \/ main_at' = "line" /\ sock' = "connected" /\ wires' = << <<>> >>
    BY <1>2 DEF UserServer, UserClient, client2_vars
  <2>3. << <<>> >> # <<>>
    OBVIOUS
  <2>4. QED
    BY <2>1, <2>2, <2>3
<1>3. CASE send
  <2>1. /\ main_pc[Main] = "idle" /\ Len(posts) < MaxLines /\ main_at = "line"
        /\ posts' = Append(posts, MsgLen)
        /\ posting' = [posting EXCEPT ![Main] = Len(posts) + 1]
        /\ \E l \in {"return", "connect"} : main_pc' = [main_pc EXCEPT ![Main] = l]
        /\ UNCHANGED <<main_at, sock, left, result, wires>>
    BY <1>3 DEF send, Cl!Post, Cl!Goto
  <2>2. posts' \in Seq({MsgLen}) /\ Len(posts') = Len(posts) + 1 /\ Len(posts) \in Nat
    BY <2>1
  <2>3. posting' \in [{Main} -> Nat] /\ posting'[Main] = Len(posts')
        /\ Len(posts') <= MaxLines /\ posting'[Main] # 0
    BY <1>0, <2>1, <2>2
  <2>4. main_pc'[Main] \in {"return", "connect"}
        /\ main_pc' \in [{Main} -> {"idle", "connect", "connected", "refused", "return",
                                     "post_len", "post_body", "aborted"}]
    BY <2>1
  <2>5. QED
    BY <2>1, <2>2, <2>3, <2>4
<1>4. CASE PostStep
  <2>1. /\ UNCHANGED <<main_at, posting, posts>> /\ InCall
        /\ main_at \notin {"server", "client2"}
    <3>1. UNCHANGED <<main_at, posting, posts>> /\ InCall
      BY <1>4 DEF PostStep, Cl!ConnectSucceeds, Cl!SendLen, Cl!SendBody,
            Cl!ConnectFails, Cl!SetFlag, Cl!ReturnFlag, Cl!SendLenFails,
            Cl!SendBodyFails, Cl!ClearFlag
    <3>2. QED
      BY <3>1
  <2>2. CASE Cl!ConnectSucceeds(Main)
    <3>1. Append(wires, <<>>) # <<>>
      <4> DEFINE W == Seq(WireUnits)
      <4>1. <<>> \in W /\ wires \in Seq(W)
        BY <1>0
      <4> HIDE DEF W
      <4>2. QED
        BY <4>1, AppendProperties
    <3>2. /\ main_pc' = [main_pc EXCEPT ![Main] = "connected"] /\ sock' = "connected"
          /\ wires' # <<>> /\ UNCHANGED <<left, result>>
      BY <2>2, <3>1 DEF Cl!ConnectSucceeds, Cl!Goto
    <3>3. QED
      BY <2>1, <3>2
  <2>3. CASE Cl!SendLen(Main)
    <3>1. MsgLen \in 1..MsgLen /\ MsgLen \in Nat
      BY ExampleAssumption DEF ExampleAssumption
    <3>2. wires' # <<>>
      BY <1>0, <2>3, LengthSent DEF Wire
    <3>3. QED
      BY <2>1, <2>3, <3>1, <3>2, LengthSent
  <2>4. CASE Cl!SendBody(Main) /\ left'[Main] = left[Main] - 1
    <3>1. wires' # <<>>
      <4>1. /\ Len(wires) \in Wire
            /\ \E u : wires' = [wires EXCEPT ![Len(wires)] = Append(@, u)]
        BY <2>4, UnitSent
      <4>2. Len(wires') = Len(wires) /\ Len(wires) # 0
        BY <1>0, <4>1 DEF Wire
      <4>3. QED
        BY <4>2
    <3>2. left[Main] # 1 => left[Main] - 1 \in 1..MsgLen
      BY <2>4, UnitSent, ExampleAssumption DEF ExampleAssumption
    <3>3. left[Main] - 1 \in Nat
      BY <2>4, UnitSent, ExampleAssumption DEF ExampleAssumption
    <3>4. QED
      BY <2>1, <2>4, <3>1, <3>2, <3>3, UnitSent
  <2>5. CASE Cl!ConnectFails(Main) \/ Cl!SetFlag(Main)
    BY <2>1, <2>5 DEF Cl!ConnectFails, Cl!SetFlag, Cl!Goto
  <2>6. CASE Cl!ReturnFlag(Main) \/ Cl!ClearFlag(Main)
    BY <2>1, <2>6 DEF Cl!ReturnFlag, Cl!ClearFlag, Cl!Returns, Cl!Goto
  <2>7. CASE sock # "connected" /\ Cl!SendLenFails(Main)
    <3>1. posts[Line] = MsgLen /\ MsgLen \in 1..MsgLen /\ MsgLen # 0 /\ MsgLen \in Nat
      BY <2>1, ExampleAssumption DEF ExampleAssumption
    <3>2. QED
      BY <2>1, <2>7, <3>1 DEF Cl!SendLenFails, Cl!BeginBody, Cl!payload_len, Cl!Goto
  <2>8. CASE sock # "connected" /\ Cl!SendBodyFails(Main)
    BY <2>1, <2>8 DEF Cl!SendBodyFails, Cl!Returns, Cl!Goto
  <2>9. QED
    BY <1>4, <2>2, <2>3, <2>4, <2>5, <2>6, <2>7, <2>8 DEF PostStep
<1>5. CASE Break
  BY <1>5 DEF Break, Cl!Break, Cl!local_vars
<1>6. CASE Noticed \/ Other \/ ServerSelects \/ ServerPops
  BY <1>6 DEF Noticed, Other, ServerSelects, ServerPops, client2_vars
<1>7. QED
  BY <1>1, <1>2, <1>3, <1>4, <1>5, <1>6 DEF ExampleNext, main

(* What is written stays written.                                          *)
LEMMA StaysWritten ==
  ASSUME CallOK, NEW w \in Seq(WireUnits), Written(w, Line, Before), CallMoves \/ Types
  PROVE  Written(w, Line', Before')
<1>1. Line \in Nat /\ Line' \in {Line, Line + 1} /\ (Line' = Line => (Before' => Before))
  <2>1. CASE CallMoves
    BY <2>1 DEF CallMoves, CallOK, Line
  <2>2. CASE Types
    BY <2>2 DEF Types, Cl!Post, CallOK, Line
  <2>3. QED
    BY <2>1, <2>2
<1>2. \A k \in 1..Len(w) : w[k].post \in 1..Line' /\ (Before' => w[k].post # Line')
  BY <1>1 DEF Written
<1>3. 1..Line \subseteq 1..Line'
  BY <1>1
<1>4. QED
  BY <1>2, <1>3 DEF Written

(* The wires stay written in order.                                        *)
LEMMA WiresStep ==
  ASSUME CallOK, WiresOK, [ExampleNext]_example_vars
  PROVE  WiresOK'
<1>0. /\ wires \in Seq(Seq(WireUnits)) /\ Len(wires) \in Nat /\ Len(wires) <= Len(Client2)
      /\ \A i \in Wire : wires[i] \in Seq(WireUnits) /\ Written(wires[i], Line, Before)
      /\ Line \in Nat
  BY DEF WiresOK, Wire, CallOK, Line
<1>1. CASE Types \/ Waits
  <2>1. wires' = wires
    BY <1>1 DEF Types, Waits, Cl!Post
  <2>2. \A i \in Wire : Written(wires[i], Line', Before')
    <3> TAKE i \in Wire
    <3> PICK w \in Seq(WireUnits) : w = wires[i] /\ Written(w, Line, Before)
      BY <1>0
    <3>1. Written(w, Line', Before')
      BY <1>1, StaysWritten DEF Waits
    <3>2. QED
      BY <2>1, <3>1
  <2>3. QED
    BY <1>0, <2>1, <2>2 DEF WiresOK, Wire
<1>2. CASE Connects
  <2> DEFINE W == Seq(WireUnits)
  <2>0. <<>> \in W /\ wires \in Seq(W)
    BY <1>0
  <2> HIDE DEF W
  <2>1. /\ wires' = Append(wires, <<>>) /\ Len(wires) < Len(Client2)
    BY <1>2 DEF Connects, Reaches
  <2>2. /\ wires' \in Seq(W) /\ Len(wires') = Len(wires) + 1
        /\ wires'[Len(wires) + 1] = <<>> /\ \A i \in Wire : wires'[i] = wires[i]
    BY <2>0, <2>1, AppendProperties DEF Wire
  <2>3. \A i \in Wire : Written(wires'[i], Line', Before')
    <3> TAKE i \in Wire
    <3> PICK w \in Seq(WireUnits) : w = wires[i] /\ Written(w, Line, Before)
      BY <1>0
    <3>1. Written(w, Line', Before')
      BY <1>2, StaysWritten DEF Connects
    <3>2. QED
      BY <2>2, <3>1
  <2>4. Written(<<>>, Line', Before')
    <3>1. Lengths(<<>>) = {} /\ Cardinality({}) = 0 /\ Len(<<>>) = 0
      BY FS_EmptySet DEF Lengths
    <3>2. 1..0 = {}
      OBVIOUS
    <3>3. QED
      BY <3>1, <3>2 DEF Written
  <2>5. Len(wires') <= Len(Client2)
    BY <1>0, <2>1, <2>2, ExampleAssumption DEF ExampleAssumption
  <2>6. \A i \in 1..Len(wires') : Written(wires'[i], Line', Before')
    <3> TAKE i \in 1..Len(wires')
    <3>1. CASE i = Len(wires) + 1
      BY <2>2, <2>4, <3>1
    <3>2. CASE i \in Wire
      BY <2>3, <3>2
    <3>3. QED
      BY <1>0, <2>2, <3>1, <3>2 DEF Wire
  <2>7. QED
    BY <2>2, <2>5, <2>6 DEF WiresOK, Wire, W
<1>3. ASSUME NEW u \in WireUnits, Len(wires) \in Wire,
             wires' = [wires EXCEPT ![Len(wires)] = Append(@, u)],
             Written(Append(wires[Len(wires)], u), Line', Before'),
             UNCHANGED Line, ~Before'
      PROVE  WiresOK'
  <2>1. /\ wires' \in Seq(Seq(WireUnits)) /\ Len(wires') = Len(wires)
        /\ wires'[Len(wires)] = Append(wires[Len(wires)], u)
        /\ \A i \in Wire : i # Len(wires) => wires'[i] = wires[i]
    <3>1. Append(wires[Len(wires)], u) \in Seq(WireUnits)
      BY <1>0, <1>3
    <3>2. QED
      BY <1>0, <1>3, <3>1 DEF Wire
  <2>2. ASSUME NEW i \in Wire, i # Len(wires) PROVE Written(wires'[i], Line', Before')
    <3> PICK w \in Seq(WireUnits) : w = wires[i] /\ Written(w, Line, Before)
      BY <1>0
    <3>1. Written(w, Line', Before')
      BY <1>3 DEF Written
    <3>2. QED
      BY <2>1, <2>2, <3>1
  <2>3. \A i \in Wire : Written(wires'[i], Line', Before')
    BY <1>3, <2>1, <2>2
  <2>4. QED
    BY <1>0, <2>1, <2>3 DEF WiresOK, Wire
<1>4. CASE Writes
  <2>1. PICK u \in WireUnits : u = [post |-> Line, unit |-> 0]
    BY <1>0 DEF WireUnits
  <2>2. /\ wires' = [wires EXCEPT ![Len(wires)] = Append(@, u)]
        /\ Len(wires) \in Wire /\ UNCHANGED Line /\ Before /\ ~Before'
        /\ u.post = Line /\ u.unit = 0 /\ Line # 0
    BY <1>4, <2>1, LengthSent DEF Writes, Before, Line, CallOK, InCall
  <2>3. PICK w \in Seq(WireUnits) : w = wires[Len(wires)] /\ Written(w, Line, Before)
    BY <1>0, <2>2
  <2>4. PICK v : v = Append(w, u)
    OBVIOUS
  <2>5. PICK m \in Nat : m = Cardinality(Lengths(w))
    BY LengthsFinite
  <2>6. /\ Lengths(v) = Lengths(w) \cup {Len(w) + 1} /\ Cardinality(Lengths(v)) = m + 1
        /\ \A n, p : NthLine(v, n, p) <=> NthLine(w, n, p) \/ (n = m + 1 /\ p = Line)
    BY <2>2, <2>4, <2>5, LengthAdded
  <2>7. /\ Len(v) = Len(w) + 1 /\ v[Len(w) + 1] = u /\ Len(w) \in Nat
        /\ \A k \in 1..Len(w) : v[k] = w[k]
        /\ \A k \in Lengths(w) : k \in 1..Len(w)
    BY <2>4 DEF Lengths
  <2>8. \A k \in 1..Len(v) : v[k].post \in 1..Line
    <3>1. u.post \in 1..Line
      BY <1>0, <2>2
    <3>2. \A k \in 1..Len(w) : v[k].post \in 1..Line
      BY <2>3, <2>7 DEF Written
    <3>3. QED
      BY <2>7, <3>1, <3>2
  <2>9. ASSUME NEW k \in Lengths(v), NEW l \in Lengths(v), k < l
        PROVE  v[k].post < v[l].post
    <3>1. k \in Lengths(w) /\ v[k] = w[k] /\ k \in 1..Len(w)
      BY <2>6, <2>7, <2>9
    <3>2. CASE l \in Lengths(w)
      BY <2>3, <2>7, <2>9, <3>1, <3>2 DEF Written
    <3>3. CASE l = Len(w) + 1
      <4>1. w[k].post \in 1..Line /\ w[k].post # Line
        BY <2>2, <2>3, <3>1 DEF Written
      <4>2. QED
        BY <1>0, <2>2, <2>7, <3>1, <3>3, <4>1
    <3>4. QED
      BY <2>6, <3>2, <3>3
  <2>10. ASSUME NEW n \in 1..m + 1 PROVE \E p \in 1..Line : NthLine(v, n, p)
    <3>1. CASE n = m + 1
      BY <1>0, <2>2, <2>6, <3>1
    <3>2. CASE n \in 1..m
      BY <2>3, <2>5, <2>6, <3>2 DEF Written
    <3>3. QED
      BY <3>1, <3>2
  <2>11. Written(v, Line', Before')
    BY <2>2, <2>6, <2>8, <2>9, <2>10 DEF Written
  <2>12. QED
    BY <1>3, <2>2, <2>3, <2>4, <2>11
<1>5. CASE WritesOn
  <2>1. PICK x \in 1..MsgLen :
          wires' = [wires EXCEPT ![Len(wires)] = Append(@, [post |-> Line, unit |-> x])]
    BY <1>5, UnitSent DEF WritesOn
  <2>2. PICK u \in WireUnits : u = [post |-> Line, unit |-> x]
    <3>1. x \in Nat
      BY ExampleAssumption DEF ExampleAssumption
    <3>2. QED
      BY <1>0, <3>1 DEF WireUnits
  <2>3. /\ wires' = [wires EXCEPT ![Len(wires)] = Append(@, u)]
        /\ Len(wires) \in Wire /\ UNCHANGED Line /\ u.post = Line /\ u.unit # 0
    BY <1>5, <2>1, <2>2, UnitSent DEF WritesOn, Line
  <2>4. Line # 0 /\ ~Before'
    <3>1. main_pc[Main] = "post_body" /\ main_pc'[Main] \in {"post_body", "idle"}
      BY <1>5, UnitSent DEF WritesOn, CallOK
    <3>2. QED
      BY <3>1 DEF CallOK, InCall, Before
  <2>5. PICK w \in Seq(WireUnits) : w = wires[Len(wires)] /\ Written(w, Line, Before)
    BY <1>0, <2>3
  <2>6. PICK v : v = Append(w, u)
    OBVIOUS
  <2>7. Lengths(v) = Lengths(w) /\ \A n, p : NthLine(v, n, p) <=> NthLine(w, n, p)
    BY <2>3, <2>6, UnitAppended
  <2>8. /\ Len(v) = Len(w) + 1 /\ v[Len(w) + 1] = u /\ Len(w) \in Nat
        /\ \A k \in 1..Len(w) : v[k] = w[k]
        /\ \A k \in Lengths(w) : k \in 1..Len(w)
    BY <2>6 DEF Lengths
  <2>9. \A k \in 1..Len(v) : v[k].post \in 1..Line
    <3>1. u.post \in 1..Line
      BY <1>0, <2>3, <2>4
    <3>2. \A k \in 1..Len(w) : v[k].post \in 1..Line
      BY <2>5, <2>8 DEF Written
    <3>3. QED
      BY <2>8, <3>1, <3>2
  <2>10. \A k, l \in Lengths(v) : k < l => v[k].post < v[l].post
    BY <2>5, <2>7, <2>8 DEF Written
  <2>11. Written(v, Line', Before')
    BY <2>3, <2>4, <2>5, <2>7, <2>9, <2>10 DEF Written
  <2>12. QED
    BY <1>3, <2>3, <2>4, <2>5, <2>6, <2>11
<1>6. QED
  BY <1>1, <1>2, <1>4, <1>5, ExampleSteps

-----------------------------------------------------------------------------
(* What the server has of a wire of client2.  A packet has come when       *)
(* another one follows it, it is complete, or it was read.                 *)
HasCome(c, n) ==
  \/ n < Len(frames[c]) \/ n <= reads[c]
  \/ /\ n = Len(frames[c]) /\ unread[c] # <<>>
     /\ Complete(unread[c][Len(unread[c])])

(* What came on a wire are the lengths that were sent on it, all of them   *)
(* while the connection is up; of a line that has come whole, post() says  *)
(* that it is sent.                                                        *)
Carries(i) ==
  LET c == Client2[i]
      w == wires[i]
  IN  /\ peer[c] \in {"open"} \cup Cut
      /\ \A n \in 1..Len(frames[c]) : frames[c][n] = MsgLen
      /\ Len(frames[c]) <= Cardinality(Lengths(w))
      /\ peer[c] = "open" => Len(frames[c]) = Cardinality(Lengths(w))
      /\ \A p \in 1..Line, n \in 1..Cardinality(Lengths(w)) :
           NthLine(w, n, p) /\ HasCome(c, n) =>
             result[p] = "sent" /\ (InCall => p # Line)

(* While a payload is sent, the last length on the wire is its own, and    *)
(* what came of it is what post() has behind it.                           *)
BodyComing ==
  sock = "connected" /\ main_pc[Main] = "post_body" =>
    LET c == Client2[Len(wires)]
        w == wires[Len(wires)]
    IN  /\ \A p \in 1..Line : NthLine(w, Cardinality(Lengths(w)), p) => p = Line
        /\ peer[c] = "open" =>
             /\ unread[c] # <<>>
             /\ unread[c][Len(unread[c])].here = MsgLen - left[Main]

(* Nothing comes before a connection is made; what is read is as long as a *)
(* line.                                                                   *)
NewOK == \A c \in Conns : peer[c] = "new" => frames[c] = <<>>
LinesWhole == \A r \in 1..Len(received), i \in Wire :
                received[r].payload.conn = Client2[i] =>
                  received[r].payload.len = MsgLen

ExampleInv == /\ CallOK /\ WiresOK
              /\ (\A i \in Wire : Carries(i)) /\ BodyComing
              /\ NewOK /\ LinesWhole

ServerAll == ServerInv /\ WireInv /\ OrderInv

-----------------------------------------------------------------------------
(* The server of the example is TameServerImpl, and its clients do what    *)
(* clients of TameServerImpl do.                                           *)
LEMMA ServerRuns ==
  ASSUME CallOK, WiresOK, [ExampleNext]_example_vars
  PROVE  [Next]_vars
<1>0. /\ Client2 \in Seq(Conns) /\ MsgLen \in Lens /\ Others \subseteq Conns
      /\ wires \in Seq(Seq(WireUnits)) /\ Len(wires) <= Len(Client2)
  BY ExampleAssumption DEF ExampleAssumption, WiresOK
<1>1. Wire \subseteq DOMAIN Client2 /\ \A i \in DOMAIN Client2 : Client2[i] \in Conns
  BY <1>0 DEF Wire
<1>2. UNCHANGED server_vars => UNCHANGED vars
  BY DEF server_vars, vars
<1>3. CASE Types
  BY <1>2, <1>3 DEF Types
<1>4. CASE Writes
  <2>1. Client2[Len(wires)] \in Conns
    BY <1>1, <1>4, LengthSent DEF Writes
  <2>2. SendLength(Client2[Len(wires)], MsgLen) \/ UNCHANGED vars
    BY <1>2, <1>4 DEF Writes, Carried
  <2>3. QED
    BY <1>0, <2>1, <2>2 DEF Next, Client
<1>5. CASE WritesOn
  <2>1. Client2[Len(wires)] \in Conns
    BY <1>1, <1>5, UnitSent DEF WritesOn
  <2>2. SendUnit(Client2[Len(wires)]) \/ UNCHANGED vars
    BY <1>2, <1>5 DEF WritesOn, Carried
  <2>3. QED
    BY <2>1, <2>2 DEF Next, Client
<1>6. CASE Connects
  <2>1. Client2[Len(wires) + 1] \in Conns
    BY <1>0, <1>1, <1>6 DEF Connects, Reaches
  <2>2. QED
    BY <1>6, <2>1 DEF Connects, Reaches, Next, Client
<1>7. CASE Waits
  <2>1. Noticed => \E c \in Conns : Reset(c)
    BY <1>1 DEF Noticed
  <2>2. Other => \E c \in Conns : \/ Connect(c) \/ SendUnit(c) \/ Close(c)
                                  \/ \E n \in Lens : SendLength(c, n)
    BY <1>0 DEF Other
  <2>3. QED
    BY <1>2, <1>7, <2>1, <2>2 DEF Waits, Next, Client
<1>8. QED
  BY <1>3, <1>4, <1>5, <1>6, <1>7, ExampleSteps

-----------------------------------------------------------------------------
(* What a step of somebody else does to a connection of client2: nothing,  *)
(* it ends, or a packet is read from it.                                   *)
Kept(c) == UNCHANGED <<unread[c], frames[c], reads[c], peer[c]>>
Ends(c) == /\ UNCHANGED <<frames[c], reads[c]>>
           /\ unread'[c] = <<>> /\ peer'[c] \in Cut
Taken(c) == /\ unread[c] # <<>> /\ unread'[c] = Tail(unread[c])
            /\ reads'[c] = reads[c] + 1 /\ UNCHANGED <<frames[c], peer[c]>>
            /\ peer[c] # "closed" => Complete(unread[c][1])

(* A packet is read whole from a client that has not closed.               *)
LEMMA HeadRead ==
  ASSUME ServerAll, RecvBody, NEW s \in Conns, s = client_sock.sock,
         peer[s] # "closed"
  PROVE  /\ Complete(unread[s][1]) /\ reads[s] + 1 \in 1..Len(frames[s])
         /\ BodyUnits = frames[s][reads[s] + 1]
<1>1. unread[s] # <<>>
  BY PacketRead DEF ServerAll
<1>2. /\ unread[s] \in Seq(WireFrames) /\ frames[s] \in Seq(Lens)
      /\ reads[s] \in Nat /\ Link(s)
  BY DEF ServerAll, WireInv, WireOK, OrderInv, LinkOK
<1>3. Head(unread[s]) = unread[s][1] /\ Len(unread[s]) \in Nat \ {0}
  BY <1>1, <1>2
<1>4. /\ reads[s] + Len(unread[s]) = Len(frames[s]) /\ peer[s] # "reset"
      /\ unread[s][1].len = frames[s][reads[s] + 1]
  BY <1>1, <1>2, <1>3 DEF Link, Cut
<1>5. BodyUnits = unread[s][1].here /\ unread[s][1].len = total_pkt_len
      /\ BodyUnits = total_pkt_len
  BY <1>1, <1>3, <1>4 DEF RecvBody, BodyComes, At, BodyUnits, ServerAll, OrderInv,
                          HeldOK, LengthHeld
<1>6. reads[s] + 1 \in 1..Len(frames[s])
  BY <1>2, <1>3, <1>4
<1>7. QED
  BY <1>4, <1>5, <1>6 DEF Complete

(* The threads of the server do no more than that.                         *)
LEMMA ServerTakes ==
  ASSUME ServerAll, SelectThread \/ PacketThread \/ UNCHANGED server_vars,
         NEW c \in Conns
  PROVE  Kept(c) \/ Ends(c) \/ Taken(c)
<1>0. /\ peer \in [Conns -> Known \cup {"new", "gone"}]
      /\ unread \in [Conns -> Seq(WireFrames)] /\ reads \in [Conns -> Nat]
  BY DEF ServerAll, ServerInv, RegisteredOK, WireInv, WireOK
<1>1. ASSUME NEW d \in Conns, UNCHANGED <<frames, reads>>, CloseSocket(d)
      PROVE  Kept(c) \/ Ends(c)
  BY <1>0, <1>1 DEF CloseSocket, Kept, Ends, Cut
<1>2. CASE AcceptOverflow
  <2>1. Head(backlog) \in Conns
    BY <1>2, BacklogHead DEF AcceptOverflow, At, ServerAll, ServerInv, LoopOK
  <2>2. QED
    BY <1>1, <1>2, <2>1 DEF AcceptOverflow, CloseSocket
<1>3. ASSUME select_pc \in {"recv_len", "recv_body"}, Drop
      PROVE  Kept(c) \/ Ends(c)
  <2>1. client_sock.sock \in Conns
    BY <1>3 DEF ServerAll, ServerInv, LoopOK, TableOK, Mgr!InUse, Mgr!Free
  <2>2. QED
    BY <1>1, <1>3, <2>1 DEF Drop, CloseSocket
<1>4. CASE RecvLengthFails \/ RecvBodyFails
  BY <1>3, <1>4 DEF RecvLengthFails, RecvBodyFails, At
<1>5. CASE RecvBody
  <2>1. PICK s \in Conns : s = client_sock.sock /\ unread[s] # <<>>
    BY <1>5, PacketRead DEF ServerAll
  <2>2. /\ reads' = [reads EXCEPT ![s] = @ + 1]
        /\ unread' = [unread EXCEPT ![s] = Tail(@)]
        /\ UNCHANGED <<peer, frames>>
    BY <1>5, <2>1 DEF RecvBody
  <2>3. peer[s] # "closed" => Complete(unread[s][1])
    BY <1>5, <2>1, HeadRead
  <2>4. QED
    BY <1>0, <2>1, <2>2, <2>3 DEF Kept, Taken
<1>6. CASE Select \/ SelectFails \/ AcceptFails \/ Accept \/ Pick
            \/ PickNone \/ RecvLength \/ PushPktQueue \/ PacketThread
            \/ UNCHANGED server_vars
  BY <1>6 DEF Select, SelectFails, AcceptFails, Accept, Pick,
     PickNone, RecvLength, PushPktQueue, PacketThread, server_vars,
     client_vars, loop_vars, Kept
<1>7. QED
  BY <1>2, <1>4, <1>5, <1>6 DEF SelectThread

(* Nobody else uses a connection of client2.                               *)
LEMMA OthersTake ==
  ASSUME ServerAll, CallOK, WiresOK, Noticed \/ Other, NEW i \in Wire
  PROVE  Kept(Client2[i]) \/ Ends(Client2[i])
<1>0. /\ peer \in [Conns -> Known \cup {"new", "gone"}]
      /\ unread \in [Conns -> Seq(WireFrames)] /\ reads \in [Conns -> Nat]
      /\ frames \in [Conns -> Seq(Lens)]
  BY DEF ServerAll, ServerInv, RegisteredOK, WireInv, WireOK
<1>1. /\ Client2 \in Seq(Conns) /\ i \in DOMAIN Client2 /\ Client2[i] \in Conns
  BY ExampleAssumption DEF ExampleAssumption, WiresOK, Wire
<1>2. CASE Noticed
  <2>1. PICK c : Reset(c)
    BY <1>2 DEF Noticed
  <2>2. QED
    BY <1>0, <1>1, <2>1 DEF Reset, Kept, Ends, Cut, loop_vars
<1>3. CASE Other
  <2>1. PICK c \in Others : \/ Connect(c) \/ SendUnit(c) \/ Close(c)
                            \/ \E n \in Lens : SendLength(c, n)
    BY <1>3 DEF Other
  <2>2. c # Client2[i]
    <3>1. wires # <<>>
      BY DEF Wire
    <3>2. main_at # "client2"
      BY <3>1 DEF CallOK
    <3>3. QED
      BY <1>1, <1>3, <3>2, ExampleAssumption DEF Other, ExampleAssumption
  <2>3. QED
    BY <1>0, <1>1, <2>1, <2>2 DEF Connect, SendUnit, Close, SendLength, Kept, loop_vars
<1>4. QED
  BY <1>2, <1>3

-----------------------------------------------------------------------------
(* The last of two or more stays the last when the first is taken.         *)
LEMMA TailLast ==
  ASSUME NEW S, NEW u \in Seq(S), Len(u) > 1
  PROVE  Tail(u) # <<>> /\ Tail(u)[Len(Tail(u))] = u[Len(u)]
<1>1. PICK l \in Nat : l = Len(u)
  OBVIOUS
<1>2. /\ u # <<>> /\ Len(Tail(u)) = l - 1
      /\ \A k \in 1..Len(Tail(u)) : Tail(u)[k] = u[k + 1]
  BY <1>1, HeadTailProperties
<1>3. l - 1 \in 1..l - 1 /\ (l - 1) + 1 = l
  BY <1>1
<1>4. Tail(u)[l - 1] = u[(l - 1) + 1]
  BY <1>2, <1>3
<1>5. Tail(u) # <<>>
  <2>1. l - 1 # 0
    BY <1>1
  <2>2. Len(<<>>) = 0
    OBVIOUS
  <2>3. ASSUME Tail(u) = <<>> PROVE FALSE
    <3>1. Len(Tail(u)) = 0
      BY <2>2, <2>3
    <3>2. QED
      BY <1>2, <2>1, <3>1
  <2>4. QED
    BY <2>3
<1>6. QED
  BY <1>1, <1>2, <1>3, <1>4, <1>5

(* What is read or lost makes nothing come that had not come before.       *)
LEMMA CameEarlier ==
  ASSUME ServerAll, NEW c \in Conns, Kept(c) \/ Ends(c) \/ Taken(c),
         peer[c] # "closed", NEW n \in Nat, HasCome(c, n)'
  PROVE  HasCome(c, n)
<1>1. CASE Kept(c)
  BY <1>1 DEF Kept, HasCome, Complete
<1>2. CASE Ends(c)
  BY <1>2 DEF Ends, HasCome
<1>3. CASE Taken(c)
  <2>1. PICK u \in Seq(WireFrames) : u = unread[c]
    BY DEF ServerAll, WireInv, WireOK
  <2>2. PICK r \in Nat : r = reads[c]
    BY DEF ServerAll, WireInv, WireOK
  <2>3. PICK g \in Nat : g = Len(frames[c])
    BY DEF ServerAll, WireInv, WireOK
  <2>4. /\ u # <<>> /\ unread'[c] = Tail(u) /\ reads'[c] = r + 1
        /\ Len(frames'[c]) = g /\ Complete(u[1])
    BY <1>3, <2>1, <2>2, <2>3 DEF Taken
  <2>5. r + Len(u) = g
    BY <2>1, <2>2, <2>3, <2>4 DEF ServerAll, OrderInv, LinkOK, Link
  <2>6. CASE n < g \/ n <= r
    BY <2>2, <2>3, <2>6 DEF HasCome
  <2>7. CASE n = g /\ ~(n <= r)
    <3>1. Complete(u[Len(u)])
      <4>1. CASE Len(u) = 1
        BY <2>4, <4>1
      <4>2. CASE Len(u) # 1
        <5>1. Len(u) \in Nat /\ Len(u) > 1
          <6>1. PICK l \in Nat : l = Len(u)
            BY <2>1
          <6>2. l # 0 /\ l # 1
            BY <2>1, <2>4, <4>2, <6>1
          <6>3. QED
            BY <6>1, <6>2
        <5>2. Tail(u) # <<>> /\ Tail(u)[Len(Tail(u))] = u[Len(u)]
          BY <2>1, <5>1, TailLast
        <5>3. ~(n <= r + 1)
          BY <2>5, <2>7, <5>1
        <5>4. QED
          BY <2>4, <2>7, <5>2, <5>3 DEF HasCome, Complete
      <4>3. QED
        BY <4>1, <4>2
    <3>2. QED
      BY <2>1, <2>3, <2>4, <2>7, <3>1 DEF HasCome
  <2>8. n < g \/ n <= r \/ (n = g /\ ~(n <= r))
    <3>1. n < g \/ n <= r + 1 \/ n = g
      BY <2>4 DEF HasCome
    <3>2. Len(u) \in Nat /\ Len(u) # 0
      BY <2>4
    <3>3. QED
      BY <2>5, <3>1, <3>2
  <2>9. QED
    BY <2>6, <2>7, <2>8
<1>4. QED
  BY <1>1, <1>2, <1>3

(* What was posted before the line that is posted does not change.         *)
Settled == /\ Line' = Line /\ (InCall' => InCall)
           /\ \A p \in 1..Line : p # Line \/ ~InCall => result'[p] = result[p]

(* A wire on which nothing is written carries what it carried.             *)
LEMMA CarriesKept ==
  ASSUME CallOK, WiresOK, NEW i \in Wire, Carries(i), wires'[i] = wires[i],
         frames'[Client2[i]] = frames[Client2[i]],
         peer'[Client2[i]] = peer[Client2[i]] \/ peer'[Client2[i]] \in Cut,
         \A n \in Nat : HasCome(Client2[i], n)' => HasCome(Client2[i], n),
         Settled \/ Types
  PROVE  Carries(i)'
<1>1. PICK w \in Seq(WireUnits) : w = wires[i] /\ Written(w, Line, Before)
  BY DEF WiresOK, Wire
<1>2. PICK m \in Nat : m = Cardinality(Lengths(w))
  BY LengthsFinite
<1>3. Line \in Nat
  BY DEF CallOK, Line
<1>4. ASSUME NEW p \in 1..Line', NEW n \in 1..m, NthLine(w, n, p),
             HasCome(Client2[i], n)'
      PROVE  result'[p] = "sent" /\ (InCall' => p # Line')
  <2>1. p \in 1..Line
    BY <1>1, <1>4, NthBound DEF Written
  <2>2. HasCome(Client2[i], n)
    BY <1>4
  <2>3. result[p] = "sent" /\ (InCall => p # Line)
    BY <1>1, <1>2, <1>4, <2>1, <2>2 DEF Carries
  <2>4. CASE Settled
    BY <2>1, <2>3, <2>4 DEF Settled
  <2>5. CASE Types
    <3>1. result' = result /\ Line' = Line + 1
      BY <2>5 DEF Types, Cl!Post, CallOK, Line
    <3>2. QED
      BY <1>3, <2>1, <2>3, <3>1
  <2>6. QED
    BY <2>4, <2>5
<1>5. QED
  BY <1>1, <1>2, <1>4 DEF Carries, Cut

(* What a step of the example does to the connection of a wire on which it *)
(* does not write.                                                         *)
LEMMA QuietOK ==
  ASSUME ServerAll, CallOK, WiresOK, NEW i \in Wire, Carries(i),
         wires'[i] = wires[i], Settled \/ Types,
         Kept(Client2[i]) \/ Ends(Client2[i]) \/ Taken(Client2[i])
  PROVE  Carries(i)'
<1>1. PICK c \in Conns : c = Client2[i]
  BY ExampleAssumption DEF ExampleAssumption, WiresOK, Wire
<1>2. peer[c] # "closed"
  BY <1>1 DEF Carries, Cut
<1>3. \A n \in Nat : HasCome(c, n)' => HasCome(c, n)
  BY <1>1, <1>2, CameEarlier
<1>4. frames'[c] = frames[c] /\ (peer'[c] = peer[c] \/ peer'[c] \in Cut)
  BY <1>1 DEF Kept, Ends, Taken
<1>5. QED
  BY <1>1, <1>3, <1>4, CarriesKept

(* A connection that is made has nothing on it.                            *)
LEMMA NewCarries ==
  ASSUME ServerAll, WiresOK, NewOK, Connects
  PROVE  \E i \in DOMAIN Client2 : /\ i = Len(wires) + 1 /\ Len(wires') = i
                                   /\ peer[Client2[i]] = "new" /\ Carries(i)'
<1>1. PICK i \in Nat : i = Len(wires) + 1
  BY DEF WiresOK
<1>2. i \in DOMAIN Client2 /\ Client2[i] \in Conns
  BY <1>1, ExampleAssumption DEF Connects, Reaches, ExampleAssumption, WiresOK
<1>3. PICK c \in Conns : c = Client2[i]
  BY <1>2
<1>4. /\ peer \in [Conns -> Known \cup {"new", "gone"}]
      /\ peer[c] = "new" /\ peer' = [peer EXCEPT ![c] = "open"] /\ frames' = frames
  BY <1>1, <1>3 DEF Connects, Reaches, Connect, ServerAll, ServerInv, RegisteredOK
<1>5. frames'[c] = <<>> /\ peer'[c] = "open"
  BY <1>4 DEF NewOK
<1>6. Len(wires') = i /\ wires'[i] = <<>>
  <2> DEFINE W == Seq(WireUnits)
  <2>1. <<>> \in W /\ wires \in Seq(W) /\ wires' = Append(wires, <<>>)
    BY DEF WiresOK, Connects
  <2> HIDE DEF W
  <2>2. QED
    BY <1>1, <2>1, AppendProperties
<1>7. Cardinality(Lengths(wires'[i])) = 0 /\ Len(frames'[c]) = 0
  <2>1. Lengths(<<>>) = {} /\ Cardinality({}) = 0 /\ Len(<<>>) = 0
    BY FS_EmptySet DEF Lengths
  <2>2. QED
    BY <1>5, <1>6, <2>1
<1>8. Carries(i)'
  <2>1. 1..0 = {} /\ 0 <= 0
    OBVIOUS
  <2>2. QED
    BY <1>3, <1>5, <1>7, <2>1 DEF Carries
<1>9. QED
  BY <1>1, <1>2, <1>3, <1>4, <1>6, <1>8

(* A length is written.                                                    *)
LEMMA LengthCarried ==
  ASSUME ServerAll, CallOK, WiresOK, Writes, Carries(Len(wires))
  PROVE  Carries(Len(wires))'
<1>1. PICK i \in Wire : i = Len(wires)
  BY LengthSent DEF Writes
<1>2. PICK c \in Conns : c = Client2[i]
  BY ExampleAssumption DEF ExampleAssumption, WiresOK, Wire
<1>3. PICK w \in Seq(WireUnits) : w = wires[i] /\ Written(w, Line, Before)
  BY DEF WiresOK, Wire
<1>4. PICK m \in Nat : m = Cardinality(Lengths(w))
  BY LengthsFinite
<1>5. PICK u \in WireUnits : u = [post |-> Line, unit |-> 0]
  BY DEF WireUnits, CallOK, Line
<1>6. /\ wires' = [wires EXCEPT ![i] = Append(@, u)] /\ u.post = Line /\ u.unit = 0
      /\ Line' = Line /\ result' = result /\ InCall
  BY <1>1, <1>5, LengthSent DEF Writes, Line, InCall
<1>7. PICK v : v = Append(w, u)
  OBVIOUS
<1>8. /\ Cardinality(Lengths(v)) = m + 1
      /\ \A n, p : NthLine(v, n, p) <=> NthLine(w, n, p) \/ (n = m + 1 /\ p = Line)
  BY <1>4, <1>6, <1>7, LengthAdded
<1>9. wires'[i] = v /\ Len(wires') = i
  <2>1. wires \in Seq(Seq(WireUnits)) /\ Append(w, u) \in Seq(WireUnits)
    BY DEF WiresOK
  <2>2. QED
    BY <1>1, <1>3, <1>6, <1>7, <2>1 DEF Wire
<1>10. /\ peer[c] \in {"open"} \cup Cut
       /\ \A n \in 1..Len(frames[c]) : frames[c][n] = MsgLen
       /\ Len(frames[c]) <= m
       /\ peer[c] = "open" => Len(frames[c]) = m
       /\ \A p \in 1..Line, n \in 1..m :
            NthLine(w, n, p) /\ HasCome(c, n) => result[p] = "sent" /\ p # Line
  BY <1>1, <1>2, <1>3, <1>4, <1>6 DEF Carries
<1>11. /\ unread \in [Conns -> Seq(WireFrames)] /\ frames \in [Conns -> Seq(Lens)]
       /\ reads \in [Conns -> Nat] /\ Link(c)
       /\ reads[c] + Len(unread[c]) <= Len(frames[c])
  BY DEF ServerAll, WireInv, WireOK, OrderInv, LinkOK
<1>12. PICK g, r \in Nat : g = Len(frames[c]) /\ r = reads[c] /\ r <= g /\ g <= m
  <2>1. Len(unread[c]) \in Nat /\ Len(frames[c]) \in Nat
    BY <1>11
  <2>2. QED
    BY <1>10, <1>11, <2>1
<1>13. \A n \in 1..m + 1 : HasCome(c, n)' => n \in 1..m /\ HasCome(c, n)
  <2> TAKE n \in 1..m + 1
  <2>1. CASE peer[c] # "open"
    <3>1. UNCHANGED <<frames, reads, unread>>
      BY <1>1, <1>2, <2>1 DEF Writes, Carried, server_vars, client_vars, loop_vars
    <3>2. HasCome(c, n)' => HasCome(c, n)
      BY <3>1 DEF HasCome, Complete
    <3>3. HasCome(c, n) => n \in 1..m
      BY <1>12 DEF HasCome
    <3>4. QED
      BY <3>2, <3>3
  <2>2. CASE peer[c] = "open"
    <3>1. /\ frames'[c] = Append(frames[c], MsgLen) /\ reads' = reads
          /\ unread'[c] = Append(unread[c], [len |-> MsgLen, here |-> 0])
          /\ unread[c] # <<>> => Complete(unread[c][Len(unread[c])])
      BY <1>1, <1>2, <1>11, <2>2 DEF Writes, Carried, SendLength, loop_vars
    <3>2. g = m /\ Len(frames'[c]) = m + 1
      <4>1. MsgLen \in Lens
        BY ExampleAssumption DEF ExampleAssumption
      <4>2. QED
        BY <1>10, <1>11, <1>12, <2>2, <3>1, <4>1
    <3>3. ~Complete(unread'[c][Len(unread'[c])])
      <4>1. [len |-> MsgLen, here |-> 0] \in WireFrames /\ MsgLen # 0
        BY ExampleAssumption DEF ExampleAssumption, WireFrames, Frames
      <4>2. unread'[c][Len(unread'[c])] = [len |-> MsgLen, here |-> 0]
        BY <1>11, <3>1, <4>1
      <4>3. QED
        BY <4>1, <4>2 DEF Complete
    <3>4. ASSUME HasCome(c, n)' PROVE n \in 1..m
      BY <1>12, <3>1, <3>2, <3>3, <3>4 DEF HasCome, Complete
    <3>5. ASSUME n = m PROVE HasCome(c, n)
      <4>1. CASE unread[c] = <<>>
        <5>1. r = g
          <6>1. peer[c] \notin Cut /\ Len(unread[c]) = 0
            BY <2>2, <4>1 DEF Cut
          <6>2. QED
            BY <1>11, <1>12, <6>1 DEF Link
        <5>2. QED
          BY <1>12, <3>2, <3>5, <5>1 DEF HasCome
      <4>2. CASE unread[c] # <<>>
        BY <1>12, <3>1, <3>2, <3>5, <4>2 DEF HasCome
      <4>3. QED
        BY <4>1, <4>2
    <3>6. ASSUME n \in 1..m, n # m PROVE HasCome(c, n)
      BY <1>12, <3>2, <3>6 DEF HasCome
    <3>7. QED
      BY <3>4, <3>5, <3>6
  <2>3. QED
    BY <2>1, <2>2
<1>14. ASSUME NEW p \in 1..Line, NEW n \in 1..m + 1, NthLine(v, n, p), HasCome(c, n)'
       PROVE  result[p] = "sent" /\ p # Line
  <2>1. n \in 1..m /\ HasCome(c, n)
    BY <1>13, <1>14
  <2>2. NthLine(w, n, p)
    BY <1>8, <1>14, <2>1
  <2>3. QED
    BY <1>10, <2>1, <2>2
<1>15. /\ peer'[c] = peer[c]
       /\ \A n \in 1..Len(frames'[c]) : frames'[c][n] = MsgLen
       /\ Len(frames'[c]) <= m + 1
       /\ peer[c] = "open" => Len(frames'[c]) = m + 1
  <2>1. CASE peer[c] # "open"
    <3>1. UNCHANGED <<frames, peer>>
      BY <1>1, <1>2, <2>1 DEF Writes, Carried, server_vars, client_vars
    <3>2. QED
      BY <1>10, <1>12, <2>1, <3>1
  <2>2. CASE peer[c] = "open"
    <3>1. frames'[c] = Append(frames[c], MsgLen) /\ peer' = peer
      BY <1>1, <1>2, <1>11, <2>2 DEF Writes, Carried, SendLength
    <3>2. frames[c] \in Seq(Lens) /\ MsgLen \in Lens
      BY <1>11, ExampleAssumption DEF ExampleAssumption
    <3>3. /\ Len(frames'[c]) = g + 1 /\ g = m /\ frames'[c][g + 1] = MsgLen
          /\ \A n \in 1..g : frames'[c][n] = frames[c][n]
      BY <1>10, <1>12, <2>2, <3>1, <3>2
    <3>4. \A n \in 1..g + 1 : n \in 1..g \/ n = g + 1
      OBVIOUS
    <3>5. QED
      BY <1>10, <1>12, <3>1, <3>3, <3>4
  <2>3. QED
    BY <2>1, <2>2
<1>16. Carries(i)'
  BY <1>2, <1>6, <1>8, <1>9, <1>10, <1>14, <1>15 DEF Carries
<1>17. QED
  BY <1>1, <1>9, <1>16

(* The last packet that waits grows by a unit.                             *)
LEMMA LastGrows ==
  ASSUME WireInv, NEW c \in Conns, SendUnit(c)
  PROVE  LET last == Len(unread[c])
         IN  /\ unread[c] # <<>> /\ last \in Nat /\ last \in 1..last
             /\ Len(unread'[c]) = last /\ unread'[c] # <<>>
             /\ unread'[c][last].len = unread[c][last].len
             /\ unread'[c][last].here = unread[c][last].here + 1
<1>1. PICK y \in Seq(WireFrames) : y = unread[c]
  BY DEF WireInv, WireOK
<1>2. PICK z \in Nat : z = Len(y)
  BY <1>1
<1>3. y # <<>> /\ z # 0
  BY <1>1, <1>2 DEF SendUnit
<1>4. z \in 1..z /\ y[z] \in WireFrames
  BY <1>1, <1>2, <1>3
<1>5. PICK f : f = y[z]
  OBVIOUS
<1>6. PICK g : g = [f EXCEPT !.here = @ + 1]
  OBVIOUS
<1>7. unread'[c] = [y EXCEPT ![z] = g]
  BY <1>1, <1>2, <1>5, <1>6 DEF SendUnit, WireInv, WireOK
<1>8. f \in Frames
  BY <1>4, <1>5 DEF WireFrames
<1>9. g.len = f.len /\ g.here = f.here + 1
  BY <1>6, <1>8, UnitAdded
<1>10. Len(unread'[c]) = z /\ unread'[c][z] = g
  BY <1>1, <1>2, <1>4, <1>7
<1>11. unread'[c] # <<>>
  <2>1. Len(<<>>) = 0
    OBVIOUS
  <2>2. QED
    BY <1>3, <1>10, <2>1
<1>12. QED
  BY <1>1, <1>2, <1>3, <1>4, <1>5, <1>9, <1>10, <1>11

(* A unit of a payload is written.                                         *)
LEMMA UnitCarried ==
  ASSUME ServerAll, CallOK, WiresOK, WritesOn, BodyComing,
         Carries(Len(wires))
  PROVE  Carries(Len(wires))'
<1>1. PICK i \in Wire : i = Len(wires)
  BY UnitSent DEF WritesOn
<1>2. PICK c \in Conns : c = Client2[i]
  BY ExampleAssumption DEF ExampleAssumption, WiresOK, Wire
<1>3. PICK w \in Seq(WireUnits) : w = wires[i]
  BY DEF WiresOK, Wire
<1>4. PICK m \in Nat : m = Cardinality(Lengths(w))
  BY LengthsFinite
<1>5. PICK x \in 1..MsgLen :
        wires' = [wires EXCEPT ![i] = Append(@, [post |-> Line, unit |-> x])]
  BY <1>1, UnitSent DEF WritesOn
<1>6. PICK u \in WireUnits : u = [post |-> Line, unit |-> x]
  <2>1. x \in Nat /\ Line \in Nat
    BY ExampleAssumption DEF ExampleAssumption, CallOK, Line
  <2>2. QED
    BY <2>1 DEF WireUnits
<1>7. PICK v : v = Append(w, u)
  OBVIOUS
<1>8. Lengths(v) = Lengths(w) /\ \A n, p : NthLine(v, n, p) <=> NthLine(w, n, p)
  BY <1>6, <1>7, UnitAppended
<1>9. wires'[i] = v /\ Len(wires') = i
  <2>1. wires \in Seq(Seq(WireUnits)) /\ Append(w, u) \in Seq(WireUnits)
    BY DEF WiresOK
  <2>2. QED
    BY <1>1, <1>3, <1>5, <1>6, <1>7, <2>1 DEF Wire
<1>10. /\ main_pc[Main] = "post_body" /\ sock = "connected" /\ InCall
       /\ left[Main] \in 1..MsgLen /\ Line' = Line
       /\ \/ left[Main] # 1 /\ result' = result
          \/ /\ left[Main] = 1 /\ ~InCall'
             /\ result' = [result EXCEPT ![Line] = "sent"]
  BY UnitSent DEF WritesOn, InCall, Line, CallOK
<1>11. /\ peer[c] \in {"open"} \cup Cut
       /\ \A n \in 1..Len(frames[c]) : frames[c][n] = MsgLen
       /\ Len(frames[c]) <= m
       /\ peer[c] = "open" => Len(frames[c]) = m
       /\ \A p \in 1..Line, n \in 1..m :
            NthLine(w, n, p) /\ HasCome(c, n) => result[p] = "sent" /\ p # Line
  BY <1>1, <1>2, <1>3, <1>4, <1>10 DEF Carries
<1>12. UNCHANGED <<frames, peer, reads>>
  <2>1. CASE peer[c] = "open"
    BY <1>1, <1>2, <2>1 DEF WritesOn, Carried, SendUnit, loop_vars
  <2>2. CASE peer[c] # "open"
    BY <1>1, <1>2, <2>2 DEF WritesOn, Carried, server_vars, client_vars, loop_vars
  <2>3. QED
    BY <2>1, <2>2
<1>13. ASSUME NEW p \in 1..Line, NEW n \in 1..m, NthLine(w, n, p), HasCome(c, n)
       PROVE  result'[p] = "sent" /\ (InCall' => p # Line)
  <2>1. result[p] = "sent" /\ p # Line
    BY <1>11, <1>13
  <2>2. result \in [1..MaxLines -> {"none", "sent", "failed", "broken"}] /\ p \in 1..MaxLines
    BY ExampleAssumption DEF CallOK, Line, ExampleAssumption
  <2>3. result'[p] = "sent"
    BY <1>10, <2>1, <2>2
  <2>4. QED
    BY <2>1, <2>3
<1>14. ASSUME NEW p \in 1..Line, NEW n \in 1..m, NthLine(w, n, p),
              HasCome(c, n)', ~HasCome(c, n)
       PROVE  result'[p] = "sent" /\ (InCall' => p # Line)
  <2>1. peer[c] = "open"
    <3>1. ASSUME peer[c] # "open" PROVE FALSE
      <4>1. unread' = unread
        BY <1>1, <1>2, <3>1 DEF WritesOn, Carried, server_vars, client_vars
      <4>2. QED
        BY <1>12, <1>14, <4>1 DEF HasCome, Complete
    <3>2. QED
      BY <3>1
  <2>2. PICK y \in Seq(WireFrames) : y = unread[c]
    BY DEF ServerAll, WireInv, WireOK
  <2>3. PICK z \in Nat : z = Len(y)
    BY <2>2
  <2>4. SendUnit(c)
    BY <1>1, <1>2, <2>1 DEF WritesOn, Carried
  <2>5. y # <<>> /\ z \in 1..z
    BY <2>2, <2>3, <2>4, LastGrows DEF ServerAll
  <2>6. /\ Len(unread'[c]) = z /\ unread'[c][z].len = y[z].len
        /\ unread'[c][z].here = y[z].here + 1
    BY <2>2, <2>3, <2>4, LastGrows DEF ServerAll
  <2>7. n = Len(frames[c]) /\ y[z].here + 1 = y[z].len
    BY <1>12, <1>14, <2>6 DEF HasCome, Complete
  <2>8. n = m
    BY <1>11, <2>1, <2>7
  <2>9. y[z].len = MsgLen
    <3>1. /\ reads[c] + z = Len(frames[c]) /\ y[z].len = frames[c][reads[c] + z]
      <4>1. Link(c) /\ peer[c] \notin Cut
        BY <2>1 DEF ServerAll, OrderInv, LinkOK, Cut
      <4>2. QED
        BY <2>2, <2>3, <2>5, <4>1 DEF Link
    <3>2. y[z].len = frames[c][n] /\ n \in 1..Len(frames[c])
      BY <2>7, <3>1
    <3>3. QED
      BY <1>11, <3>2
  <2>10. y[z].here = MsgLen - left[Main] /\ p = Line
    BY <1>1, <1>2, <1>3, <1>4, <1>10, <1>14, <2>1, <2>2, <2>3, <2>8 DEF BodyComing
  <2>11. left[Main] = 1
    <3>1. MsgLen \in Nat
      BY ExampleAssumption DEF ExampleAssumption
    <3>2. QED
      BY <1>10, <2>7, <2>9, <2>10, <3>1
  <2>12. result'[p] = "sent"
    <3>1. Line \in 1..MaxLines
      BY <1>10, ExampleAssumption DEF CallOK, Line, ExampleAssumption, InCall
    <3>2. QED
      BY <1>10, <2>10, <2>11, <3>1 DEF CallOK
  <2>13. QED
    BY <1>10, <2>11, <2>12
<1>15. Carries(i)'
  BY <1>2, <1>4, <1>8, <1>9, <1>10, <1>11, <1>12, <1>13, <1>14 DEF Carries
<1>16. QED
  BY <1>1, <1>9, <1>15

(* The connection of a wire, and of no other.                              *)
LEMMA WireConn ==
  ASSUME WiresOK, NEW i \in Wire
  PROVE  /\ i \in DOMAIN Client2 /\ Client2[i] \in Conns
         /\ \A j \in DOMAIN Client2 : j # i => Client2[j] # Client2[i]
BY ExampleAssumption DEF ExampleAssumption, WiresOK, Wire

(* Every wire carries what it should after every step.                     *)
LEMMA CarriesStep ==
  ASSUME ServerAll, CallOK, WiresOK, NewOK, BodyComing, [ExampleNext]_example_vars,
         \A i \in Wire : Carries(i)
  PROVE  (\A i \in Wire : Carries(i))'
<1>0. \A i \in Wire : Client2[i] \in Conns /\ Carries(i)
  BY WireConn
<1>w. wires \in Seq(Seq(WireUnits)) /\ Len(wires) \in Nat
  BY DEF WiresOK
<1>1. CASE Types
  <2>1. UNCHANGED server_vars /\ wires' = wires
    BY <1>1 DEF Types, Cl!Post
  <2>2. \A i \in Wire : Kept(Client2[i])
    BY <2>1 DEF Kept, server_vars, client_vars, loop_vars
  <2>3. ASSUME NEW i \in Wire PROVE Carries(i)'
    BY <1>0, <1>1, <2>1, <2>2, QuietOK
  <2>4. QED
    BY <2>1, <2>3 DEF Wire
<1>2. CASE Waits
  <2>1. wires' = wires /\ Settled
    BY <1>2 DEF Waits, CallMoves, Settled, Line
  <2>2. ASSUME NEW i \in Wire PROVE Carries(i)'
    <3>1. Kept(Client2[i]) \/ Ends(Client2[i]) \/ Taken(Client2[i])
      BY <1>0, <1>2, ServerTakes, OthersTake DEF Waits
    <3>2. QED
      BY <1>0, <2>1, <3>1, QuietOK
  <2>3. QED
    BY <2>1, <2>2 DEF Wire
<1>3. CASE Connects
  <2>1. PICK z \in DOMAIN Client2 : /\ z = Len(wires) + 1 /\ Len(wires') = z
                                    /\ peer[Client2[z]] = "new" /\ Carries(z)'
    BY <1>3, NewCarries
  <2>2. Connect(Client2[z])
    BY <1>3, <2>1 DEF Connects, Reaches
  <2>3. ASSUME NEW i \in Wire PROVE Carries(i)'
    <3>1. Client2[i] # Client2[z]
      BY <1>w, <2>1, WireConn DEF Wire
    <3>2. Kept(Client2[i])
      BY <1>0, <2>2, <3>1 DEF Connect, Kept, loop_vars, ServerAll, ServerInv, RegisteredOK
    <3>3. wires'[i] = wires[i]
      <4> DEFINE W == Seq(WireUnits)
      <4>1. <<>> \in W /\ wires \in Seq(W) /\ wires' = Append(wires, <<>>)
        BY <1>3 DEF WiresOK, Connects
      <4> HIDE DEF W
      <4>2. QED
        BY <4>1, AppendProperties DEF Wire
    <3>4. Settled
      BY <1>3 DEF Connects, CallMoves, Settled, Line
    <3>5. QED
      BY <1>0, <3>2, <3>3, <3>4, QuietOK
  <2>4. QED
    BY <1>w, <2>1, <2>3 DEF Wire
<1>4. CASE Writes \/ WritesOn
  <2>1. /\ Len(wires) \in Wire /\ Len(wires') = Len(wires) /\ Settled
        /\ \A i \in Wire : i # Len(wires) => wires'[i] = wires[i]
    <3>1. /\ Len(wires) \in Wire
          /\ \E u : wires' = [wires EXCEPT ![Len(wires)] = Append(@, u)]
      BY <1>4, LengthSent, UnitSent DEF Writes, WritesOn
    <3>2. ASSUME Writes PROVE Settled
      <4>1. Line' = Line /\ InCall /\ result' = result
        BY <3>2, LengthSent DEF Writes, InCall, Line
      <4>2. QED
        BY <4>1 DEF Settled
    <3>3. ASSUME WritesOn PROVE Settled
      <4>1. /\ InCall /\ Line' = Line
            /\ result' = result \/ result' = [result EXCEPT ![Line] = "sent"]
        BY <3>3, UnitSent DEF WritesOn, InCall, Line
      <4>2. /\ result \in [1..MaxLines -> {"none", "sent", "failed", "broken"}]
            /\ 1..Line \subseteq 1..MaxLines
        BY ExampleAssumption DEF CallOK, Line, ExampleAssumption
      <4>3. \A p \in 1..Line : p # Line => result'[p] = result[p]
        BY <4>1, <4>2
      <4>4. QED
        BY <4>1, <4>3 DEF Settled
    <3>4. QED
      BY <1>4, <1>w, <3>1, <3>2, <3>3 DEF Wire
  <2>2. Carries(Len(wires))'
    BY <1>0, <1>4, <2>1, LengthCarried, UnitCarried
  <2>3. ASSUME NEW i \in Wire, i # Len(wires) PROVE Carries(i)'
    <3>1. PICK c \in Conns : c = Client2[i]
      BY <1>0
    <3>2. PICK d \in Conns : d = Client2[Len(wires)] /\ c # d
      BY <2>1, <2>3, <3>1, WireConn
    <3>3. SendLength(d, MsgLen) \/ SendUnit(d) \/ UNCHANGED server_vars
      BY <1>4, <3>2 DEF Writes, WritesOn, Carried
    <3>4. Kept(c)
      BY <3>2, <3>3 DEF SendLength, SendUnit, server_vars, client_vars, loop_vars,
                        Kept, ServerAll, WireInv, WireOK
    <3>5. QED
      BY <1>0, <2>1, <2>3, <3>1, <3>4, QuietOK
  <2>4. PICK z : z = Len(wires) /\ Carries(z)'
    BY <2>1, <2>2
  <2>5. \A i \in Wire : Carries(i)'
    BY <2>3, <2>4
  <2>6. QED
    BY <2>1, <2>5 DEF Wire
<1>5. QED
  BY <1>1, <1>2, <1>3, <1>4, ExampleSteps

(* What has come of the payload keeps up with post().                      *)
LEMMA BodyStep ==
  ASSUME ServerAll, CallOK, WiresOK, BodyComing, [ExampleNext]_example_vars,
         \A i \in Wire : Carries(i)
  PROVE  BodyComing'
<1>w. wires \in Seq(Seq(WireUnits)) /\ Len(wires) \in Nat
  BY DEF WiresOK
<1>1. CASE Types \/ Connects
  <2>1. main_pc'[Main] # "post_body"
    BY <1>1 DEF Types, Connects, Cl!Post, Cl!Goto, CallOK
  <2>2. QED
    BY <2>1 DEF BodyComing
<1>2. CASE Waits
  <2> SUFFICES ASSUME sock' = "connected", main_pc'[Main] = "post_body"
               PROVE  BodyComing'
    BY DEF BodyComing
  <2>1. /\ wires' = wires /\ Line' = Line /\ left' = left
        /\ sock = "connected" /\ main_pc[Main] = "post_body"
    BY <1>2 DEF Waits, CallMoves, Line
  <2>2. PICK i \in Wire : i = Len(wires)
    <3>1. Len(wires) # 0
      BY <1>w, <2>1 DEF CallOK
    <3>2. QED
      BY <1>w, <3>1 DEF Wire
  <2>3. PICK c \in Conns : c = Client2[i]
    BY WireConn
  <2>4. /\ \A p \in 1..Line : NthLine(wires[i], Cardinality(Lengths(wires[i])), p) => p = Line
        /\ peer[c] = "open" =>
             unread[c] # <<>> /\ unread[c][Len(unread[c])].here = MsgLen - left[Main]
    BY <2>1, <2>2, <2>3 DEF BodyComing
  <2>5. ASSUME peer'[c] = "open"
        PROVE  unread'[c] # <<>> /\ unread'[c][Len(unread'[c])].here = MsgLen - left[Main]
    <3>1. Kept(c) \/ Taken(c)
      BY <1>2, <2>3, <2>5, ServerTakes, OthersTake DEF Waits, Ends, Cut
    <3>2. CASE Kept(c)
      BY <2>4, <2>5, <3>2 DEF Kept
    <3>3. CASE Taken(c)
      <4>1. peer[c] = "open" /\ unread'[c] = Tail(unread[c]) /\ Complete(unread[c][1])
        BY <2>5, <3>3 DEF Taken
      <4>2. PICK u \in Seq(WireFrames) : u = unread[c]
        BY DEF ServerAll, WireInv, WireOK
      <4>3. PICK z \in Nat : z = Len(u)
        BY <4>2
      <4>4. z # 0 /\ u[z].here = MsgLen - left[Main]
        BY <2>4, <4>1, <4>2, <4>3
      <4>5. u[z].len = MsgLen
        <5>1. /\ Link(c) /\ peer[c] \notin Cut /\ z \in 1..z
              /\ \A n \in 1..Len(frames[c]) : frames[c][n] = MsgLen
          BY <2>3, <4>1, <4>3, <4>4 DEF ServerAll, OrderInv, LinkOK, Carries, Cut
        <5>2. reads[c] + z = Len(frames[c]) /\ u[z].len = frames[c][reads[c] + z]
          BY <4>2, <4>3, <5>1 DEF Link
        <5>3. reads[c] \in Nat /\ Len(frames[c]) \in Nat
          BY DEF ServerAll, WireInv, WireOK
        <5>4. reads[c] + z \in 1..Len(frames[c])
          BY <4>3, <4>4, <5>2, <5>3
        <5>5. QED
          BY <5>1, <5>2, <5>4
      <4>6. u[z].here # u[z].len
        <5>1. left[Main] \in 1..MsgLen /\ MsgLen \in Nat
          BY <2>1, ExampleAssumption DEF CallOK, ExampleAssumption
        <5>2. QED
          BY <4>4, <4>5, <5>1
      <4>7. z > 1
        <5>1. z # 1
          BY <4>1, <4>2, <4>6 DEF Complete
        <5>2. QED
          BY <4>3, <4>4, <5>1
      <4>8. QED
        BY <4>1, <4>2, <4>3, <4>4, <4>7, TailLast
    <3>4. QED
      BY <3>1, <3>2, <3>3
  <2>6. QED
    BY <2>1, <2>2, <2>3, <2>4, <2>5 DEF BodyComing
<1>3. CASE Writes
  <2>1. PICK i \in Wire : i = Len(wires)
    BY <1>3, LengthSent DEF Writes
  <2>2. PICK c \in Conns : c = Client2[i]
    BY WireConn
  <2>3. PICK w \in Seq(WireUnits) : w = wires[i]
    BY DEF WiresOK, Wire
  <2>4. PICK u \in WireUnits : u = [post |-> Line, unit |-> 0]
    BY DEF WireUnits, CallOK, Line
  <2>5. /\ wires' = [wires EXCEPT ![i] = Append(@, u)] /\ u.unit = 0 /\ u.post = Line
        /\ Line' = Line /\ left'[Main] = MsgLen
    BY <1>3, <2>1, <2>4, LengthSent DEF Writes, Line
  <2>6. PICK v : v = Append(w, u)
    OBVIOUS
  <2>7. wires'[i] = v /\ Len(wires') = i
    <3>1. Append(w, u) \in Seq(WireUnits)
      OBVIOUS
    <3>2. QED
      BY <1>w, <2>1, <2>3, <2>5, <2>6, <3>1 DEF Wire
  <2>8. \A p : NthLine(v, Cardinality(Lengths(v)), p) => p = Line
    <3>1. PICK m \in Nat : m = Cardinality(Lengths(w))
      BY LengthsFinite
    <3>2. /\ Cardinality(Lengths(v)) = m + 1
          /\ \A n, p : NthLine(v, n, p) <=> NthLine(w, n, p) \/ (n = m + 1 /\ p = Line)
      BY <2>5, <2>6, <3>1, LengthAdded
    <3>3. \A p : ~NthLine(w, m + 1, p)
      <4>1. m + 1 \notin 1..m
        OBVIOUS
      <4>2. QED
        BY <3>1, <4>1, NthBound
    <3>4. QED
      BY <3>2, <3>3
  <2>9. ASSUME peer'[c] = "open"
        PROVE  /\ unread'[c] # <<>>
               /\ unread'[c][Len(unread'[c])].here = MsgLen - left'[Main]
    <3>1. peer[c] = "open"
      BY <1>3, <2>1, <2>2, <2>9 DEF Writes, Carried, server_vars, client_vars
    <3>2. PICK f : f = [len |-> MsgLen, here |-> 0]
      OBVIOUS
    <3>3. PICK y \in Seq(WireFrames) : y = unread[c]
      BY DEF ServerAll, WireInv, WireOK
    <3>4. f \in WireFrames /\ f.here = 0 /\ MsgLen - MsgLen = 0
      BY <3>2, ExampleAssumption DEF ExampleAssumption, WireFrames, Frames
    <3>5. unread'[c] = Append(y, f)
      BY <1>3, <2>1, <2>2, <3>1, <3>2, <3>3 DEF Writes, Carried, SendLength,
         ServerAll, WireInv, WireOK
    <3>6. unread'[c] # <<>> /\ unread'[c][Len(unread'[c])] = f
      BY <3>3, <3>4, <3>5, AppendProperties
    <3>7. QED
      BY <2>5, <3>4, <3>6
  <2>10. QED
    BY <2>2, <2>5, <2>7, <2>8, <2>9 DEF BodyComing
<1>4. CASE WritesOn
  <2> SUFFICES ASSUME main_pc'[Main] = "post_body" PROVE BodyComing'
    BY DEF BodyComing
  <2>1. PICK i \in Wire : i = Len(wires)
    BY <1>4, UnitSent DEF WritesOn
  <2>2. PICK c \in Conns : c = Client2[i]
    BY WireConn
  <2>3. PICK w \in Seq(WireUnits) : w = wires[i]
    BY DEF WiresOK, Wire
  <2>4. PICK x \in 1..MsgLen :
          wires' = [wires EXCEPT ![i] = Append(@, [post |-> Line, unit |-> x])]
    BY <1>4, <2>1, UnitSent DEF WritesOn
  <2>5. PICK u \in WireUnits : u = [post |-> Line, unit |-> x]
    <3>1. x \in Nat /\ Line \in Nat
      BY ExampleAssumption DEF ExampleAssumption, CallOK, Line
    <3>2. QED
      BY <3>1 DEF WireUnits
  <2>6. PICK v : v = Append(w, u)
    OBVIOUS
  <2>7. wires'[i] = v /\ Len(wires') = i
    <3>1. Append(w, u) \in Seq(WireUnits)
      OBVIOUS
    <3>2. QED
      BY <1>w, <2>1, <2>3, <2>4, <2>5, <2>6, <3>1 DEF Wire
  <2>8. Lengths(v) = Lengths(w) /\ \A n, p : NthLine(v, n, p) <=> NthLine(w, n, p)
    BY <2>5, <2>6, UnitAppended
  <2>9. /\ main_pc[Main] = "post_body" /\ sock = "connected" /\ Line' = Line
        /\ left'[Main] = left[Main] - 1 /\ left[Main] \in 1..MsgLen
    BY <1>4, UnitSent DEF WritesOn, Line
  <2>10. /\ \A p \in 1..Line : NthLine(w, Cardinality(Lengths(w)), p) => p = Line
         /\ peer[c] = "open" =>
              unread[c] # <<>> /\ unread[c][Len(unread[c])].here = MsgLen - left[Main]
    BY <2>1, <2>2, <2>3, <2>9 DEF BodyComing
  <2>11. ASSUME peer'[c] = "open"
         PROVE  /\ unread'[c] # <<>>
                /\ unread'[c][Len(unread'[c])].here = MsgLen - left'[Main]
    <3>1. peer[c] = "open"
      BY <1>4, <2>1, <2>2, <2>11 DEF WritesOn, Carried, server_vars, client_vars
    <3>2. SendUnit(c)
      BY <1>4, <2>1, <2>2, <3>1 DEF WritesOn, Carried
    <3>3. PICK h : h = unread[c][Len(unread[c])].here
      OBVIOUS
    <3>4. unread'[c] # <<>> /\ unread'[c][Len(unread'[c])].here = h + 1
      BY <3>2, <3>3, LastGrows DEF ServerAll
    <3>5. h + 1 = MsgLen - left'[Main]
      <4>1. MsgLen \in Nat
        BY ExampleAssumption DEF ExampleAssumption
      <4>2. QED
        BY <2>9, <2>10, <3>1, <3>3, <4>1
    <3>6. QED
      BY <3>4, <3>5
  <2>12. QED
    BY <2>2, <2>7, <2>8, <2>9, <2>10, <2>11 DEF BodyComing
<1>5. QED
  BY <1>1, <1>2, <1>3, <1>4, ExampleSteps

(* Nobody sends before there is a connection.                              *)
LEMMA NewStep ==
  ASSUME ServerAll, NewOK, [Next]_vars
  PROVE  NewOK'
<1>0. /\ peer \in [Conns -> Known \cup {"new", "gone"}]
      /\ frames \in [Conns -> Seq(Lens)]
  BY DEF ServerAll, ServerInv, RegisteredOK, WireInv, WireOK
<1>1. ASSUME NEW d \in Conns, NEW n \in Lens, SendLength(d, n)
      PROVE  NewOK'
  <2>1. peer' = peer /\ peer[d] = "open" /\ \A c \in Conns : c # d => frames'[c] = frames[c]
    BY <1>0, <1>1 DEF SendLength
  <2>2. QED
    BY <2>1 DEF NewOK
<1>2. ASSUME NEW d \in Conns, Connect(d) \/ SendUnit(d) \/ Close(d) \/ Reset(d)
      PROVE  NewOK'
  BY <1>0, <1>2 DEF Connect, SendUnit, Close, Reset, NewOK
<1>3. CASE AcceptOverflow \/ RecvLengthFails \/ RecvBodyFails
  <2>1. frames' = frames /\ \E d : peer' = [peer EXCEPT ![d] = "gone"]
    BY <1>3 DEF AcceptOverflow, RecvLengthFails, RecvBodyFails, Drop, CloseSocket
  <2>2. QED
    BY <1>0, <2>1 DEF NewOK
<1>4. CASE Select \/ SelectFails \/ AcceptFails \/ Accept \/ Pick
            \/ PickNone \/ RecvLength \/ RecvBody \/ PushPktQueue
            \/ PacketThread \/ Post \/ UNCHANGED vars
  BY <1>4 DEF Select, SelectFails, AcceptFails, Accept, Pick, PickNone,
     RecvLength, RecvBody, PushPktQueue, PacketThread, Post, vars, client_vars, NewOK
<1>5. QED
  BY <1>1, <1>2, <1>3, <1>4 DEF Next, Client, SelectThread

(* A packet that was read is of a connection from which something came.    *)
LEMMA ReadFrom ==
  ASSUME ServerAll, NEW r \in 1..Len(received)
  PROVE  LET p == received[r].payload
         IN  p.conn \in Conns /\ p.frame \in 1..reads[p.conn]
<1>1. PICK p \in Payloads : p = received[r].payload
  BY PacketQueued DEF ServerAll
<1>2. p.conn \in Conns
  BY <1>1 DEF Payloads
<1>3. p.frame \in FramesUpTo(p.conn, Len(received))
  BY <1>1 DEF FramesUpTo
<1>4. QED
  BY <1>1, <1>2, <1>3 DEF ServerAll, OrderInv, OrderOK

(* What is read of a wire of client2 is as long as a line.                 *)
LEMMA LinesStep ==
  ASSUME ServerAll, CallOK, WiresOK, NewOK, LinesWhole, [ExampleNext]_example_vars,
         \A i \in Wire : Carries(i)
  PROVE  LinesWhole'
<1>w. wires \in Seq(Seq(WireUnits)) /\ Len(wires) \in Nat
  BY DEF WiresOK
<1>1. CASE Types \/ Writes \/ WritesOn
  <2>1. received' = received
    <3>1. UNCHANGED server_vars \/ (\E c, n : SendLength(c, n)) \/ \E c : SendUnit(c)
      BY <1>1 DEF Types, Writes, WritesOn, Carried
    <3>2. QED
      BY <3>1 DEF SendLength, SendUnit, server_vars, queue_vars
  <2>2. Len(wires') = Len(wires)
    <3>1. CASE Types
      BY <3>1 DEF Types, Cl!Post
    <3>2. CASE Writes \/ WritesOn
      <4>1. \E u : wires' = [wires EXCEPT ![Len(wires)] = Append(@, u)]
        BY <3>2, LengthSent, UnitSent DEF Writes, WritesOn
      <4>2. QED
        BY <1>w, <4>1
    <3>3. QED
      BY <1>1, <3>1, <3>2
  <2>3. QED
    BY <2>1, <2>2 DEF LinesWhole, Wire
<1>2. CASE Connects
  <2>1. PICK z \in DOMAIN Client2 : /\ z = Len(wires) + 1 /\ Len(wires') = z
                                    /\ peer[Client2[z]] = "new" /\ Carries(z)'
    BY <1>2, NewCarries
  <2>2. received' = received
    BY <1>2 DEF Connects, Reaches, Connect, queue_vars
  <2>3. PICK c \in Conns : c = Client2[z]
    BY ExampleAssumption DEF ExampleAssumption
  <2>4. \A r \in 1..Len(received) : received[r].payload.conn # c
    <3>1. reads[c] = 0
      <4>1. frames[c] = <<>>
        BY <2>1, <2>3 DEF NewOK
      <4>2. Len(frames[c]) = 0
        BY <4>1
      <4>3. /\ reads[c] \in Nat /\ Len(unread[c]) \in Nat
            /\ reads[c] + Len(unread[c]) <= Len(frames[c])
        BY DEF ServerAll, WireInv, WireOK
      <4>4. QED
        BY <4>2, <4>3
    <3>2. 1..0 = {}
      OBVIOUS
    <3>3. QED
      BY <3>1, <3>2, ReadFrom
  <2>5. \A i \in 1..Len(wires') : i \in Wire \/ i = z
    BY <1>w, <2>1 DEF Wire
  <2>6. QED
    BY <2>2, <2>3, <2>4, <2>5 DEF LinesWhole, Wire
<1>3. CASE Waits
  <2>1. wires' = wires
    BY <1>3 DEF Waits
  <2>2. RecvBody \/ received' = received
    BY OnlyReads, ServerRuns
  <2>3. CASE RecvBody
    <3>1. PICK s \in Conns, e \in [client_id : Mgr!Slots, payload : Payloads] :
            /\ s = client_sock.sock /\ e.payload.conn = s /\ e.payload.len = BodyUnits
            /\ received' = Append(received, e)
      <4> DEFINE p == [conn |-> client_sock.sock, frame |-> reads[client_sock.sock] + 1,
                       len |-> BodyUnits]
      <4>1. /\ client_sock.sock \in Conns /\ client_sock.client_id \in Mgr!Slots
            /\ p \in Payloads
        BY <2>3, PacketRead DEF ServerAll
      <4>2. received' = Append(received, [client_id |-> client_sock.client_id, payload |-> p])
        BY <2>3, NextRead DEF ServerAll
      <4>3. p.conn = client_sock.sock /\ p.len = BodyUnits
        OBVIOUS
      <4> HIDE DEF p
      <4>4. QED
        BY <4>1, <4>2, <4>3
    <3>2. /\ Len(received') = Len(received) + 1 /\ received'[Len(received) + 1] = e
          /\ \A r \in 1..Len(received) : received'[r] = received[r]
          /\ Len(received) \in Nat
      BY <3>1 DEF ServerAll, WireInv, ReceivedOK
    <3>3. ASSUME NEW i \in Wire, Client2[i] = s PROVE BodyUnits = MsgLen
      <4>1. /\ peer[s] # "closed"
            /\ \A n \in 1..Len(frames[s]) : frames[s][n] = MsgLen
        BY <3>3 DEF Carries, Cut
      <4>2. reads[s] + 1 \in 1..Len(frames[s]) /\ BodyUnits = frames[s][reads[s] + 1]
        BY <2>3, <3>1, <4>1, HeadRead
      <4>3. QED
        BY <4>1, <4>2
    <3>4. \A r \in 1..Len(received'), i \in Wire :
            received'[r].payload.conn = Client2[i] => received'[r].payload.len = MsgLen
      <4> TAKE r \in 1..Len(received'), i \in Wire
      <4>1. CASE r \in 1..Len(received)
        BY <3>2, <4>1 DEF LinesWhole
      <4>2. CASE r = Len(received) + 1
        BY <3>1, <3>2, <3>3, <4>2
      <4>3. QED
        BY <3>2, <4>1, <4>2
    <3>5. QED
      BY <2>1, <3>4 DEF LinesWhole, Wire
  <2>4. QED
    BY <2>1, <2>2, <2>3 DEF LinesWhole, Wire
<1>4. QED
  BY <1>1, <1>2, <1>3, ExampleSteps

(* Every step of the example is one of the server, and keeps what is known *)
(* of both.                                                                *)
LEMMA ExampleStep ==
  ServerAll /\ ExampleInv /\ [ExampleNext]_example_vars =>
    [Next]_vars /\ ExampleInv'
<1> SUFFICES ASSUME ServerAll, ExampleInv, [ExampleNext]_example_vars
             PROVE  [Next]_vars /\ ExampleInv'
  OBVIOUS
<1>1. [Next]_vars
  BY ServerRuns DEF ExampleInv
<1>2. CallOK' /\ WiresOK'
  BY CallStep, WiresStep DEF ExampleInv
<1>3. (\A i \in Wire : Carries(i))' /\ BodyComing'
  BY CarriesStep, BodyStep DEF ExampleInv
<1>4. NewOK' /\ LinesWhole'
  BY <1>1, NewStep, LinesStep DEF ExampleInv
<1>5. QED
  BY <1>1, <1>2, <1>3, <1>4 DEF ExampleInv

(* The invariant holds when main() begins.                                 *)
LEMMA ExampleStart ==
  ExampleInit => ExampleInv
<1> SUFFICES ASSUME ExampleInit PROVE ExampleInv
  OBVIOUS
<1>1. /\ main_pc = [t \in {Main} |-> "idle"] /\ wires = <<>> /\ posts = <<>>
      /\ posting = [t \in {Main} |-> 0] /\ left = [t \in {Main} |-> 0]
      /\ result = [p \in 1..MaxLines |-> "none"] /\ sock = "fresh"
  BY DEF ExampleInit, Cl!Init, Cl!Posts
<1>2. Len(<<>>) = 0 /\ 1..0 = {}
  OBVIOUS
<1>3. CallOK
  BY <1>1, <1>2, ExampleAssumption DEF CallOK, InCall, Line, ExampleAssumption
<1>4. WiresOK /\ \A i \in Wire : Carries(i)
  <2>1. Wire = {} /\ Len(Client2) \in Nat
    BY <1>1, <1>2, ExampleAssumption DEF Wire, ExampleAssumption
  <2>2. QED
    BY <1>1, <1>2, <2>1 DEF WiresOK
<1>5. BodyComing
  BY <1>1 DEF BodyComing
<1>6. NewOK
  BY DEF ExampleInit, Init, NewOK
<1>7. LinesWhole
  BY <1>2 DEF ExampleInit, Init, Pkt!Init, LinesWhole
<1>8. QED
  BY <1>3, <1>4, <1>5, <1>6, <1>7 DEF ExampleInv

-----------------------------------------------------------------------------
(* What the server logs is what was sent.                                  *)
LEMMA LogsByInv ==
  ASSUME ServerAll, ExampleInv, Queue!Paired
  PROVE  LogsWhatWasSent
<1> SUFFICES ASSUME Lossless, NEW i \in 1..Len(wires), NEW j \in 1..Len(messages), From(j, i)
             PROVE  /\ Pkt!Delivered[j].payload.len = MsgLen
                    /\ \E p \in 1..Len(posts) :
                         /\ Logs(j, i, p) /\ result[p] = "sent"
                         /\ \A h \in 1..j - 1, q \in 1..Len(posts) :
                              Logs(h, i, q) => q < p
  BY DEF LogsWhatWasSent
<1>1. Pkt!Delivered = Queue!Delivered
  BY DEF Pkt!Delivered, Queue!Delivered, Pkt!ClientIdIn, Queue!ClientIdIn,
     Pkt!PayloadIn, Queue!PayloadIn
<1>2. \A h \in 1..Len(messages) :
        h <= Len(received) /\ Pkt!Delivered[h] = received[h]
  BY <1>1 DEF Queue!Paired, Lossless
<1>3. j \in 1..Len(received)
  BY <1>2 DEF ServerAll, WireInv, ReceivedOK
<1>4. \A h \in 1..j - 1 : h \in 1..Len(messages) /\ h \in 1..Len(received)
  <2>1. j \in Nat /\ j <= Len(messages) /\ j <= Len(received)
    BY <1>2 DEF Queue!Paired
  <2>2. Len(messages) \in Int /\ Len(received) \in Int
    BY DEF ServerAll, WireInv, ReceivedOK, Queue!Paired
  <2>3. QED
    BY <2>1, <2>2
<1>5. i \in Wire
  BY DEF Wire
<1>6. PICK c \in Conns : c = Client2[i]
  BY <1>5, WireConn DEF ExampleInv
<1>7. PICK w \in Seq(WireUnits) : w = wires[i] /\ Written(w, Line, Before)
  BY <1>5 DEF ExampleInv, WiresOK, Wire
<1>8. PICK m \in Nat : m = Cardinality(Lengths(w))
  BY LengthsFinite
<1>9. PICK x \in Payloads : x = received[j].payload
  BY <1>3, PacketQueued DEF ServerAll
<1>10. x.conn = c /\ Pkt!Delivered[j].payload = x
  BY <1>2, <1>6, <1>9 DEF From
<1>11. x.len = MsgLen
  BY <1>3, <1>5, <1>6, <1>9, <1>10 DEF ExampleInv, LinesWhole
<1>12. PICK f \in 1..m : f = x.frame /\ HasCome(c, f)
  <2>1. x.frame \in 1..reads[c]
    BY <1>3, <1>9, <1>10, ReadFrom
  <2>2. /\ reads[c] \in Nat /\ Len(unread[c]) \in Nat /\ Len(frames[c]) \in Nat
        /\ reads[c] + Len(unread[c]) <= Len(frames[c])
    BY DEF ServerAll, WireInv, WireOK
  <2>3. Len(frames[c]) <= m
    BY <1>5, <1>6, <1>7, <1>8 DEF ExampleInv, Carries
  <2>4. x.frame \in 1..m
    <3>1. PICK r, u, g \in Nat : r = reads[c] /\ u = Len(unread[c]) /\ g = Len(frames[c])
      BY <2>2
    <3>2. r + u <= g /\ g <= m
      BY <2>2, <2>3, <3>1
    <3>3. PICK n \in 1..r : n = x.frame
      BY <2>1, <3>1
    <3>4. n \in 1..m
      BY <3>2
    <3>5. QED
      BY <3>3, <3>4
  <2>5. HasCome(c, x.frame)
    BY <2>1, <2>2 DEF HasCome
  <2>6. QED
    BY <2>4, <2>5
<1>13. PICK p \in 1..Line : NthLine(w, f, p)
  BY <1>7, <1>8 DEF Written
<1>14. result[p] = "sent"
  BY <1>5, <1>6, <1>7, <1>8, <1>12, <1>13 DEF ExampleInv, Carries
<1>15. Line = Len(posts)
  BY DEF ExampleInv, CallOK
<1>16. Logs(j, i, p)
  BY <1>7, <1>10, <1>12, <1>13 DEF Logs
<1>17. ASSUME NEW h \in 1..j - 1, NEW q \in 1..Len(posts), Logs(h, i, q)
       PROVE  q < p
  <2>1. PICK y \in Payloads : y = received[h].payload
    BY <1>4, PacketQueued DEF ServerAll
  <2>2. y.conn = c /\ Pkt!Delivered[h].payload = y
    BY <1>2, <1>4, <1>6, <1>17, <2>1 DEF Logs, From
  <2>3. FramesUpTo(c, j - 1) = 1..f - 1
    BY <1>3, <1>9, <1>10, <1>12 DEF ServerAll, OrderInv, OrderOK
  <2>4. y.frame \in FramesUpTo(c, j - 1)
    BY <2>1, <2>2 DEF FramesUpTo
  <2>5. PICK e \in Nat : e = y.frame /\ e < f
    BY <2>3, <2>4
  <2>6. NthLine(w, e, q)
    BY <1>7, <1>17, <2>2, <2>5 DEF Logs
  <2>7. PICK k, l \in Lengths(w) : k < l /\ w[k].post = q /\ w[l].post = p
    BY <1>13, <2>5, <2>6, NthOrder
  <2>8. QED
    BY <1>7, <2>7 DEF Written
<1>18. QED
  BY <1>10, <1>11, <1>14, <1>15, <1>16, <1>17

(* What is known of the running example.                                   *)
LEMMA ExampleKnown ==
  ExampleSpec => []ServerAll /\ []ExampleInv /\ SafeSpec
<1>1. ExampleInit => Init /\ ServerAll /\ ExampleInv
  BY ExampleStart, FullInit, OrderInit DEF ExampleInit, ServerAll
<1>2. ServerAll /\ ExampleInv /\ [ExampleNext]_example_vars =>
        [Next]_vars /\ ServerAll' /\ ExampleInv'
  BY ExampleStep, FullStep, OrderInvStep DEF ServerAll
<1>3. QED
  BY <1>1, <1>2, PTL DEF ExampleSpec, SafeSpec

(* The server of the example takes the steps of TameServerImpl and no      *)
(* other: client2, whose connections the network may lose, the other       *)
(* clients and main() are clients such as that module allows.              *)
THEOREM ExampleRunsServer == ExampleSpec => SafeSpec
BY ExampleKnown, PTL

(* So what holds of every server holds of this one: its application is     *)
(* told of a client before it gets a packet of it, under the id of that    *)
(* client, and gets the packets of each in order.                          *)
THEOREM ExampleServed ==
  ExampleSpec => []MessageAfterConnect /\ []IdNamesSender /\ []FramesInOrder
BY ExampleRunsServer, MessageAfterConnectSafely, IdNamesSenderSafely,
   FramesInOrderSafely, PTL

(* From the call of post() to the log: what the server logs of client2 are *)
(* lines that post() said it had sent, whole, each once and in the order   *)
(* in which they were typed, whatever becomes of the connections, as long  *)
(* as the queue drops nothing and never comes back empty-handed.           *)
THEOREM LogsWhatWasSentAlways == ExampleSpec => []LogsWhatWasSent
<1>1. ServerAll /\ ExampleInv /\ Queue!Paired => LogsWhatWasSent
  BY LogsByInv
<1>2. QED
  BY <1>1, ExampleKnown, ServerKnown, PTL
=============================================================================
