---------------------------- MODULE TameServerImpl ----------------------------
(***************************************************************************)
(* The server (src/tamenut_net/TameServerImpl.cpp): one thread selects,    *)
(* accepts, reads one packet and pushes it; the thread of ProcPktThread    *)
(* pops it and calls on_message.  Clients and the kernel are the           *)
(* environment.  The table of clients is ClientSocketManager, the queue    *)
(* between the threads is ProcPktThread; their operations are the actions  *)
(* of those modules.                                                       *)
(*                                                                         *)
(* A packet on the wire is a 4-byte length and a body.  The length comes   *)
(* in one piece here (one that is cut off ends in the same way as one that *)
(* never comes); the body comes unit by unit.  Bodies carry their          *)
(* connection and number instead of a content.                             *)
(***************************************************************************)
EXTENDS Integers, Sequences, FiniteSets

CONSTANTS
  Conns,                \* connections clients make, one socket handle each
  Listener,             \* _sock, the listening socket
  NoSock,               \* SOCKET_ERROR
  MaxSockNum,           \* MAX_SOCK_NUM
  FdSetSize,            \* FD_SETSIZE: what an fd_set can hold
  PayloadLen,           \* sizeof(payload) in run()
  Lens,                 \* lengths a client may announce
  MaxFrames,            \* bound: packets per connection
  ResetAllowed,         \* may a client abort its connection?
  SelectMayFail,        \* may select() return SOCKET_ERROR?
  IdLen, HeaderLen, MaxSize, RecvBlockingValues, SpuriousWakeups, Garbage,
  MaxPkts, MaxMessages  \* see ProcPktThread

ASSUME ServerAssumption ==
  /\ Listener \notin Conns /\ NoSock \notin Conns \cup {Listener}
  /\ MaxSockNum \in Nat \ {0} /\ FdSetSize \in Nat \ {0}
  /\ PayloadLen \in Nat \ {0} /\ Lens \subseteq Nat /\ MaxFrames \in Nat
  /\ ResetAllowed \in BOOLEAN /\ SelectMayFail \in BOOLEAN
  /\ IdLen \in Nat /\ HeaderLen \in Nat /\ MaxSize \in Nat
  /\ RecvBlockingValues \subseteq BOOLEAN /\ SpuriousWakeups \in BOOLEAN
  /\ MaxPkts \in Nat /\ MaxMessages \in Nat

VARIABLES
  \* clients and kernel
  backlog,              \* connections that accept() has not returned
  peer,                 \* state of a connection as the kernel sees it
  unread,               \* packets on their way: length and units that came
  \* the select thread: where run() is, and its locals
  select_pc, read_socks, all_socks, client_sock, total_pkt_len,
  \* history
  frames,               \* the lengths each client announced
  reads,                \* how many of its packets were handed to the queue
  announced,            \* the calls of on_connect: connection and client id
  \* ClientSocketManager
  client_sock_list, current_client_cnt,
  \* ProcPktThread
  user_data_queue, recv_blocking, waiter, proc_pc, client_id, payload,
  crashed, pushing, received, messages, dropped, misread

client_vars == <<peer, unread, frames>>
loop_vars   == <<select_pc, read_socks, all_socks, client_sock,
                 total_pkt_len, reads, announced>>
mgr_vars    == <<client_sock_list, current_client_cnt>>
queue_vars  == <<user_data_queue, recv_blocking, waiter, proc_pc, client_id,
                 payload, crashed, pushing, received, messages, dropped,
                 misread>>
vars == <<backlog, client_vars, loop_vars, mgr_vars, queue_vars>>

(* What is pushed: `len' units of packet `frame' of a connection.          *)
Payloads == [conn : Conns, frame : 1..MaxFrames, len : 1..PayloadLen]

Mgr == INSTANCE ClientSocketManager WITH
         Socks <- Conns, MaxClientCnt <- MaxSockNum
Pkt == INSTANCE ProcPktThread WITH
         ClientIds <- 0..MaxSockNum - 1,
         PayloadSize <- [p \in Payloads |-> p.len],
         pc <- proc_pc

Frames == [len : Lens, here : Nat]

TypeOK ==
  /\ backlog \in Seq(Conns)
  /\ peer \in [Conns -> {"new", "open", "closed", "reset", "gone"}]
  /\ unread \in [Conns -> Seq(Frames)]
  /\ select_pc \in {"select", "accept", "pick", "recv_len", "recv_body",
                    "exited"}
  /\ read_socks \subseteq Conns \cup {Listener} /\ all_socks \subseteq read_socks
  /\ client_sock \in [sock : Conns \cup {NoSock}, client_id : Mgr!Slots]
  /\ total_pkt_len \in 0..PayloadLen
  /\ frames \in [Conns -> Seq(Lens)] /\ reads \in [Conns -> 0..MaxFrames]
  /\ announced \subseteq Conns \X Mgr!Slots
  /\ Mgr!TypeOK /\ Pkt!TypeOK

(* start_server() has started the packet thread and init() the select      *)
(* thread; bind and listen succeeded.                                      *)
Init ==
  /\ backlog = <<>> /\ announced = {}
  /\ peer = [c \in Conns |-> "new"]
  /\ unread = [c \in Conns |-> <<>>]
  /\ frames = [c \in Conns |-> <<>>] /\ reads = [c \in Conns |-> 0]
  /\ select_pc = "select" /\ total_pkt_len = 0
  /\ read_socks = {Listener} /\ all_socks = {}
  /\ client_sock = Mgr!DefaultClientSock
  /\ Mgr!Init /\ Pkt!Init

-----------------------------------------------------------------------------
(* Clients.                                                                *)

Connect(c) ==
  /\ peer[c] = "new"
  /\ peer' = [peer EXCEPT ![c] = "open"]
  /\ backlog' = Append(backlog, c)
  /\ UNCHANGED <<unread, frames, loop_vars, mgr_vars, queue_vars>>

Complete(f) == f.here = f.len

(* A client sends one packet after the other.  The body of one that is too *)
(* long for the server does not matter.                                    *)
SendLength(c, n) ==
  /\ peer[c] = "open" /\ Len(frames[c]) < MaxFrames
  /\ unread[c] # <<>> => Complete(unread[c][Len(unread[c])])
  /\ unread' = [unread EXCEPT ![c] = Append(@, [len |-> n, here |-> 0])]
  /\ frames' = [frames EXCEPT ![c] = Append(@, n)]
  /\ UNCHANGED <<backlog, peer, loop_vars, mgr_vars, queue_vars>>

SendUnit(c) ==
  LET last == Len(unread[c])
  IN  /\ peer[c] = "open" /\ unread[c] # <<>>
      /\ ~Complete(unread[c][last]) /\ unread[c][last].len <= PayloadLen
      /\ unread' = [unread EXCEPT ![c][last].here = @ + 1]
      /\ UNCHANGED <<backlog, peer, frames, loop_vars, mgr_vars, queue_vars>>

(* A close lets the server read what came before; an abort does not.       *)
Close(c) ==
  /\ peer[c] = "open"
  /\ peer' = [peer EXCEPT ![c] = "closed"]
  /\ UNCHANGED <<backlog, unread, frames, loop_vars, mgr_vars, queue_vars>>

Reset(c) ==
  /\ ResetAllowed /\ peer[c] \in {"open", "closed"}
  /\ peer' = [peer EXCEPT ![c] = "reset"]
  /\ unread' = [unread EXCEPT ![c] = <<>>]
  /\ UNCHANGED <<backlog, frames, loop_vars, mgr_vars, queue_vars>>

Client == \E c \in Conns : \/ Connect(c)
                           \/ \E n \in Lens : SendLength(c, n)
                           \/ SendUnit(c)
                           \/ Close(c)
                           \/ Reset(c)

-----------------------------------------------------------------------------
(* The select thread.                                                      *)

Ready(s) == IF s = Listener THEN backlog # <<>>
            ELSE unread[s] # <<>> \/ peer[s] \in {"closed", "reset"}

At(pc) == ~crashed /\ select_pc = pc

Mut_Select ==           \* select() is given read_socks, not a copy
  /\ At("select") /\ pushing = "no"
  /\ all_socks' = {s \in read_socks : Ready(s)}
  /\ all_socks' # {}
  /\ select_pc' = IF Listener \in all_socks' THEN "accept" ELSE "pick"
  /\ read_socks' = all_socks'
  /\ UNCHANGED <<backlog, client_vars, client_sock, total_pkt_len, reads,
                 announced, mgr_vars, queue_vars>>
(* select() without a timeout.  The thread is back from push_pkt_queue.    *)
Select ==
  /\ At("select") /\ pushing = "no"
  /\ all_socks' = {s \in read_socks : Ready(s)}
  /\ all_socks' # {}
  /\ select_pc' = IF Listener \in all_socks' THEN "accept" ELSE "pick"
  /\ UNCHANGED <<backlog, client_vars, read_socks, client_sock,
                 total_pkt_len, reads, announced, mgr_vars, queue_vars>>

SelectFails ==
  /\ At("select") /\ pushing = "no" /\ SelectMayFail
  /\ select_pc' = "exited"
  /\ UNCHANGED <<backlog, client_vars, read_socks, all_socks, client_sock,
                 total_pkt_len, reads, announced, mgr_vars, queue_vars>>

(* accept() may report that the client has aborted: run() ends.            *)
AcceptFails ==
  /\ At("accept") /\ peer[Head(backlog)] = "reset"
  /\ backlog' = Tail(backlog)
  /\ select_pc' = "exited"
  /\ UNCHANGED <<client_vars, read_socks, all_socks, client_sock,
                 total_pkt_len, reads, announced, mgr_vars, queue_vars>>

(* closesocket(): the kernel forgets what it holds for the connection.     *)
CloseSocket(c) ==
  /\ peer' = [peer EXCEPT ![c] = "gone"]
  /\ unread' = [unread EXCEPT ![c] = <<>>]
  /\ UNCHANGED frames

AcceptOverflow ==
  /\ At("accept") /\ current_client_cnt >= MaxSockNum
  /\ CloseSocket(Head(backlog)) /\ backlog' = Tail(backlog)
  /\ select_pc' = "pick"
  /\ UNCHANGED <<read_socks, all_socks, client_sock, total_pkt_len, reads,
                 announced, mgr_vars, queue_vars>>

FD_CLR(s, set) == set \ {s}
(* FD_SET does nothing when the set is full.                               *)
FD_SET(s, set) == IF Cardinality(set) < FdSetSize THEN set \cup {s} ELSE set

Mut_Accept ==                   \* no on_connect
  LET sock == Head(backlog)
  IN  /\ At("accept") /\ current_client_cnt < MaxSockNum
      /\ backlog' = Tail(backlog)
      /\ Mgr!add_client_sock(sock)
      /\ read_socks' = FD_SET(sock, read_socks)
      /\ select_pc' = "pick"
      /\ UNCHANGED <<client_vars, all_socks, client_sock, total_pkt_len,
                     reads, announced, queue_vars>>
(* add_client_sock, FD_SET, on_connect; client_id >= 0 is always true.      *)
Accept ==
  LET sock == Head(backlog)
  IN  /\ At("accept") /\ current_client_cnt < MaxSockNum
      /\ backlog' = Tail(backlog)
      /\ Mgr!add_client_sock(sock)
      /\ read_socks' = FD_SET(sock, read_socks)
      /\ announced' = announced \cup {<<sock, Mgr!AddedId>>}
      /\ select_pc' = "pick"
      /\ UNCHANGED <<client_vars, all_socks, client_sock, total_pkt_len,
                     reads, queue_vars>>

(* The next round begins.  The locals of this one are overwritten before   *)
(* they are read again.                                                    *)
EndOfRound ==
  /\ select_pc' = "select" /\ all_socks' = {} /\ total_pkt_len' = 0
  /\ client_sock' = Mgr!DefaultClientSock

(* One client is read in each round: the last of the table that is ready.  *)
Pick ==
  LET found == Mgr!get_client_sock_in(all_socks)
  IN  /\ At("pick") /\ found.sock # NoSock
      /\ client_sock' = found /\ select_pc' = "recv_len"
      /\ UNCHANGED <<backlog, client_vars, read_socks, all_socks,
                     total_pkt_len, reads, announced, mgr_vars, queue_vars>>

PickNone ==
  /\ At("pick") /\ Mgr!get_client_sock_in(all_socks).sock = NoSock
  /\ EndOfRound
  /\ UNCHANGED <<backlog, client_vars, read_socks, reads, announced, mgr_vars,
                 queue_vars>>

Mut_Drop ==     \* the ClientSock is cleared before it is deleted
  /\ read_socks' = FD_CLR(client_sock.sock, read_socks)
  /\ CloseSocket(client_sock.sock)
  /\ EndOfRound
  /\ Mgr!delete_client_sock(client_sock')
  /\ UNCHANGED <<backlog, reads, announced, queue_vars>>
(* read_pkt() returned -1 or 0.                                            *)
Drop ==
  /\ read_socks' = FD_CLR(client_sock.sock, read_socks)
  /\ CloseSocket(client_sock.sock)
  /\ Mgr!delete_client_sock(client_sock)
  /\ EndOfRound
  /\ UNCHANGED <<backlog, reads, announced, queue_vars>>

Mut_LengthRefused ==    \* the length is not compared with the buffer
  LET s == client_sock.sock
  IN  IF unread[s] = <<>> THEN peer[s] \in {"closed", "reset"}
      ELSE Head(unread[s]).len = 0
(* The length cannot be had (error or end of stream), does not fit the     *)
(* buffer, or is 0, for which recv() of the body returns 0.                *)
LengthRefused ==
  LET s == client_sock.sock
  IN  IF unread[s] = <<>> THEN peer[s] \in {"closed", "reset"}
      ELSE Head(unread[s]).len = 0 \/ Head(unread[s]).len > PayloadLen

RecvLengthFails == At("recv_len") /\ LengthRefused /\ Drop

RecvLength ==
  LET s == client_sock.sock
  IN  /\ At("recv_len") /\ unread[s] # <<>> /\ ~LengthRefused
      /\ total_pkt_len' = Head(unread[s]).len
      /\ select_pc' = "recv_body"
      /\ UNCHANGED <<backlog, client_vars, read_socks, all_socks, client_sock,
                     reads, announced, mgr_vars, queue_vars>>

BodyUnits == Head(unread[client_sock.sock]).here

Mut_BodyComes ==        \* no MSG_WAITALL
  unread[client_sock.sock] # <<>> /\ BodyUnits > 0
(* recv(..., MSG_WAITALL) returns fewer units only when no more can come.  *)
BodyComes == LET s == client_sock.sock
             IN  /\ unread[s] # <<>> /\ BodyUnits > 0
                 /\ BodyUnits = total_pkt_len \/ peer[s] = "closed"

RecvBodyFails ==
  LET s == client_sock.sock
  IN  /\ At("recv_body")
      /\ \/ peer[s] = "reset"
         \/ peer[s] = "closed" /\ BodyUnits = 0
      /\ Drop

(* read_pkt() returned the length of what it got: push_pkt_queue begins.   *)
RecvBody ==
  LET s == client_sock.sock
  IN  /\ At("recv_body") /\ BodyComes
      /\ reads' = [reads EXCEPT ![s] = @ + 1]
      /\ unread' = [unread EXCEPT ![s] = Tail(@)]
      /\ Pkt!ReadPkt(client_sock.client_id,
                     [conn |-> s, frame |-> reads[s] + 1, len |-> BodyUnits])
      /\ EndOfRound
      /\ UNCHANGED <<backlog, peer, frames, read_socks, announced, mgr_vars>>

PushPktQueue ==
  /\ Pkt!push_pkt_queue
  /\ UNCHANGED <<backlog, client_vars, loop_vars, mgr_vars>>

SelectThread ==
  \/ Select \/ SelectFails \/ AcceptFails \/ AcceptOverflow \/ Accept
  \/ Pick \/ PickNone
  \/ RecvLengthFails \/ RecvLength \/ RecvBodyFails \/ RecvBody
  \/ PushPktQueue

PacketThread ==
  /\ Pkt!run \/ Pkt!SpuriousWakeup
  /\ UNCHANGED <<backlog, client_vars, loop_vars, mgr_vars>>

-----------------------------------------------------------------------------
(* The threads of the application.                                         *)

(* send() on s takes data: s is a connection, not the socket that listens. *)
Takes(s) == s \in Conns /\ peer[s] = "open"

(* What post() returns.  It looks up the client, without a lock, but       *)
(* _post() then sends on _sock whatever socket it is given.                *)
Posted(n) == IF n = 0 THEN 0 ELSE IF Takes(Listener) THEN n ELSE -1

(* So it fails for every client, and nobody gets anything.                 *)
Post == /\ \E n \in Lens : Posted(n) <= 0
        /\ UNCHANGED vars

-----------------------------------------------------------------------------
Next == Client \/ SelectThread \/ PacketThread \/ Post

(* Both threads run.  Nothing is assumed of the clients.                   *)
Spec == /\ Init /\ [][Next]_vars
        /\ WF_vars(SelectThread) /\ WF_vars(PacketThread)

-----------------------------------------------------------------------------
(* Properties.                                                             *)

Registered == {client_sock_list[i] : i \in Mgr!InUse}
Lossless   == dropped = {} /\ ~misread

(* The descriptors select() watches are the listener and the sockets of    *)
(* the table, all of them open: no registered client is forgotten and no   *)
(* closed handle makes select() fail.  The code makes the table (1024) and *)
(* the fd_set (FD_SETSIZE) independently; this needs the table to be the   *)
(* smaller one.                                                            *)
DescriptorsMatchTable ==
  MaxSockNum < FdSetSize =>
    /\ read_socks = {Listener} \cup Registered
    /\ \A c \in Registered : peer[c] \in {"open", "closed", "reset"}

(* on_message comes after the on_connect of its client, with the same id,  *)
(* although two different threads call them.                               *)
MessageAfterConnect ==
  Lossless => \A i \in 1..Len(messages) :
                LET m == Pkt!Delivered[i]
                IN  <<m.payload.conn, m.client_id>> \in announced

(* Every message of a client that is still connected carries the id that   *)
(* names it in the table, however often ids were given back before.        *)
IdNamesSender ==
  Lossless => \A i \in 1..Len(messages) :
                LET m == Pkt!Delivered[i]
                IN  m.payload.conn \in Registered =>
                      client_sock_list[m.client_id] = m.payload.conn

(* The application gets the packets of each client one by one in the order *)
(* in which they were sent: before one of them it has got those that were  *)
(* sent earlier, each once, and no other.  It gets them whole; only the    *)
(* last one of a client that has gone away may be cut short.               *)
FramesInOrder ==
  Lossless => \A i \in 1..Len(messages) :
    LET p == Pkt!Delivered[i].payload
        before == {j \in 1..i - 1 : Pkt!Delivered[j].payload.conn = p.conn}
    IN  /\ {Pkt!Delivered[j].payload.frame : j \in before} = 1..p.frame - 1
        /\ \/ p.len = frames[p.conn][p.frame]
           \/ p.frame = Len(frames[p.conn]) /\ peer[p.conn] # "open"

(* A client is closed only if it went away or sent a length of 0 or one    *)
(* that exceeds the buffer; what others do never costs it its connection.  *)
Faulty(c) == \/ peer[c] \in {"closed", "reset"}
             \/ \E k \in 1..Len(frames[c]) : frames[c][k] \notin 1..PayloadLen
DroppedForCause ==
  [][\A c \in Registered : c \in Registered' \/ Faulty(c)]_vars

(* The select loop keeps to the protocol ClientSocketManager assumes of    *)
(* its caller: the ClientSock it deletes is never stale.                   *)
KeepsManagerProtocol == Mgr!Spec

(* The loop waits in recv() for the rest of a body that the client, still  *)
(* connected, does not send.                                               *)
Stalled == At("recv_body") /\ peer[client_sock.sock] = "open" /\ ~BodyComes
Halted  == crashed \/ select_pc = "exited"

Sent(c, k) == /\ k <= Len(frames[c])
              /\ \A j \in 1..k : frames[c][j] \in 1..PayloadLen
              /\ \/ reads[c] >= k
                 \/ /\ Len(unread[c]) >= k - reads[c]
                    /\ Complete(unread[c][k - reads[c]])
GotMessage(c, k) == \E i \in 1..Len(messages) :
                      LET m == Pkt!PayloadIn(messages[i].payload)
                      IN  m.conn = c /\ m.frame = k

(* A client that has connected is accepted, and every packet it has sent   *)
(* completely reaches on_message in the blocking mode, also when it closes *)
(* right after it, unless the table is full when its turn comes, it aborts *)
(* its connection, the loop has ended or waits for ever for the rest of a  *)
(* body.  (Clients that never stop sending starve those in lower slots;    *)
(* MaxFrames rules that out.)                                              *)
Unserved(c) ==
  \/ peer[c] = "open" /\ c \notin Registered
  \/ \E k \in 1..MaxFrames : Sent(c, k) /\ ~GotMessage(c, k)
Refused(c) == peer[c] = "gone" /\ \A a \in announced : a[1] # c
EventuallyServed ==
  (\A c \in Conns : Unserved(c)
                      ~> ~Unserved(c) \/ Refused(c) \/ peer[c] = "reset" \/ Halted)
    \/ <>[]Stalled
=============================================================================
