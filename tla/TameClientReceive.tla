-------------------------- MODULE TameClientReceive --------------------------
(***************************************************************************)
(* The receiving half of the client (src/tamenut_net/TameClientImpl.cpp):  *)
(* run(), the thread that reads packets from the socket into a queue, and  *)
(* the threads of the application that call read().  start_client() does   *)
(* not start run(); an owner that wants to read has to call start().       *)
(*                                                                         *)
(* The unit of data is the 4 bytes of a length.  A length has two digits   *)
(* here, whose order the network and the machine do not agree on.  What    *)
(* the code does between lock() and unlock() is one step; a wait is two.   *)
(* The other half, post(), appears as what it may do to the socket:        *)
(* connect it again while run() reads from it.                             *)
(***************************************************************************)
EXTENDS Integers, SequencesExt

CONSTANTS
  Base,             \* a length is less than Base * Base
  BufLen,           \* sizeof(payload) in run()
  Payloads,         \* what a server sends: sequences of units
  MaxPkts,          \* bound: packets sent on a connection
  MaxConns,         \* bound: connections
  MaxQueue,         \* packets _user_data_queue can hold
  Readers,          \* threads of the application that call read()
  SpuriousWakeups   \* can wait() return although nobody signalled?

ASSUME ReceiveAssumption ==
  /\ Base \in Nat \ {0} /\ BufLen \in Nat /\ MaxPkts \in Nat
  /\ MaxConns \in Nat /\ MaxQueue \in Nat \ {0}
  /\ IsFiniteSet(Readers)
  /\ Payloads \subseteq Seq(0..Base * Base - 1)
  /\ \A p \in Payloads : Len(p) < Base * Base
  /\ SpuriousWakeups \in BOOLEAN

VARIABLES
  wire,             \* what run() can still receive on this connection
  pc,               \* where run() is
  total_pkt_len,    \* read_pkt(): the length of the packet it reads
  payload,          \* run(): what it has received of it
  recv_blocking,    \* _recv_blocking
  user_data_queue,  \* _user_data_queue
  reader,           \* what each thread of the application does
  conns,            \* history: how many connections there were
  sent,             \* history: what the server sent on this one
  received,         \* history: what read_pkt() got on this one
  derailed,         \* history: a length of this one was refused, or read
                    \* on the connection before
  taken,            \* history: how many packets the readers have got
  missed            \* history: a woken thread may find nothing: another was
                    \* faster, or nobody had signalled

recv_vars == <<wire, total_pkt_len, payload, conns, sent, received, derailed>>
queue_vars == <<user_data_queue, reader, taken, missed>>
vars == <<pc, recv_blocking, recv_vars, queue_vars>>

-----------------------------------------------------------------------------
(* hton_t() and ntoh_t().                                                  *)
Swap(n) == Base * (n % Base) + n \div Base

(* The packets ps as post() writes them: each after its length.            *)
Stream(ps) == FlattenSeq([i \in DOMAIN ps |-> <<Swap(Len(ps[i]))>> \o ps[i]])

PktSeqs == UNION {[1..n -> Payloads] : n \in 0..MaxPkts}

(* A connection on which the server sends ps and which ends somewhere.     *)
Connection(ps) ==
  /\ sent' = ps
  /\ \E k \in 0..Len(Stream(ps)) : wire' = SubSeq(Stream(ps), 1, k)

Init ==
  /\ \E ps \in PktSeqs, k \in 0..MaxPkts * Base * Base :
       /\ k <= Len(Stream(ps))
       /\ sent = ps /\ wire = SubSeq(Stream(ps), 1, k)
  /\ pc = "length" /\ total_pkt_len = 0 /\ payload = <<>>
  /\ recv_blocking = FALSE
  /\ user_data_queue = <<>> /\ reader = [r \in Readers |-> "idle"]
  /\ conns = 1 /\ received = <<>> /\ derailed = FALSE
  /\ taken = 0 /\ missed = FALSE

-----------------------------------------------------------------------------
(* run(): read_pkt().                                                      *)

(* The length is compared with the buffer as it came from the network.     *)
Accepts(raw) == raw <= BufLen

(* What is sent after a refused length is not skipped.                     *)
RecvLength ==
  /\ pc = "length" /\ wire # <<>> /\ wire' = Tail(wire)
  /\ IF Accepts(Head(wire))
     THEN /\ total_pkt_len' = Swap(Head(wire)) /\ pc' = "payload"
          /\ UNCHANGED derailed
     ELSE derailed' = TRUE /\ UNCHANGED <<total_pkt_len, pc>>
  /\ UNCHANGED <<recv_blocking, payload, conns, sent, received, queue_vars>>

Mut_Arriving == SubSeq(wire, 1, IF wire = <<>> THEN 0 ELSE 1)   \* no MSG_WAITALL
Mut_ArrivingMore ==     \* the length is taken to count itself
  SubSeq(wire, 1, IF total_pkt_len < Len(wire) THEN total_pkt_len + 1
                  ELSE Len(wire))
(* MSG_WAITALL: less than asked for comes only when the connection ends.   *)
Arriving == SubSeq(wire, 1, IF total_pkt_len <= Len(wire) THEN total_pkt_len
                            ELSE Len(wire))

(* Nothing, for an empty packet too, is not pushed.  More than the buffer  *)
(* holds overwrites the stack of run(), and the process ends.              *)
RecvPayload ==
  /\ pc = "payload"
  /\ payload' = Arriving
  /\ wire' = SubSeq(wire, Len(Arriving) + 1, Len(wire))
  /\ pc' = IF Len(Arriving) > BufLen THEN "overrun"
           ELSE IF Arriving = <<>> THEN "length" ELSE "push"
  /\ received' = IF pc' = "push" THEN Append(received, Arriving) ELSE received
  /\ total_pkt_len' = 0
  /\ UNCHANGED <<recv_blocking, conns, sent, derailed, queue_vars>>

(* The connection is lost, and post() connects the same socket again.      *)
Reconnect ==
  /\ pc # "overrun" /\ conns < MaxConns /\ conns' = conns + 1
  /\ \E ps \in PktSeqs : Connection(ps)
  /\ received' = <<>> /\ derailed' = (pc = "payload")
  /\ UNCHANGED <<pc, recv_blocking, total_pkt_len, payload, queue_vars>>

-----------------------------------------------------------------------------
(* run(): push_pkt_queue().                                                *)

Waiting == {r \in Readers : reader[r] = "waiting"}
Woken   == {r \in Readers : reader[r] = "woken"}

Mut_Signal == IF user_data_queue = <<>> /\ Waiting # {}     \* only when empty
              THEN \E r \in Waiting : reader' = [reader EXCEPT ![r] = "woken"]
              ELSE UNCHANGED reader
(* _queue_cond.signal() wakes any one of the threads that wait.            *)
Signal == IF Waiting = {} THEN UNCHANGED reader
          ELSE \E r \in Waiting : reader' = [reader EXCEPT ![r] = "woken"]

Full == Len(user_data_queue) = MaxQueue

(* push_pkt_queue() returns; the buffer is written before it is read again. *)
Done == /\ pc' = "length" /\ payload' = <<>>
        /\ UNCHANGED <<recv_blocking, wire, total_pkt_len, conns, sent,
                       received, derailed>>

Mut_PushFits ==         \* no signal
  /\ pc \in {"push", "retry"} /\ ~Full
  /\ user_data_queue' = Append(user_data_queue, payload)
  /\ Done /\ UNCHANGED <<reader, taken, missed>>
PushFits ==
  /\ pc \in {"push", "retry"} /\ ~Full
  /\ user_data_queue' = Append(user_data_queue, payload)
  /\ Signal /\ Done
  /\ UNCHANGED <<taken, missed>>

(* The non-blocking push drops the packet, and signals.                    *)
PushDropped ==
  /\ pc = "push" /\ Full /\ ~recv_blocking
  /\ Signal /\ Done
  /\ UNCHANGED <<user_data_queue, taken, missed>>

(* The blocking one signals too, and tries again; it does not look at the  *)
(* mode a second time.                                                     *)
PushRefused ==
  /\ pc = "retry" \/ (pc = "push" /\ recv_blocking)
  /\ Full /\ Signal /\ pc' = "retry"
  /\ UNCHANGED <<recv_blocking, recv_vars, user_data_queue, taken, missed>>

set_recv_blocking(flag) ==
  /\ pc # "overrun" /\ recv_blocking' = flag
  /\ UNCHANGED <<pc, recv_vars, queue_vars>>

-----------------------------------------------------------------------------
(* read(), which calls pop_user_data_queue().                              *)

Take(r) ==
  /\ user_data_queue' = Tail(user_data_queue)
  /\ taken' = taken + 1
  /\ reader' = [reader EXCEPT ![r] = "idle"]
  /\ missed' = (missed \/ Woken \ {r} # {})
  /\ UNCHANGED <<pc, recv_blocking, recv_vars>>

Calls(r) == pc # "overrun" /\ reader[r] \in {"idle", "fooled"}

ReadNow(r) == Calls(r) /\ user_data_queue # <<>> /\ Take(r)

Mut_ReadWaits(r) ==     \* it does not wait
  /\ Calls(r) /\ user_data_queue = <<>>
  /\ reader' = [reader EXCEPT ![r] = "woken"]
  /\ UNCHANGED <<pc, recv_blocking, recv_vars, user_data_queue, taken, missed>>
ReadWaits(r) ==
  /\ Calls(r) /\ user_data_queue = <<>>
  /\ reader' = [reader EXCEPT ![r] = "waiting"]
  /\ UNCHANGED <<pc, recv_blocking, recv_vars, user_data_queue, taken, missed>>

(* The queue is not looked at again.  When there is nothing to pop the     *)
(* length is what the uninitialised rcv_payload_len holds: 0, and read()   *)
(* repeats, or anything else, which it returns with no packet.             *)
ReadAfterWait(r) ==
  /\ pc # "overrun" /\ reader[r] = "woken"
  /\ \/ user_data_queue # <<>> /\ Take(r)
     \/ /\ user_data_queue = <<>>
        /\ \E next \in {"idle", "fooled"} : reader' = [reader EXCEPT ![r] = next]
        /\ UNCHANGED <<pc, recv_blocking, recv_vars, user_data_queue, taken,
                       missed>>

WakeUp(r) ==
  /\ SpuriousWakeups /\ pc # "overrun" /\ reader[r] = "waiting"
  /\ reader' = [reader EXCEPT ![r] = "woken"] /\ missed' = TRUE
  /\ UNCHANGED <<pc, recv_blocking, recv_vars, user_data_queue, taken>>

-----------------------------------------------------------------------------
run == \/ RecvLength \/ RecvPayload
       \/ PushFits \/ PushDropped \/ PushRefused

read(r) == ReadNow(r) \/ ReadWaits(r) \/ ReadAfterWait(r)

Next == \/ run \/ Reconnect
        \/ \E flag \in BOOLEAN : set_recv_blocking(flag)
        \/ \E r \in Readers : read(r) \/ WakeUp(r)

(* The threads run, and the readers call read() again and again.           *)
Spec == /\ Init /\ [][Next]_vars
        /\ WF_vars(run) /\ \A r \in Readers : WF_vars(read(r))
-----------------------------------------------------------------------------
(* Properties.                                                             *)

(* at[i] is the place in sent of the i-th packet that is not empty.        *)
Follows(at, n) ==
  /\ at[0] = 0
  /\ \A i \in 1..n :
       /\ at[i - 1] < at[i] /\ sent[at[i]] # <<>>
       /\ \A k \in at[i - 1] + 1..at[i] - 1 : sent[k] = <<>>

(* While no length was refused, and the connection not replaced between a  *)
(* length and its payload, run() is in step with the server: what it reads *)
(* are the packets of this connection, in order and whole; only the last   *)
(* may be cut short, where the connection ends.                            *)
InStep ==
  LET n == Len(received)
  IN  ~derailed => \E at \in [0..n -> 0..Len(sent)] :
        /\ Follows(at, n)
        /\ \A i \in 1..n - 1 : received[i] = sent[at[i]]
        /\ n > 0 => \/ received[n] = sent[at[n]]
                    \/ wire = <<>> /\ IsPrefix(received[n], sent[at[n]])

(* No reader sleeps beside a packet that nobody is awake to take: every    *)
(* push wakes one, refused pushes too, and a reader waits only when there  *)
(* is nothing.                                                             *)
NoSleepBesidePacket ==
  Waiting # {} => Len(user_data_queue) <= Cardinality(Woken)

(* "There may be no value, so repeat" (read()): it returns without a       *)
(* packet only when another reader took the one it was woken for, or       *)
(* nobody had signalled.                                                   *)
ReturnsPackets == (\E r \in Readers : reader[r] = "fooled") => missed

(* The stack of run() is overrun only after it went out of step or when    *)
(* the server sent more than the buffer holds: the comparison before the   *)
(* conversion is no danger otherwise.                                      *)
OverrunForCause ==
  pc = "overrun" => derailed \/ \E i \in DOMAIN sent : Len(sent[i]) > BufLen

(* Packets flow as long as anybody reads: in the blocking mode run() does  *)
(* not stay in the loop of push_pkt_queue(), and whatever the queue has    *)
(* accepted is read in the end, however many readers there are and however *)
(* they are woken; unless the process ends.                                *)
PacketsFlow ==
  /\ pc = "retry" ~> pc # "retry"
  /\ \A i \in 1..MaxPkts * MaxConns :
       taken + Len(user_data_queue) >= i ~> taken >= i \/ pc = "overrun"
=============================================================================
