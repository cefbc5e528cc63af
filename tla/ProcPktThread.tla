---------------------------- MODULE ProcPktThread ----------------------------
(***************************************************************************)
(* The packet queue of the server and the thread that empties it           *)
(* (src/tamenut_net/ProcPktThread.cpp).                                    *)
(*                                                                         *)
(* A receiving thread hands over a packet with two calls of                *)
(* push_pkt_queue: the 4 bytes of the client id, then the payload          *)
(* (TameServerImpl::push_pkt_queue).  The thread of this class pops the    *)
(* two entries again, one after the other, and calls on_message.           *)
(*                                                                         *)
(* What the code does between _queue_lock.lock() and unlock() is one step. *)
(* A wait on _queue_cond is two: going to sleep, which releases the lock,  *)
(* and popping after a wakeup.  TStringCircularQueue and TCondition are    *)
(* binary libraries known by their headers: a queue of strings with a      *)
(* limit on the bytes it holds, and a Windows CONDITION_VARIABLE.          *)
(***************************************************************************)
EXTENDS Naturals, Sequences

CONSTANTS
  ClientIds, Payloads,  \* what a packet is made of
  PayloadSize,          \* [Payloads -> Nat], payload_len of each payload
  IdLen,                \* sizeof(client_id)
  HeaderLen,            \* bytes TStringCircularQueue adds to a string
  MaxSize,              \* bytes the queue can hold: 1024 * 5 in the code
  RecvBlockingValues,   \* values the uninitialised _recv_blocking may have
  SpuriousWakeups,      \* can wait() return although nobody signalled?
  Garbage,              \* what a buffer holds that no packet wrote as asked
  MaxPkts,              \* bound: packets handed over
  MaxMessages           \* bound: calls of on_message

ASSUME ProcAssumption ==
  /\ PayloadSize \in [Payloads -> Nat]
  /\ IdLen \in Nat /\ HeaderLen \in Nat /\ MaxSize \in Nat
  /\ RecvBlockingValues \subseteq BOOLEAN
  /\ SpuriousWakeups \in BOOLEAN
  /\ MaxPkts \in Nat /\ MaxMessages \in Nat

VARIABLES
  user_data_queue,  \* _user_data_queue: the entries, oldest first
  recv_blocking,    \* _recv_blocking, read but never written by the code
  waiter,           \* the packet thread in _queue_cond.wait()
  pc,               \* where run() is
  client_id,        \* run()'s local client_id: the entry popped into it
  payload,          \* run()'s local payload: the entry popped into it
  crashed,          \* a pop has written past client_id and the thread died
  pushing,          \* which push_pkt_queue call the receiving thread is in
  received,         \* history: the packets handed over
  messages,         \* history: what each on_message got
  dropped,          \* history: the entries a push refused and gave up
  misread           \* history: some pop found the queue empty

thread_vars == <<pc, client_id, payload, crashed, messages, misread>>
push_vars   == <<pushing, received, dropped>>
vars == <<user_data_queue, recv_blocking, waiter, thread_vars, push_vars>>

-----------------------------------------------------------------------------
(* An entry is the half of a packet that one push_pkt_queue call queues:   *)
(* the packet is named by its place in `received'.                         *)
Entries == [kind : {"id", "payload"}, pkt : 1..MaxPkts]
NoEntry == [kind |-> "none", pkt |-> 0]      \* an uninitialised buffer
Packets == [client_id : ClientIds, payload : Payloads]
Messages == [id : Entries \cup {NoEntry}, payload : Entries \cup {NoEntry}]

EntryLen(e) == IF e.kind = "id" THEN IdLen
               ELSE PayloadSize[received[e.pkt].payload]

(* The place of an entry in the order in which entries are handed over.    *)
Ordinal(e) == IF e.kind = "id" THEN 2 * e.pkt - 1 ELSE 2 * e.pkt

(* Bytes the queue holds (_cur_size).                                      *)
Bytes(q) ==
  LET upto[i \in 0..Len(q)] ==
        IF i = 0 THEN 0 ELSE upto[i - 1] + HeaderLen + EntryLen(q[i])
  IN  upto[Len(q)]

Fits(e) == Bytes(user_data_queue) + HeaderLen + EntryLen(e) <= MaxSize

(* Every payload fits an empty queue, and so does a client id.             *)
AllFit == /\ HeaderLen + IdLen <= MaxSize
          /\ \A p \in Payloads : HeaderLen + PayloadSize[p] <= MaxSize

(* The buffers of run() as the application reads them.                     *)
ClientIdIn(e) == IF e.kind = "id" THEN received[e.pkt].client_id ELSE Garbage
PayloadIn(e)  == IF e.kind = "payload" THEN received[e.pkt].payload
                 ELSE Garbage

(* The packets on_message was called with, as it reads them.               *)
Delivered == [i \in 1..Len(messages) |->
                [client_id |-> ClientIdIn(messages[i].id),
                 payload   |-> PayloadIn(messages[i].payload)]]

TypeOK ==
  /\ user_data_queue \in Seq(Entries)
  /\ recv_blocking \in BOOLEAN
  /\ waiter \in {"no", "waiting", "signalled"}
  /\ pc \in {"pop_id", "pop_payload", "on_message"}
  /\ client_id \in Entries \cup {NoEntry}
  /\ payload \in Entries \cup {NoEntry}
  /\ crashed \in BOOLEAN /\ misread \in BOOLEAN
  /\ pushing \in {"no", "id", "payload"}
  /\ received \in Seq(Packets) /\ Len(received) <= MaxPkts
  /\ messages \in Seq(Messages)
  /\ dropped \subseteq Entries
  /\ pushing # "no" => received # <<>>

Init ==
  /\ user_data_queue = <<>>
  /\ recv_blocking \in RecvBlockingValues
  /\ waiter = "no" /\ pc = "pop_id"
  /\ client_id = NoEntry /\ payload = NoEntry
  /\ crashed = FALSE /\ misread = FALSE
  /\ pushing = "no" /\ received = <<>>
  /\ messages = <<>> /\ dropped = {}

-----------------------------------------------------------------------------
(* The receiving thread.                                                   *)

Mut_ReadPkt(c, p) ==    \* the client id is not pushed
  /\ ~crashed /\ pushing = "no" /\ Len(received) < MaxPkts
  /\ received' = Append(received, [client_id |-> c, payload |-> p])
  /\ pushing' = "payload"
  /\ UNCHANGED <<user_data_queue, recv_blocking, waiter, thread_vars,
                 dropped>>
(* It has read a packet and calls TameServerImpl::push_pkt_queue.          *)
ReadPkt(c, p) ==
  /\ ~crashed /\ pushing = "no" /\ Len(received) < MaxPkts
  /\ received' = Append(received, [client_id |-> c, payload |-> p])
  /\ pushing' = "id"
  /\ UNCHANGED <<user_data_queue, recv_blocking, waiter, thread_vars,
                 dropped>>

Pushed == [kind |-> pushing, pkt |-> Len(received)]

Mut_PushReturned ==     \* the end of the second call is not noticed
  pushing' = IF pushing = "id" THEN "payload" ELSE "done"
(* The first call returns and the second begins, or the second returns.    *)
PushReturned == pushing' = IF pushing = "id" THEN "payload" ELSE "no"

Mut_Signal == waiter' = waiter      \* no signal
(* _queue_cond.signal(): wakes the packet thread if it sleeps.             *)
Signal == waiter' = IF waiter = "waiting" THEN "signalled" ELSE waiter

PushFits ==
  /\ ~crashed /\ pushing # "no" /\ Fits(Pushed)
  /\ user_data_queue' = Append(user_data_queue, Pushed)
  /\ Signal /\ PushReturned
  /\ UNCHANGED <<recv_blocking, thread_vars, received, dropped>>

(* The non-blocking push logs that the packet is dropped and signals.      *)
PushDropped ==
  /\ ~crashed /\ pushing # "no" /\ ~Fits(Pushed) /\ ~recv_blocking
  /\ dropped' = dropped \cup {Pushed}
  /\ Signal /\ PushReturned
  /\ UNCHANGED <<user_data_queue, recv_blocking, thread_vars, received>>

(* The blocking push signals as well, sleeps and tries again.              *)
PushRefused ==
  /\ ~crashed /\ pushing # "no" /\ ~Fits(Pushed) /\ recv_blocking
  /\ Signal
  /\ UNCHANGED <<user_data_queue, recv_blocking, thread_vars, push_vars>>

push_pkt_queue == PushFits \/ PushDropped \/ PushRefused

-----------------------------------------------------------------------------
(* The packet thread.                                                      *)

Popping == ~crashed /\ pc \in {"pop_id", "pop_payload"}

(* pop_user_data_queue finds the queue empty and waits, without a timeout. *)
Wait ==
  /\ Popping /\ waiter = "no" /\ user_data_queue = <<>>
  /\ waiter' = "waiting"
  /\ UNCHANGED <<user_data_queue, recv_blocking, thread_vars, push_vars>>

(* A CONDITION_VARIABLE may wake a thread that nobody signalled.           *)
SpuriousWakeup ==
  /\ ~crashed /\ SpuriousWakeups /\ waiter = "waiting"
  /\ waiter' = "signalled"
  /\ UNCHANGED <<user_data_queue, recv_blocking, thread_vars, push_vars>>

Mut_CanPop == Popping /\ waiter # "waiting"     \* no test for emptiness
(* The lock is held and the wait, if there was one, is over: the code does *)
(* not look at the queue a second time.                                    *)
CanPop == /\ Popping
          /\ \/ waiter = "signalled"
             \/ waiter = "no" /\ user_data_queue # <<>>

Mut_PopString(buffer) ==    \* the newest entry is read
  IF user_data_queue = <<>> THEN buffer
  ELSE user_data_queue[Len(user_data_queue)]
(* pop_string leaves the buffer alone when there is nothing to pop.        *)
PopString(buffer) == IF user_data_queue = <<>> THEN buffer
                     ELSE Head(user_data_queue)

Mut_Popped == UNCHANGED user_data_queue         \* read, not removed
Mut_PoppedAll == user_data_queue' = <<>>        \* everything is removed
Popped == user_data_queue' = IF user_data_queue = <<>> THEN <<>>
                             ELSE Tail(user_data_queue)

(* pop_string is not told how large the buffer is: an entry longer than    *)
(* the 4 bytes of client_id overwrites the stack, and what the thread does *)
(* then is undefined; it dies or it goes on.                               *)
Overruns == user_data_queue # <<>> /\ EntryLen(Head(user_data_queue)) > IdLen

PopId ==
  /\ CanPop /\ pc = "pop_id"
  /\ client_id' = PopString(client_id) /\ Popped
  /\ crashed' \in IF Overruns THEN BOOLEAN ELSE {FALSE}
  /\ misread' = (misread \/ user_data_queue = <<>>)
  /\ waiter' = "no" /\ pc' = "pop_payload"
  /\ UNCHANGED <<recv_blocking, payload, messages, push_vars>>

PopPayload ==
  /\ CanPop /\ pc = "pop_payload"
  /\ payload' = PopString(payload) /\ Popped
  /\ misread' = (misread \/ user_data_queue = <<>>)
  /\ waiter' = "no" /\ pc' = "on_message"
  /\ UNCHANGED <<recv_blocking, client_id, crashed, messages, push_vars>>

(* _server_listener->on_message(client_id, payload), then msleep(1000).    *)
OnMessage ==
  /\ ~crashed /\ pc = "on_message" /\ Len(messages) < MaxMessages
  /\ messages' = Append(messages, [id |-> client_id, payload |-> payload])
  /\ pc' = "pop_id"
  /\ UNCHANGED <<user_data_queue, recv_blocking, waiter, client_id, payload,
                 crashed, misread, push_vars>>

run == Wait \/ PopId \/ PopPayload \/ OnMessage

-----------------------------------------------------------------------------
Next == \/ \E c \in ClientIds, p \in Payloads : ReadPkt(c, p)
        \/ push_pkt_queue
        \/ run
        \/ SpuriousWakeup

(* The operating system runs both threads: each takes a step it can take   *)
(* for good.  Nothing makes a packet arrive.                               *)
Fairness == WF_vars(push_pkt_queue) /\ WF_vars(run)

SafeSpec == Init /\ [][Next]_vars
Spec == SafeSpec /\ Fairness

-----------------------------------------------------------------------------
(* Properties.                                                             *)

(* How many push_pkt_queue calls have returned.                            *)
NumPushed == 2 * Len(received) - (IF pushing = "id" THEN 2
                                  ELSE IF pushing = "payload" THEN 1 ELSE 0)

InQueue(e) == \E i \in 1..Len(user_data_queue) : user_data_queue[i] = e

(* The packet thread never sleeps beside a queue that holds something: the *)
(* signal that follows every push, refused ones included, is never lost    *)
(* between the emptiness test and the wait of pop_user_data_queue.         *)
NoLostWakeup == waiter = "waiting" => user_data_queue = <<>>

(* pop_user_data_queue tests for emptiness once, with an `if', and run()   *)
(* ignores what it returns.  That is enough as long as every payload fits  *)
(* an empty queue and nobody but push_pkt_queue wakes the thread: no pop   *)
(* ever finds the queue empty, although refused pushes signal too.         *)
NeverMisreads == AllFit /\ ~SpuriousWakeups => ~misread

(* Until an entry is dropped or a pop comes back empty-handed, the i-th    *)
(* call of on_message gets the client id and the payload of the i-th       *)
(* packet, although both cross the queue as two unrelated entries.         *)
Paired ==
  dropped = {} /\ ~misread =>
    \A i \in 1..Len(messages) :
      i <= Len(received) /\ Delivered[i] = received[i]

(* Drops do not reorder or repeat anything: as long as no pop comes back   *)
(* empty-handed, what on_message gets was handed over after everything     *)
(* that earlier calls got.                                                 *)
InOrder ==
  ~misread =>
    \A i \in 1..Len(messages) :
      /\ Ordinal(messages[i].id) < Ordinal(messages[i].payload)
      /\ i > 1 => Ordinal(messages[i - 1].payload) < Ordinal(messages[i].id)

(* Every half of a packet whose push has returned is in the queue, in one  *)
(* of run()'s buffers or in a message, or the log has reported it dropped: *)
(* an overrun buffer, a spurious wakeup or a full queue loses no more.     *)
NothingLost ==
  \A e \in Entries :
    Ordinal(e) <= NumPushed =>
      \/ e \in dropped
      \/ InQueue(e)
      \/ pc # "pop_id" /\ e = client_id
      \/ pc = "on_message" /\ e = payload
      \/ \E i \in 1..Len(messages) :
           e \in {messages[i].id, messages[i].payload}

(* The stack of run() is never overrun before something else went wrong: a *)
(* payload reaches client_id only after a dropped half or an empty pop has *)
(* put the thread out of step.                                             *)
OverrunAfterLoss == crashed => dropped # {} \/ misread

(* When every payload fits, nobody waits for ever: a receiving thread      *)
(* inside push_pkt_queue comes out of it, in the blocking mode too, where  *)
(* only the packet thread can make room; and what is queued is popped,     *)
(* whatever was dropped around it, so the packet thread is woken for it.   *)
(* (Only the end of the process prevents either.)                          *)
QueueMoves ==
  /\ pushing = "id" ~> pushing = "no" \/ crashed
  /\ \A e \in Entries : InQueue(e) ~> ~InQueue(e) \/ crashed

(* In the blocking mode, when every payload fits and no wakeup is          *)
(* spurious, the queue and its thread are a PktChannel: nothing is lost,   *)
(* repeated, mixed up or reordered, and everything arrives.                *)
Channel ==
  INSTANCE PktChannel WITH
    sent      <- IF recv_blocking THEN received ELSE <<>>,
    delivered <- IF recv_blocking THEN Delivered ELSE <<>>
ImplementsPktChannel == Channel!Spec

(* "Packet is droped": no part of a packet reported dropped reaches        *)
(* on_message.  The code drops halves: see the run that refutes this.      *)
DroppedWhole ==
  \A e \in dropped, i \in 1..Len(messages) :
    e.pkt \notin {messages[i].id.pkt, messages[i].payload.pkt}

(* "There may be no value when pop_user_data_queue() is called, so repeat":*)
(* on_message is called only with what was popped for it.  run() does not  *)
(* repeat: see the run that refutes this.                                  *)
OnlyPoppedMessages == ~misread
=============================================================================
